----------------------------- MODULE PaperProofs -----------------------------
(***************************************************************************)
(* Proofs about what stands between a model and an order.  First those     *)
(* about PaperPromotion, for any number of operators, series, families,    *)
(* candidates and staged artifacts; then those about MCPaper, whose        *)
(* parts share no state, so there is an inductive invariant for each       *)
(* (PromotionInv; GateInv, FeedsInv, RowPartInv and HotInv), and a         *)
(* behaviour of MCPaper, which is one of theirs, keeps that of its part.   *)
(***************************************************************************)
EXTENDS MCPaper, SequenceLemmas

-----------------------------------------------------------------------------
(* Promotions, swaps and rollbacks (PaperPromotion).                       *)

USE PromotionAssumption

LEMMA IdleIsNoCommand == \A c \in Commands : c # Idle
<1> SUFFICES ASSUME NEW c \in Commands, c = Idle PROVE FALSE
    OBVIOUS
<1>1. "kind" \in DOMAIN c BY DEF Commands
<1>2. "kind" \notin DOMAIN Idle BY DEF Idle
<1> QED BY <1>1, <1>2

LEMMA ManifestContents ==
    /\ \A m \in Contents : m.status = "written" => m \in Manifests
    /\ \A m \in Manifests : m.status = "written" /\ m \in Contents
BY DEF Contents, Manifests, Absent, Torn

\* The steps of a command keep it a command.
LEMMA CommandUpdates ==
    ASSUME NEW c \in Commands
    PROVE  /\ \A s \in CurrentSteps : [c EXCEPT !.step = s] \in Commands
           /\ \A s \in CurrentSteps, f \in Files :
                [[c EXCEPT !.calFile = f] EXCEPT !.step = s] \in Commands
           /\ \A s \in CurrentSteps, f \in Files, t \in Nat :
                [[[c EXCEPT !.modelFile = f] EXCEPT !.second = t]
                    EXCEPT !.step = s] \in Commands
           /\ \A s \in CurrentSteps, t \in Nat :
                [[c EXCEPT !.second = t] EXCEPT !.step = s] \in Commands
           /\ \A s \in CurrentSteps, m \in Contents :
                [[c EXCEPT !.step = s] EXCEPT !.draft = m] \in Commands
BY DEF Commands

LEMMA NewCommand ==
    ASSUME manifest \in Contents, NEW k \in {"promote", "swap", "rollback"},
           NEW s \in CurrentSteps, NEW series \in Series,
           NEW m \in Nat, NEW c \in Nat
    PROVE  Command(k, s, series, m, c) \in Commands
BY DEF Commands, Command, Contents

LEMMA FrontOfManifests ==
    ASSUME NEW s \in Seq(Manifests), s # <<>>
    PROVE  Front(s) \in Seq(Manifests)
<1>1. Len(s) - 1 \in Nat
    BY EmptySeq, LenProperties
<1>2. \A i \in 1 .. Len(s) - 1 : s[i] \in Manifests
    BY <1>1, ElementOfSeq
<1> QED BY <1>1, <1>2, IsASeq DEF Front
\* A non-empty set of naturals with an upper bound has a greatest element.
LEMMA GreatestNatural ==
    ASSUME NEW n \in Nat, NEW I, I \subseteq 1 .. n, I # {}
    PROVE  \E i \in I : \A j \in I : j <= i
<1> DEFINE D == {n - i : i \in I}
<1>1. D # {} /\ D \subseteq Nat
    OBVIOUS
<1> HIDE DEF D
<1>2. PICK d \in D : \A e \in D : d <= e
    BY <1>1, LeastNatural
<1>3. PICK i \in I : d = n - i
    BY DEF D
<1>4. \A j \in I : n - j \in D
    BY DEF D
<1>5. \A j \in I : j <= i
    BY <1>2, <1>3, <1>4
<1> QED BY <1>5

-----------------------------------------------------------------------------
LEMMA OpUpdate ==
    ASSUME TypeOK, NEW p \in Operators, NEW c \in Commands \cup {Idle},
           op' = [op EXCEPT ![p] = c]
    PROVE  /\ op' \in [Operators -> Commands \cup {Idle}]
           /\ op'[p] = c
           /\ \A q \in Operators : q # p => op'[q] = op[q]
BY DEF TypeOK

LEMMA OthersStayGrounded ==
    ASSUME TypeOK, NEW p \in Operators,
           \A q \in Operators : q # p => op'[q] = op[q],
           DOMAIN staged \subseteq DOMAIN staged',
           DOMAIN disk \subseteq DOMAIN disk',
           op'[p] # Idle => Grounded(op[p])'
    PROVE  \A q \in Operators : op'[q] # Idle => Grounded(op[q])'
BY DEF TypeOK, Grounded

LEMMA WriteType ==
    ASSUME TypeOK, NEW file \in Files, NEW content \in Copied,
           Write(file, content)
    PROVE  /\ DOMAIN disk' = DOMAIN disk \cup {file}
           /\ DOMAIN disk' \subseteq Files
           /\ disk' = [f \in DOMAIN disk' |-> disk'[f]]
           /\ \A f \in DOMAIN disk' : disk'[f] \in Copied
           /\ copies' \in Nat
<1>1. disk' = Put(disk, file, content)
    BY DEF Write
<1>2. copies' \in Nat
    BY DEF Write, TypeOK
<1>3. DOMAIN disk' = DOMAIN disk \cup {file}
    BY <1>1 DEF Put
<1>4. \A f \in DOMAIN disk' : disk'[f] \in Copied
    BY <1>1 DEF TypeOK, Put
<1>5. disk' = [f \in DOMAIN disk' |-> disk'[f]]
    BY <1>1 DEF Put
<1> QED BY <1>2, <1>3, <1>4, <1>5 DEF TypeOK

LEMMA StampedType ==
    ASSUME TypeOK, NEW i \in DOMAIN staged
    PROVE  /\ Stamped(i) \in Copied /\ Recalibrated(i) \in Copied
           /\ Stamped(i).source = i /\ Recalibrated(i).source = i
<1>1. staged \in Seq(Artifacts) /\ copies + 1 \in Nat
    BY DEF TypeOK
<1>2. i \in 1 .. Len(staged)
    BY <1>1, LenProperties
<1>3. staged[i] \in Artifacts
    BY <1>1, <1>2, ElementOfSeq
<1>4. staged[i].fit \in BOOLEAN /\ staged[i].family \in Families
    BY <1>3 DEF Artifacts
<1>5. Stamped(i) = [source |-> i, fit |-> staged[i].fit,
                    family |-> staged[i].family, sha |-> copies + 1]
    BY DEF Stamped
<1>6. Recalibrated(i) = [source |-> i, fit |-> TRUE,
                         family |-> staged[i].family, sha |-> copies + 1]
    BY DEF Recalibrated
<1> QED BY <1>1, <1>2, <1>4, <1>5, <1>6 DEF Copied

LEMMA StagedFirstType ==
    ASSUME NEW artifacts \in Seq(Artifacts), StagedFirst(artifacts)
    PROVE  TypeOK
<1>1. DOMAIN disk = {} /\ DOMAIN backups = {}
    BY DEF StagedFirst
<1>2. disk = [f \in DOMAIN disk |-> disk[f]]
      /\ backups = [t \in DOMAIN backups |-> backups[t]]
    BY DEF StagedFirst
<1> QED BY <1>1, <1>2, EmptySeq DEF StagedFirst, TypeOK, Contents

LEMMA StageType ==
    ASSUME TypeOK, NEW a \in Stageable, Stage(a)
    PROVE  TypeOK'
<1>1. staged' \in Seq(Artifacts) /\ DOMAIN staged \subseteq DOMAIN staged'
    BY AppendProperties, LenProperties DEF TypeOK, Stage
<1>2. \A p \in Operators : op'[p] # Idle => Grounded(op[p])'
    BY <1>1 DEF TypeOK, Stage, Grounded
<1> QED BY <1>1, <1>2 DEF TypeOK, Stage

LEMMA PromoteReviewType ==
    ASSUME TypeOK, NEW p \in Operators, NEW s \in Series,
           NEW m \in DOMAIN staged, NEW c \in DOMAIN staged,
           PromoteReview(p, s, m, c)
    PROVE  TypeOK'
<1> DEFINE new == Command("promote", "copyModel", s, m, c)
<1>1. m \in Nat /\ c \in Nat
    BY LenProperties DEF TypeOK
<1>2. new \in Commands
    BY <1>1, NewCommand DEF TypeOK, CurrentSteps
<1>3. op' = [op EXCEPT ![p] = new]
    BY DEF PromoteReview
<1>4. new.kind = "promote" /\ new.step = "copyModel"
      /\ new.model = m /\ new.cal = c
    BY DEF Command
<1> HIDE DEF new
<1>5. /\ op' \in [Operators -> Commands \cup {Idle}]
      /\ op'[p] = new
      /\ \A q \in Operators : q # p => op'[q] = op[q]
    BY <1>2, <1>3, OpUpdate
<1>6. Grounded(op[p])'
    BY <1>4, <1>5 DEF Grounded, PromoteReview
<1>7. \A q \in Operators : op'[q] # Idle => Grounded(op[q])'
    BY <1>5, <1>6, OthersStayGrounded DEF PromoteReview
<1>8. vetted' \subseteq Nat \X Nat
    BY <1>1 DEF TypeOK, PromoteReview
<1> QED BY <1>5, <1>7, <1>8 DEF TypeOK, PromoteReview

LEMMA AtCommand ==
    ASSUME TypeOK, NEW p \in Operators, NEW k, NEW s, At(p, k, s)
    PROVE  op[p] \in Commands /\ op[p].kind = k /\ op[p].step = s
           /\ Grounded(op[p])
BY DEF TypeOK, At

LEMMA CopyModelType ==
    ASSUME TypeOK, NEW p \in Operators, CopyModel(p)
    PROVE  TypeOK'
<1> DEFINE file == [kind |-> "model", series |-> op[p].series, second |-> now]
           new == [[[op[p] EXCEPT !.modelFile = file] EXCEPT !.second = now]
                     EXCEPT !.step = "copyCal"]
<1>1. /\ op[p] \in Commands /\ op[p].kind = "promote" /\ Grounded(op[p])
    BY AtCommand DEF CopyModel
<1>2. file \in Files
    BY <1>1 DEF Files, Roles, Commands, TypeOK
<1>3. op' = [op EXCEPT ![p] = new]
    BY DEF CopyModel
<1>4. Write(file, Stamped(op[p].model))
    BY DEF CopyModel
<1>5. new.kind = "promote" /\ new.model = op[p].model /\ new.cal = op[p].cal
      /\ new.modelFile = file /\ new.step = "copyCal"
    BY <1>1 DEF Commands
<1> HIDE DEF file
<1>6. new \in Commands
    BY <1>1, <1>2, CommandUpdates DEF CurrentSteps, TypeOK
<1> HIDE DEF new
<1>7. /\ op' \in [Operators -> Commands \cup {Idle}]
      /\ op'[p] = new
      /\ \A q \in Operators : q # p => op'[q] = op[q]
    BY <1>3, <1>6, OpUpdate
<1>8. Stamped(op[p].model) \in Copied
    BY <1>1, StampedType DEF Grounded
<1>9. /\ DOMAIN disk' = DOMAIN disk \cup {file}
      /\ DOMAIN disk' \subseteq Files
      /\ disk' = [f \in DOMAIN disk' |-> disk'[f]]
      /\ \A f \in DOMAIN disk' : disk'[f] \in Copied
      /\ copies' \in Nat
    BY <1>2, <1>4, <1>8, WriteType
<1>10. Grounded(op[p])'
    BY <1>1, <1>5, <1>7, <1>9 DEF Grounded, CopyModel
<1>11. \A q \in Operators : op'[q] # Idle => Grounded(op[q])'
    BY <1>7, <1>9, <1>10, OthersStayGrounded DEF CopyModel
<1> QED BY <1>7, <1>9, <1>11 DEF TypeOK, CopyModel

LEMMA CopyCalibratorType ==
    ASSUME TypeOK, NEW p \in Operators, CopyCalibrator(p)
    PROVE  TypeOK'
<1> DEFINE file == [kind |-> "calibrator", series |-> op[p].series,
                    second |-> op[p].second]
           new == [[op[p] EXCEPT !.calFile = file] EXCEPT !.step = "build"]
<1>1. /\ op[p] \in Commands /\ op[p].kind = "promote" /\ Grounded(op[p])
      /\ op[p].step = "copyCal"
    BY AtCommand DEF CopyCalibrator
<1>2. file \in Files
    BY <1>1 DEF Files, Roles, Commands, TypeOK
<1>3. op' = [op EXCEPT ![p] = new]
    BY DEF CopyCalibrator
<1>4. Write(file, Stamped(op[p].cal))
    BY DEF CopyCalibrator
<1>5. new.kind = "promote" /\ new.model = op[p].model /\ new.cal = op[p].cal
      /\ new.modelFile = op[p].modelFile /\ new.calFile = file
    BY <1>1 DEF Commands
<1> HIDE DEF file
<1>6. new \in Commands
    BY <1>1, <1>2, CommandUpdates DEF CurrentSteps
<1> HIDE DEF new
<1>7. /\ op' \in [Operators -> Commands \cup {Idle}]
      /\ op'[p] = new
      /\ \A q \in Operators : q # p => op'[q] = op[q]
    BY <1>3, <1>6, OpUpdate
<1>8. Stamped(op[p].cal) \in Copied
    BY <1>1, StampedType DEF Grounded
<1>9. /\ DOMAIN disk' = DOMAIN disk \cup {file}
      /\ DOMAIN disk' \subseteq Files
      /\ disk' = [f \in DOMAIN disk' |-> disk'[f]]
      /\ \A f \in DOMAIN disk' : disk'[f] \in Copied
      /\ copies' \in Nat
    BY <1>2, <1>4, <1>8, WriteType
<1>10. Grounded(op[p])'
    BY <1>1, <1>5, <1>7, <1>9 DEF Grounded, CopyCalibrator
<1>11. \A q \in Operators : op'[q] # Idle => Grounded(op[q])'
    BY <1>7, <1>9, <1>10, OthersStayGrounded DEF CopyCalibrator
<1> QED BY <1>7, <1>9, <1>11 DEF TypeOK, CopyCalibrator

LEMMA BuildPromotionType ==
    ASSUME TypeOK, NEW p \in Operators, BuildPromotion(p)
    PROVE  TypeOK'
<1> DEFINE draft ==
             [status |-> "written", series |-> op[p].series,
              family |-> staged[op[p].model].family,
              model |-> op[p].modelFile, modelSha |-> disk[op[p].modelFile].sha,
              cal |-> op[p].calFile, calSha |-> disk[op[p].calFile].sha,
              swapped |-> FALSE, backup |-> 0, prevCal |-> NoFile,
              prevSha |-> 0]
           new == [[op[p] EXCEPT !.step = "truncate"] EXCEPT !.draft = draft]
<1>1. /\ op[p] \in Commands /\ op[p].kind = "promote" /\ Grounded(op[p])
      /\ op[p].step = "build"
    BY AtCommand DEF BuildPromotion
<1>2. /\ op[p].series \in Series
      /\ op[p].modelFile \in DOMAIN disk /\ op[p].calFile \in DOMAIN disk
      /\ op[p].model \in DOMAIN staged
    BY <1>1 DEF Grounded, Commands
<1>3. /\ op[p].modelFile \in Files /\ disk[op[p].modelFile].sha \in Nat
      /\ op[p].calFile \in Files /\ disk[op[p].calFile].sha \in Nat
    BY <1>2 DEF TypeOK, Copied
<1>4. staged[op[p].model].family \in Families
  <2>1. staged[op[p].model] \in Artifacts
    BY <1>2, ElementOfSeq, LenProperties DEF TypeOK
  <2> QED BY <2>1 DEF Artifacts
<1>5. draft \in Contents
    BY <1>2, <1>3, <1>4 DEF Contents, Manifests
<1>6. op' = [op EXCEPT ![p] = new]
    BY DEF BuildPromotion
<1> HIDE DEF draft
<1>7. new \in Commands
    BY <1>1, <1>5, CommandUpdates DEF CurrentSteps
<1>8. new.kind = "promote" /\ new.model = op[p].model /\ new.cal = op[p].cal
      /\ new.step = "truncate"
    BY <1>1 DEF Commands
<1> HIDE DEF new
<1>9. /\ op' \in [Operators -> Commands \cup {Idle}]
      /\ op'[p] = new
      /\ \A q \in Operators : q # p => op'[q] = op[q]
    BY <1>6, <1>7, OpUpdate
<1>10. Grounded(op[p])'
    BY <1>1, <1>8, <1>9 DEF Grounded, BuildPromotion
<1>11. \A q \in Operators : op'[q] # Idle => Grounded(op[q])'
    BY <1>9, <1>10, OthersStayGrounded DEF BuildPromotion
<1> QED BY <1>9, <1>11 DEF TypeOK, BuildPromotion

LEMMA LatestCandidateStaged ==
    ASSUME TypeOK, NEW c, LatestCandidate(c) # 0
    PROVE  LatestCandidate(c) \in DOMAIN staged
<1> DEFINE I == {i \in DOMAIN staged : staged[i].role = c}
<1>1. I # {} /\ I \subseteq 1 .. Len(staged) /\ Len(staged) \in Nat
    BY LenProperties DEF LatestCandidate, Newest, TypeOK
<1>2. \E i \in I : \A j \in I : j <= i
    BY <1>1, GreatestNatural
<1>3. LatestCandidate(c) = CHOOSE i \in I : \A j \in I : j <= i
    BY <1>1 DEF LatestCandidate, Newest
<1> QED BY <1>2, <1>3

LEMMA SwapReviewType ==
    ASSUME TypeOK, NEW p \in Operators, NEW s \in Series, NEW c \in Candidates,
           SwapReview(p, s, c)
    PROVE  TypeOK'
<1> DEFINE i == LatestCandidate(c)
           new == Command("swap", "backup", s, 0, i)
<1>1. i \in DOMAIN staged /\ i \in Nat
    BY LatestCandidateStaged, LenProperties DEF SwapReview, TypeOK
<1>2. new \in Commands
    BY <1>1, NewCommand DEF TypeOK, CurrentSteps
<1>3. op' = [op EXCEPT ![p] = new]
    BY DEF SwapReview
<1>4. new.kind = "swap" /\ new.step = "backup" /\ new.cal = i
      /\ new.base = manifest
    BY DEF Command
<1>5. manifest \in Manifests
    BY ManifestContents DEF SwapReview, Valid, TypeOK
<1> HIDE DEF new, i
<1>6. /\ op' \in [Operators -> Commands \cup {Idle}]
      /\ op'[p] = new
      /\ \A q \in Operators : q # p => op'[q] = op[q]
    BY <1>2, <1>3, OpUpdate
<1>7. Grounded(op[p])'
    BY <1>1, <1>4, <1>5, <1>6 DEF Grounded, SwapReview
<1>8. \A q \in Operators : op'[q] # Idle => Grounded(op[q])'
    BY <1>6, <1>7, OthersStayGrounded DEF SwapReview
<1>9. disk[manifest.model].source \in Nat
    BY DEF SwapReview, Valid, TypeOK, Copied
<1>10. vetted' \subseteq Nat \X Nat
    BY <1>1, <1>9 DEF TypeOK, SwapReview, i
<1> QED BY <1>6, <1>8, <1>10 DEF TypeOK, SwapReview

LEMMA BackUpType ==
    ASSUME TypeOK, NEW p \in Operators, BackUp(p)
    PROVE  TypeOK'
<1>1. /\ op[p] \in Commands /\ op[p].kind = "swap" /\ Grounded(op[p])
    BY AtCommand DEF BackUp
<1>2. CASE manifest = Absent
  <2>1. op' = [op EXCEPT ![p] = Idle] /\ backups' = backups
    BY <1>2 DEF BackUp
  <2>2. /\ op' \in [Operators -> Commands \cup {Idle}]
        /\ op'[p] = Idle
        /\ \A q \in Operators : q # p => op'[q] = op[q]
    BY <2>1, OpUpdate
  <2>3. \A q \in Operators : op'[q] # Idle => Grounded(op[q])'
    BY <2>2, OthersStayGrounded DEF BackUp
  <2> QED BY <2>1, <2>2, <2>3 DEF TypeOK, BackUp
<1>3. CASE manifest # Absent
  <2> DEFINE new == [[op[p] EXCEPT !.second = now] EXCEPT !.step = "copySwap"]
  <2>1. op' = [op EXCEPT ![p] = new] /\ backups' = Put(backups, now, manifest)
    BY <1>3 DEF BackUp
  <2>2. new \in Commands
    BY <1>1, CommandUpdates DEF CurrentSteps, TypeOK
  <2>3. new.kind = "swap" /\ new.cal = op[p].cal /\ new.base = op[p].base
        /\ new.step = "copySwap"
    BY <1>1 DEF Commands
  <2> HIDE DEF new
  <2>4. /\ op' \in [Operators -> Commands \cup {Idle}]
        /\ op'[p] = new
        /\ \A q \in Operators : q # p => op'[q] = op[q]
    BY <2>1, <2>2, OpUpdate
  <2>5. Grounded(op[p])'
    BY <1>1, <2>3, <2>4 DEF Grounded, BackUp
  <2>6. \A q \in Operators : op'[q] # Idle => Grounded(op[q])'
    BY <2>4, <2>5, OthersStayGrounded DEF BackUp
  <2>7. /\ DOMAIN backups' \subseteq Nat
        /\ backups' = [t \in DOMAIN backups' |-> backups'[t]]
        /\ \A t \in DOMAIN backups' : backups'[t] \in Contents
    BY <2>1 DEF Put, TypeOK
  <2> QED BY <2>4, <2>6, <2>7 DEF TypeOK, BackUp
<1> QED BY <1>2, <1>3

LEMMA CopyCandidateType ==
    ASSUME TypeOK, NEW p \in Operators, CopyCandidate(p)
    PROVE  TypeOK'
<1> DEFINE file == [kind |-> staged[op[p].cal].role, series |-> op[p].series,
                    second |-> op[p].second]
           new == [[op[p] EXCEPT !.calFile = file] EXCEPT !.step = "build"]
<1>1. /\ op[p] \in Commands /\ op[p].kind = "swap" /\ Grounded(op[p])
    BY AtCommand DEF CopyCandidate
<1>2. file \in Files
  <2>1. staged[op[p].cal] \in Artifacts
    BY <1>1, ElementOfSeq, LenProperties DEF TypeOK, Grounded
  <2>2. staged[op[p].cal].role \in Roles
    BY <2>1 DEF Artifacts
  <2> QED BY <1>1, <2>2 DEF Files, Commands
<1>3. op' = [op EXCEPT ![p] = new]
    BY DEF CopyCandidate
<1>4. Write(file, Recalibrated(op[p].cal))
    BY DEF CopyCandidate
<1>5. new.kind = "swap" /\ new.base = op[p].base /\ new.cal = op[p].cal
      /\ new.calFile = file
    BY <1>1 DEF Commands
<1> HIDE DEF file
<1>6. new \in Commands
    BY <1>1, <1>2, CommandUpdates DEF CurrentSteps
<1> HIDE DEF new
<1>7. /\ op' \in [Operators -> Commands \cup {Idle}]
      /\ op'[p] = new
      /\ \A q \in Operators : q # p => op'[q] = op[q]
    BY <1>3, <1>6, OpUpdate
<1>8. Recalibrated(op[p].cal) \in Copied
    BY <1>1, StampedType DEF Grounded
<1>9. /\ DOMAIN disk' = DOMAIN disk \cup {file}
      /\ DOMAIN disk' \subseteq Files
      /\ disk' = [f \in DOMAIN disk' |-> disk'[f]]
      /\ \A f \in DOMAIN disk' : disk'[f] \in Copied
      /\ copies' \in Nat
    BY <1>2, <1>4, <1>8, WriteType
<1>10. Grounded(op[p])'
    BY <1>1, <1>5, <1>7, <1>9 DEF Grounded, CopyCandidate
<1>11. \A q \in Operators : op'[q] # Idle => Grounded(op[q])'
    BY <1>7, <1>9, <1>10, OthersStayGrounded DEF CopyCandidate
<1> QED BY <1>7, <1>9, <1>11 DEF TypeOK, CopyCandidate

\* The manifest a swap builds.
SwapDraft(p) ==
    [op[p].base EXCEPT
        !.cal = op[p].calFile, !.calSha = disk[op[p].calFile].sha,
        !.swapped = TRUE, !.backup = op[p].second,
        !.prevCal = op[p].base.cal, !.prevSha = op[p].base.calSha]

LEMMA SwapDraftFacts ==
    ASSUME TypeOK, NEW p \in Operators, BuildSwap(p)
    PROVE  /\ SwapDraft(p) \in Manifests
           /\ SwapDraft(p).model = op[p].base.model
           /\ SwapDraft(p).cal = op[p].calFile
           /\ SwapDraft(p).prevCal = op[p].base.cal
<1>1. /\ op[p] \in Commands /\ op[p].kind = "swap" /\ Grounded(op[p])
      /\ op[p].step = "build"
    BY AtCommand DEF BuildSwap
<1>2. op[p].base \in Manifests /\ op[p].calFile \in DOMAIN disk
    BY <1>1 DEF Grounded
<1>3. op[p].calFile \in Files /\ disk[op[p].calFile].sha \in Nat
      /\ op[p].second \in Nat
    BY <1>1, <1>2 DEF TypeOK, Copied, Commands
<1>4. op[p].base.cal \in Files /\ op[p].base.calSha \in Nat
    BY <1>2 DEF Manifests
<1> QED BY <1>2, <1>3, <1>4 DEF SwapDraft, Manifests

LEMMA BuildSwapType ==
    ASSUME TypeOK, NEW p \in Operators, BuildSwap(p)
    PROVE  TypeOK'
<1> DEFINE new == [[op[p] EXCEPT !.step = "truncate"] EXCEPT !.draft = SwapDraft(p)]
<1>1. /\ op[p] \in Commands /\ op[p].kind = "swap" /\ Grounded(op[p])
    BY AtCommand DEF BuildSwap
<1>2. SwapDraft(p) \in Contents
    BY SwapDraftFacts, ManifestContents
<1>3. op' = [op EXCEPT ![p] = new]
    BY DEF BuildSwap, SwapDraft
<1>4. new \in Commands
    BY <1>1, <1>2, CommandUpdates DEF CurrentSteps
<1>5. new.kind = "swap" /\ new.base = op[p].base /\ new.cal = op[p].cal
      /\ new.step = "truncate"
    BY <1>1 DEF Commands
<1> HIDE DEF new
<1>6. /\ op' \in [Operators -> Commands \cup {Idle}]
      /\ op'[p] = new
      /\ \A q \in Operators : q # p => op'[q] = op[q]
    BY <1>3, <1>4, OpUpdate
<1>7. Grounded(op[p])'
    BY <1>1, <1>5, <1>6 DEF Grounded, BuildSwap
<1>8. \A q \in Operators : op'[q] # Idle => Grounded(op[q])'
    BY <1>6, <1>7, OthersStayGrounded DEF BuildSwap
<1> QED BY <1>6, <1>8 DEF TypeOK, BuildSwap

\* The manifest a rollback reconstructs when the backup is gone.
Reconstruction ==
    [manifest EXCEPT !.cal = manifest.prevCal, !.calSha = manifest.prevSha,
                     !.swapped = FALSE]

LEMMA ReconstructionFacts ==
    ASSUME TypeOK, CanRestore, manifest.backup \notin DOMAIN backups
    PROVE  /\ Restoration = Reconstruction
           /\ Reconstruction \in Manifests
           /\ Reconstruction.model = manifest.model
           /\ Reconstruction.cal = manifest.prevCal
           /\ Reconstruction.swapped = FALSE
<1>1. manifest \in Manifests /\ manifest.prevCal \in DOMAIN disk
    BY ManifestContents DEF CanRestore, TypeOK
<1>2. manifest.prevCal \in Files
    BY <1>1 DEF TypeOK
<1>3. Restoration = Reconstruction
    BY DEF Restoration, Reconstruction
<1>4. manifest.prevSha \in Nat
    BY <1>1 DEF Manifests
<1> QED BY <1>1, <1>2, <1>3, <1>4 DEF Reconstruction, Manifests

LEMMA RollbackType ==
    ASSUME TypeOK, NEW p \in Operators, NEW s \in Series, Rollback(p, s)
    PROVE  TypeOK'
<1> DEFINE old == Command("rollback", "truncate", s, 0, 0)
           new == [old EXCEPT !.draft = Restoration]
<1>1. Restoration \in Contents
  <2>1. CASE manifest.backup \in DOMAIN backups
    BY <2>1 DEF TypeOK, Restoration
  <2>2. CASE manifest.backup \notin DOMAIN backups
    BY <2>2, ReconstructionFacts, ManifestContents DEF Rollback
  <2> QED BY <2>1, <2>2
<1>2. op' = [op EXCEPT ![p] = new]
    BY DEF Rollback
<1>3. old \in Commands
    BY NewCommand DEF TypeOK, CurrentSteps
<1>4. old.kind = "rollback"
    BY DEF Command
<1> HIDE DEF old
<1>5. new \in Commands /\ new.kind = "rollback"
    BY <1>1, <1>3, <1>4 DEF Commands
<1> HIDE DEF new
<1>6. /\ op' \in [Operators -> Commands \cup {Idle}]
      /\ op'[p] = new
      /\ \A q \in Operators : q # p => op'[q] = op[q]
    BY <1>2, <1>5, OpUpdate
<1>7. Grounded(op[p])'
    BY <1>5, <1>6 DEF Grounded
<1>8. \A q \in Operators : op'[q] # Idle => Grounded(op[q])'
    BY <1>6, <1>7, OthersStayGrounded DEF Rollback
<1> QED BY <1>6, <1>8 DEF TypeOK, Rollback

LEMMA TruncateType ==
    ASSUME TypeOK, NEW p \in Operators, TruncateManifest(p)
    PROVE  TypeOK'
<1> DEFINE new == [op[p] EXCEPT !.step = "fill"]
<1>1. op[p] \in Commands /\ op[p].step = "truncate" /\ Grounded(op[p])
    BY DEF TypeOK, TruncateManifest, IsIdle
<1>2. op' = [op EXCEPT ![p] = new]
    BY DEF TruncateManifest
<1>3. new \in Commands
    BY <1>1, CommandUpdates DEF CurrentSteps
<1>4. new.kind = op[p].kind /\ new.base = op[p].base /\ new.cal = op[p].cal
      /\ new.model = op[p].model /\ new.step = "fill"
    BY <1>1 DEF Commands
<1> HIDE DEF new
<1>5. /\ op' \in [Operators -> Commands \cup {Idle}]
      /\ op'[p] = new
      /\ \A q \in Operators : q # p => op'[q] = op[q]
    BY <1>2, <1>3, OpUpdate
<1>6. Grounded(op[p])'
    BY <1>1, <1>4, <1>5 DEF Grounded, TruncateManifest
<1>7. \A q \in Operators : op'[q] # Idle => Grounded(op[q])'
    BY <1>5, <1>6, OthersStayGrounded DEF TruncateManifest
<1> QED BY <1>5, <1>7 DEF TypeOK, TruncateManifest, Contents

LEMMA FillType ==
    ASSUME TypeOK, NEW p \in Operators, FillManifest(p)
    PROVE  TypeOK'
<1>1. op[p] \in Commands /\ op[p].step = "fill" /\ Grounded(op[p])
    BY DEF TypeOK, FillManifest, IsIdle
<1>2. op' = [op EXCEPT ![p] = Idle]
    BY DEF FillManifest
<1>3. /\ op' \in [Operators -> Commands \cup {Idle}]
      /\ op'[p] = Idle
      /\ \A q \in Operators : q # p => op'[q] = op[q]
    BY <1>2, OpUpdate
<1>4. \A q \in Operators : op'[q] # Idle => Grounded(op[q])'
    BY <1>3, OthersStayGrounded DEF FillManifest
<1>5. manifest' \in Contents
    BY <1>1 DEF FillManifest, Commands
<1>6. replaced' \in Seq(Manifests)
  <2>1. CASE op[p].kind = "promote"
    BY <2>1 DEF FillManifest
  <2>2. CASE op[p].kind = "swap"
    <3>1. op[p].base \in Manifests
      BY <1>1, <2>2 DEF Grounded
    <3>2. replaced' = Append(replaced, op[p].base)
      BY <2>2 DEF FillManifest
    <3> QED BY <3>1, <3>2, AppendProperties DEF TypeOK
  <2>3. CASE op[p].kind = "rollback"
    BY <2>3, FrontOfManifests DEF FillManifest, TypeOK
  <2> QED BY <1>1, <2>1, <2>2, <2>3 DEF Commands
<1> QED BY <1>3, <1>4, <1>5, <1>6 DEF TypeOK, FillManifest

LEMMA CrashType ==
    ASSUME TypeOK, NEW p \in Operators, Crash(p)
    PROVE  TypeOK'
<1>1. op' = [op EXCEPT ![p] = Idle]
    BY DEF Crash
<1>2. /\ op' \in [Operators -> Commands \cup {Idle}]
      /\ op'[p] = Idle
      /\ \A q \in Operators : q # p => op'[q] = op[q]
    BY <1>1, OpUpdate
<1>3. \A q \in Operators : op'[q] # Idle => Grounded(op[q])'
    BY <1>2, OthersStayGrounded DEF Crash
<1> QED BY <1>2, <1>3 DEF TypeOK, Crash

LEMMA QuietType ==
    ASSUME TypeOK,
           \/ \E p \in Operators : Demote(p)
           \/ \E t \in DOMAIN backups : LoseBackup(t)
           \/ Tick
           \/ UNCHANGED vars
    PROVE  TypeOK'
<1>1. UNCHANGED <<staged, disk, op>>
    BY DEF Demote, LoseBackup, Tick, vars
<1>2. \A q \in Operators : op'[q] # Idle => Grounded(op[q])'
    BY <1>1 DEF TypeOK, Grounded
<1>3. CASE \E p \in Operators : Demote(p)
    BY <1>1, <1>2, <1>3, EmptySeq DEF TypeOK, Demote, Contents
<1>4. CASE \E t \in DOMAIN backups : LoseBackup(t)
  <2>1. PICK t \in DOMAIN backups : LoseBackup(t)
    BY <1>4
  <2>2. backups' = [u \in DOMAIN backups \ {t} |-> backups[u]]
    BY <2>1 DEF LoseBackup
  <2>3. /\ DOMAIN backups' \subseteq Nat
        /\ backups' = [u \in DOMAIN backups' |-> backups'[u]]
        /\ \A u \in DOMAIN backups' : backups'[u] \in Contents
    BY <2>2 DEF TypeOK
  <2> QED BY <1>1, <1>2, <2>1, <2>3 DEF TypeOK, LoseBackup
<1>5. CASE Tick
    BY <1>1, <1>2, <1>5 DEF TypeOK, Tick
<1>6. CASE UNCHANGED vars
    BY <1>1, <1>2, <1>6 DEF TypeOK, vars
<1> QED BY <1>3, <1>4, <1>5, <1>6

LEMMA TypeStep ==
    ASSUME TypeOK, Step \/ Lose \/ UNCHANGED vars
    PROVE  TypeOK'
<1>1. CASE \E a \in Stageable : Stage(a)
    BY <1>1, StageType
<1>2. ASSUME NEW p \in Operators, NEW s \in Series,
             NEW m \in DOMAIN staged, NEW c \in DOMAIN staged,
             PromoteReview(p, s, m, c)
      PROVE  TypeOK'
    BY <1>2, PromoteReviewType
<1>3. ASSUME NEW p \in Operators, NEW s \in Series, NEW c \in Candidates,
             SwapReview(p, s, c)
      PROVE  TypeOK'
    BY <1>3, SwapReviewType
<1>4. ASSUME NEW p \in Operators, NEW s \in Series, Rollback(p, s)
      PROVE  TypeOK'
    BY <1>4, RollbackType
<1>5. ASSUME NEW p \in Operators,
             \/ CopyModel(p) \/ CopyCalibrator(p) \/ BuildPromotion(p)
             \/ BackUp(p) \/ CopyCandidate(p) \/ BuildSwap(p)
             \/ TruncateManifest(p) \/ FillManifest(p) \/ Crash(p)
      PROVE  TypeOK'
    BY <1>5, CopyModelType, CopyCalibratorType, BuildPromotionType, BackUpType,
       CopyCandidateType, BuildSwapType, TruncateType, FillType, CrashType
<1>6. CASE \/ \E p \in Operators : Demote(p)
           \/ \E t \in DOMAIN backups : LoseBackup(t)
           \/ Tick
           \/ UNCHANGED vars
    BY <1>6, QuietType
<1> QED BY <1>1, <1>2, <1>3, <1>4, <1>5, <1>6 DEF Step, Lose

\* The state of the promotion directory and of every command stays well formed
\* through any interleaving of commands, crashes and lost backups: no command
\* uses a source, a copy or a manifest that is not there.
THEOREM TypeCorrect == Spec => []TypeOK
<1>1. Init => TypeOK
    BY StagedFirstType DEF Init
<1>2. TypeOK /\ [Next]_vars => TypeOK'
    BY TypeStep DEF Next
<1> QED BY <1>1, <1>2, PTL DEF Spec
-----------------------------------------------------------------------------
\* What never goes away: a promoted copy, and a review.
Grown ==
    /\ DOMAIN disk \subseteq DOMAIN disk'
    /\ \A f \in DOMAIN disk : disk'[f] = disk[f]
    /\ vetted \subseteq vetted'

LEMMA WriteGrows ==
    ASSUME NamesOnce, NEW file, NEW content, Write(file, content),
           vetted' = vetted
    PROVE  Grown /\ file \in DOMAIN disk' /\ disk'[file] = content
BY DEF Write, Put, Grown, NamesOnce

LEMMA SoundStays ==
    ASSUME Grown, NEW m, Sound(m)
    PROVE  m.status = "written" =>
             /\ m.model \in DOMAIN disk' /\ m.cal \in DOMAIN disk'
             /\ <<disk'[m.model].source, disk'[m.cal].source>> \in vetted'
             /\ disk'[m.model] = disk[m.model]
             /\ m.swapped => /\ m.prevCal \in DOMAIN disk'
                             /\ <<disk'[m.model].source,
                                   disk'[m.prevCal].source>> \in vetted'
BY DEF Grown, Sound, Vet

LEMMA ManifestsStaySound ==
    ASSUME OnlyVettedPairs, Grown
    PROVE  /\ manifest' = manifest => Sound(manifest)'
           /\ backups' = backups =>
                \A t \in DOMAIN backups' : Sound(backups[t])'
<1>1. ASSUME manifest' = manifest PROVE Sound(manifest)'
    BY <1>1, SoundStays DEF OnlyVettedPairs, Sound, Vet
<1>2. ASSUME backups' = backups, NEW t \in DOMAIN backups'
      PROVE  Sound(backups[t])'
    BY <1>2, SoundStays DEF OnlyVettedPairs, Sound, Vet
<1> QED BY <1>1, <1>2

LEMMA CommandStaysSound ==
    ASSUME TypeOK, OnlyVettedPairs, Grown, NEW q \in Operators, op'[q] = op[q]
    PROVE  SoundCommand(op[q])'
<1> SUFFICES ASSUME op[q] # Idle PROVE SoundCommand(op[q])'
    BY DEF SoundCommand
<1>1. SoundCommand(op[q])
    BY DEF OnlyVettedPairs
<1>2. Sound(op[q].base)' /\ Sound(op[q].draft)'
    BY <1>1, SoundStays DEF SoundCommand, Sound, Vet
<1>3. SoundPromotion(op[q])'
    BY <1>1 DEF SoundCommand, SoundPromotion, CopyOf, Grown
<1>4. SoundSwap(op[q])'
    BY <1>1, SoundStays
       DEF SoundCommand, SoundSwap, CopyOf, Grown, Sound, Vet
<1> QED BY <1>2, <1>3, <1>4 DEF SoundCommand

\* A step of one command that leaves the manifest and the backups alone.
LEMMA OneCommandSound ==
    ASSUME TypeOK, OnlyVettedPairs, Grown, NEW p \in Operators,
           \A q \in Operators : q # p => op'[q] = op[q],
           manifest' = manifest, backups' = backups,
           SoundCommand(op[p])'
    PROVE  OnlyVettedPairs'
<1>1. \A q \in Operators : SoundCommand(op[q])'
    BY CommandStaysSound
<1> QED BY <1>1, ManifestsStaySound DEF OnlyVettedPairs

LEMMA AbsentSound == Sound(Absent) /\ Sound(Torn) /\ Sound(Absent)' /\ Sound(Torn)'
BY DEF Sound, Absent, Torn

LEMMA PromoteReviewSound ==
    ASSUME TypeOK, OnlyVettedPairs, NEW p \in Operators, NEW s \in Series,
           NEW m \in DOMAIN staged, NEW c \in DOMAIN staged,
           PromoteReview(p, s, m, c)
    PROVE  OnlyVettedPairs'
<1> DEFINE new == Command("promote", "copyModel", s, m, c)
<1>1. Grown
    BY DEF Grown, PromoteReview
<1>2. op'[p] = new /\ \A q \in Operators : q # p => op'[q] = op[q]
    BY DEF PromoteReview, TypeOK
<1>3. new.kind = "promote" /\ new.step = "copyModel" /\ new.model = m
      /\ new.cal = c /\ new.base = manifest /\ new.draft = Absent
    BY DEF Command
<1> HIDE DEF new
<1>4. Sound(manifest)' /\ manifest' = manifest /\ backups' = backups
    BY <1>1, ManifestsStaySound DEF PromoteReview
<1>5. SoundPromotion(op[p])' /\ SoundSwap(op[p])'
    BY <1>2, <1>3 DEF SoundPromotion, SoundSwap, PromoteReview
<1>6. Sound(op[p].base)' /\ Sound(op[p].draft)'
    BY <1>2, <1>3, <1>4, AbsentSound DEF Sound, Vet
<1>7. SoundCommand(op[p])'
    BY <1>5, <1>6 DEF SoundCommand
<1> QED BY <1>1, <1>2, <1>4, <1>7, OneCommandSound

LEMMA CopyModelSound ==
    ASSUME TypeOK, OnlyVettedPairs, NamesOnce,
           NEW p \in Operators, CopyModel(p)
    PROVE  OnlyVettedPairs'
<1> DEFINE file == [kind |-> "model", series |-> op[p].series, second |-> now]
           new == [[[op[p] EXCEPT !.modelFile = file] EXCEPT !.second = now]
                     EXCEPT !.step = "copyCal"]
<1>1. /\ op[p] \in Commands /\ op[p].kind = "promote" /\ Grounded(op[p])
      /\ op[p] # Idle
    BY AtCommand DEF CopyModel, At
<1>2. op'[p] = new /\ \A q \in Operators : q # p => op'[q] = op[q]
    BY DEF CopyModel, TypeOK
<1>3. new.kind = "promote" /\ new.step = "copyCal" /\ new.modelFile = file
      /\ new.model = op[p].model /\ new.cal = op[p].cal
      /\ new.base = op[p].base /\ new.draft = op[p].draft
    BY <1>1 DEF Commands
<1> HIDE DEF new
<1>4. Write(file, Stamped(op[p].model)) /\ vetted' = vetted
    BY DEF CopyModel
<1> HIDE DEF file
<1>5. Grown /\ file \in DOMAIN disk' /\ disk'[file] = Stamped(op[p].model)
    BY <1>4, WriteGrows
<1>6. disk'[file].source = op[p].model
    BY <1>1, <1>5, StampedType DEF Grounded
<1>7. SoundCommand(op[p])
    BY DEF OnlyVettedPairs
<1>8. Sound(op[p].base)' /\ Sound(op[p].draft)'
    BY <1>1, <1>2, <1>3, <1>5, <1>7, SoundStays DEF SoundCommand, Sound, Vet
<1>9. SoundPromotion(op[p])' /\ SoundSwap(op[p])'
    BY <1>1, <1>2, <1>3, <1>4, <1>5, <1>6, <1>7
       DEF SoundCommand, SoundPromotion, SoundSwap, CopyOf
<1>10. SoundCommand(op[p])'
    BY <1>8, <1>9 DEF SoundCommand
<1> QED BY <1>2, <1>5, <1>10, OneCommandSound DEF CopyModel

LEMMA CopyCalibratorSound ==
    ASSUME TypeOK, OnlyVettedPairs, NamesOnce,
           NEW p \in Operators, CopyCalibrator(p)
    PROVE  OnlyVettedPairs'
<1> DEFINE file == [kind |-> "calibrator", series |-> op[p].series,
                    second |-> op[p].second]
           new == [[op[p] EXCEPT !.calFile = file] EXCEPT !.step = "build"]
<1>1. /\ op[p] \in Commands /\ op[p].kind = "promote" /\ Grounded(op[p])
      /\ op[p] # Idle /\ op[p].step = "copyCal"
    BY AtCommand DEF CopyCalibrator, At
<1>2. op'[p] = new /\ \A q \in Operators : q # p => op'[q] = op[q]
    BY DEF CopyCalibrator, TypeOK
<1>3. new.kind = "promote" /\ new.step = "build" /\ new.calFile = file
      /\ new.modelFile = op[p].modelFile
      /\ new.model = op[p].model /\ new.cal = op[p].cal
      /\ new.base = op[p].base /\ new.draft = op[p].draft
    BY <1>1 DEF Commands
<1> HIDE DEF new
<1>4. Write(file, Stamped(op[p].cal)) /\ vetted' = vetted
    BY DEF CopyCalibrator
<1> HIDE DEF file
<1>5. Grown /\ file \in DOMAIN disk' /\ disk'[file] = Stamped(op[p].cal)
    BY <1>4, WriteGrows
<1>6. disk'[file].source = op[p].cal
    BY <1>1, <1>5, StampedType DEF Grounded
<1>7. SoundCommand(op[p])
    BY DEF OnlyVettedPairs
<1>8. Sound(op[p].base)' /\ Sound(op[p].draft)'
    BY <1>1, <1>2, <1>3, <1>5, <1>7, SoundStays DEF SoundCommand, Sound, Vet
<1>9. CopyOf(op[p].modelFile, op[p].model)
    BY <1>1, <1>7 DEF SoundCommand, SoundPromotion
<1>10. SoundPromotion(op[p])' /\ SoundSwap(op[p])'
    BY <1>1, <1>2, <1>3, <1>4, <1>5, <1>6, <1>7, <1>9
       DEF SoundCommand, SoundPromotion, SoundSwap, CopyOf, Grown
<1>11. SoundCommand(op[p])'
    BY <1>8, <1>10 DEF SoundCommand
<1> QED BY <1>2, <1>5, <1>11, OneCommandSound DEF CopyCalibrator

LEMMA BuildPromotionSound ==
    ASSUME TypeOK, OnlyVettedPairs, NEW p \in Operators, BuildPromotion(p)
    PROVE  OnlyVettedPairs'
<1>1. /\ op[p] \in Commands /\ op[p].kind = "promote"
      /\ op[p] # Idle /\ op[p].step = "build"
    BY AtCommand DEF BuildPromotion, At
<1>2. /\ \A q \in Operators : q # p => op'[q] = op[q]
      /\ op'[p].kind = "promote" /\ op'[p].step = "truncate"
      /\ op'[p].model = op[p].model /\ op'[p].cal = op[p].cal
      /\ op'[p].base = op[p].base
      /\ op'[p].draft.model = op[p].modelFile
      /\ op'[p].draft.cal = op[p].calFile
      /\ op'[p].draft.swapped = FALSE
    BY <1>1 DEF BuildPromotion, TypeOK, Commands
<1>3. Grown /\ UNCHANGED <<disk, vetted, manifest, backups>>
    BY DEF Grown, BuildPromotion
<1>4. SoundCommand(op[p])
    BY DEF OnlyVettedPairs
<1>5. /\ <<op[p].model, op[p].cal>> \in vetted
      /\ CopyOf(op[p].modelFile, op[p].model) /\ CopyOf(op[p].calFile, op[p].cal)
    BY <1>1, <1>4 DEF SoundCommand, SoundPromotion
<1>6. Sound(op[p].draft)'
    BY <1>2, <1>3, <1>5 DEF Sound, Vet, CopyOf
<1>7. Sound(op[p].base)'
    BY <1>1, <1>2, <1>3, <1>4 DEF Sound, Vet, SoundCommand
<1>8. SoundPromotion(op[p])' /\ SoundSwap(op[p])'
    BY <1>2, <1>3, <1>5 DEF SoundPromotion, SoundSwap
<1>9. SoundCommand(op[p])'
    BY <1>6, <1>7, <1>8 DEF SoundCommand
<1> QED BY <1>2, <1>3, <1>9, OneCommandSound

LEMMA SwapReviewSound ==
    ASSUME TypeOK, OnlyVettedPairs, NEW p \in Operators, NEW s \in Series,
           NEW c \in Candidates, SwapReview(p, s, c)
    PROVE  OnlyVettedPairs'
<1> DEFINE i == LatestCandidate(c)
           new == Command("swap", "backup", s, 0, i)
<1>1. Grown /\ manifest' = manifest /\ backups' = backups /\ disk' = disk
      /\ <<disk[manifest.model].source, i>> \in vetted'
      /\ manifest.status = "written"
    BY DEF Grown, SwapReview, Valid
<1>2. op'[p] = new /\ \A q \in Operators : q # p => op'[q] = op[q]
    BY DEF SwapReview, TypeOK
<1>3. new.kind = "swap" /\ new.step = "backup" /\ new.cal = i
      /\ new.base = manifest /\ new.draft = Absent
    BY DEF Command
<1> HIDE DEF new, i
<1>4. Sound(manifest)'
    BY <1>1, ManifestsStaySound
<1>5. SoundPromotion(op[p])' /\ SoundSwap(op[p])'
    BY <1>1, <1>2, <1>3 DEF SoundPromotion, SoundSwap
<1>6. Sound(op[p].base)' /\ Sound(op[p].draft)'
    BY <1>1, <1>2, <1>3, <1>4, AbsentSound DEF Sound, Vet
<1>7. SoundCommand(op[p])'
    BY <1>5, <1>6 DEF SoundCommand
<1> QED BY <1>1, <1>2, <1>7, OneCommandSound

LEMMA BackUpSound ==
    ASSUME TypeOK, OnlyVettedPairs, NEW p \in Operators, BackUp(p)
    PROVE  OnlyVettedPairs'
<1>1. /\ op[p] \in Commands /\ op[p].kind = "swap" /\ op[p] # Idle
    BY AtCommand DEF BackUp, At
<1>2. Grown /\ UNCHANGED <<disk, vetted, manifest>>
    BY DEF Grown, BackUp
<1>3. \A q \in Operators : q # p => op'[q] = op[q]
    BY DEF BackUp, TypeOK
<1>4. SoundCommand(op[p])
    BY DEF OnlyVettedPairs
<1>5. CASE manifest = Absent
  <2>1. op'[p] = Idle /\ backups' = backups
    BY <1>5 DEF BackUp, TypeOK
  <2>2. SoundCommand(op[p])'
    BY <2>1 DEF SoundCommand
  <2> QED BY <1>2, <1>3, <2>1, <2>2, OneCommandSound
<1>6. CASE manifest # Absent
  <2>1. /\ op'[p].kind = "swap" /\ op'[p].step = "copySwap"
        /\ op'[p].cal = op[p].cal /\ op'[p].base = op[p].base
        /\ op'[p].draft = op[p].draft
    BY <1>1, <1>6 DEF BackUp, TypeOK, Commands
  <2>2. SoundCommand(op[p])'
    BY <1>1, <1>2, <1>4, <2>1
       DEF SoundCommand, SoundPromotion, SoundSwap, Sound, Vet
  <2>3. \A q \in Operators : SoundCommand(op[q])'
    BY <1>2, <1>3, <2>2, CommandStaysSound
  <2>4. backups' = Put(backups, now, manifest)
    BY <1>6 DEF BackUp
  <2>5. \A t \in DOMAIN backups' :
          \/ backups'[t] = manifest
          \/ (t \in DOMAIN backups /\ backups'[t] = backups[t])
    BY <2>4 DEF Put
  <2>6. \A t \in DOMAIN backups' : Sound(backups[t])'
    BY <1>2, <2>5 DEF OnlyVettedPairs, Sound, Vet
  <2> QED BY <1>2, <2>3, <2>6, ManifestsStaySound DEF OnlyVettedPairs
<1> QED BY <1>5, <1>6

LEMMA CopyCandidateSound ==
    ASSUME TypeOK, OnlyVettedPairs, NamesOnce,
           NEW p \in Operators, CopyCandidate(p)
    PROVE  OnlyVettedPairs'
<1> DEFINE file == [kind |-> staged[op[p].cal].role, series |-> op[p].series,
                    second |-> op[p].second]
           new == [[op[p] EXCEPT !.calFile = file] EXCEPT !.step = "build"]
<1>1. /\ op[p] \in Commands /\ op[p].kind = "swap" /\ Grounded(op[p])
      /\ op[p] # Idle
    BY AtCommand DEF CopyCandidate, At
<1>2. op'[p] = new /\ \A q \in Operators : q # p => op'[q] = op[q]
    BY DEF CopyCandidate, TypeOK
<1>3. new.kind = "swap" /\ new.step = "build" /\ new.calFile = file
      /\ new.cal = op[p].cal /\ new.base = op[p].base
      /\ new.draft = op[p].draft
    BY <1>1 DEF Commands
<1> HIDE DEF new
<1>4. Write(file, Recalibrated(op[p].cal)) /\ vetted' = vetted
    BY DEF CopyCandidate
<1> HIDE DEF file
<1>5. Grown /\ file \in DOMAIN disk' /\ disk'[file] = Recalibrated(op[p].cal)
    BY <1>4, WriteGrows
<1>6. disk'[file].source = op[p].cal
    BY <1>1, <1>5, StampedType DEF Grounded
<1>7. SoundCommand(op[p])
    BY DEF OnlyVettedPairs
<1>8. Sound(op[p].base)' /\ Sound(op[p].draft)'
    BY <1>1, <1>2, <1>3, <1>5, <1>7, SoundStays DEF SoundCommand, Sound, Vet
<1>9. op[p].base.status = "written"
      /\ <<disk[op[p].base.model].source, op[p].cal>> \in vetted
      /\ disk'[op[p].base.model] = disk[op[p].base.model]
    BY <1>1, <1>5, <1>7, SoundStays DEF SoundCommand, SoundSwap
<1>10. SoundPromotion(op[p])' /\ SoundSwap(op[p])'
    BY <1>2, <1>3, <1>4, <1>5, <1>6, <1>9
       DEF SoundPromotion, SoundSwap, CopyOf
<1>11. SoundCommand(op[p])'
    BY <1>8, <1>10 DEF SoundCommand
<1> QED BY <1>2, <1>5, <1>11, OneCommandSound DEF CopyCandidate

LEMMA BuildSwapSound ==
    ASSUME TypeOK, OnlyVettedPairs, NEW p \in Operators, BuildSwap(p)
    PROVE  OnlyVettedPairs'
<1>1. /\ op[p] \in Commands /\ op[p].kind = "swap"
      /\ op[p] # Idle /\ op[p].step = "build"
    BY AtCommand DEF BuildSwap, At
<1>2. /\ \A q \in Operators : q # p => op'[q] = op[q]
      /\ op'[p].kind = "swap" /\ op'[p].step = "truncate"
      /\ op'[p].cal = op[p].cal /\ op'[p].base = op[p].base
      /\ op'[p].draft = SwapDraft(p)
    BY <1>1 DEF BuildSwap, SwapDraft, TypeOK, Commands
<1>3. Grown /\ UNCHANGED <<disk, vetted, manifest, backups>>
    BY DEF Grown, BuildSwap
<1>4. SoundCommand(op[p])
    BY DEF OnlyVettedPairs
<1>5. /\ op[p].base.status = "written"
      /\ <<disk[op[p].base.model].source, op[p].cal>> \in vetted
      /\ CopyOf(op[p].calFile, op[p].cal)
      /\ Vet(op[p].base.model, op[p].base.cal)
    BY <1>1, <1>4 DEF SoundCommand, SoundSwap, Sound
<1>6. Sound(op[p].draft)'
    BY <1>2, <1>3, <1>5, SwapDraftFacts DEF Sound, Vet, CopyOf
<1>7. Sound(op[p].base)'
    BY <1>1, <1>2, <1>3, <1>4 DEF Sound, Vet, SoundCommand
<1>8. SoundPromotion(op[p])' /\ SoundSwap(op[p])'
    BY <1>2, <1>3, <1>5 DEF SoundPromotion, SoundSwap
<1>9. SoundCommand(op[p])'
    BY <1>6, <1>7, <1>8 DEF SoundCommand
<1> QED BY <1>2, <1>3, <1>9, OneCommandSound

LEMMA RollbackSound ==
    ASSUME TypeOK, OnlyVettedPairs, NEW p \in Operators, NEW s \in Series,
           Rollback(p, s)
    PROVE  OnlyVettedPairs'
<1> DEFINE old == Command("rollback", "truncate", s, 0, 0)
           new == [old EXCEPT !.draft = Restoration]
<1>1. Sound(Restoration)
  <2>1. Sound(manifest)
    BY DEF OnlyVettedPairs
  <2>2. CASE manifest.backup \in DOMAIN backups
    BY <2>2 DEF OnlyVettedPairs, Restoration
  <2>3. CASE manifest.backup \notin DOMAIN backups
    <3>1. manifest.status = "written" /\ manifest.swapped
      BY DEF Rollback, CanRestore
    <3> QED BY <2>1, <2>3, <3>1, ReconstructionFacts DEF Rollback, Sound
  <2> QED BY <2>2, <2>3
<1>2. old.kind = "rollback" /\ old.base = manifest
    BY DEF Command
<1>3. old \in Commands
    BY NewCommand DEF TypeOK, CurrentSteps
<1>4. op'[p] = new /\ \A q \in Operators : q # p => op'[q] = op[q]
    BY DEF Rollback, TypeOK
<1> HIDE DEF old
<1>5. new.kind = "rollback" /\ new.base = manifest /\ new.draft = Restoration
    BY <1>2, <1>3 DEF Commands
<1> HIDE DEF new
<1>6. Grown /\ UNCHANGED <<disk, vetted, manifest, backups>>
    BY DEF Grown, Rollback
<1>7. Sound(op[p].draft)'
    BY <1>1, <1>4, <1>5, <1>6 DEF Sound, Vet
<1>8. Sound(op[p].base)'
    BY <1>4, <1>5, <1>6 DEF Sound, Vet, OnlyVettedPairs
<1>9. SoundCommand(op[p])'
    BY <1>4, <1>5, <1>7, <1>8 DEF SoundCommand, SoundPromotion, SoundSwap
<1> QED BY <1>4, <1>6, <1>9, OneCommandSound

LEMMA OverwriteSound ==
    ASSUME TypeOK, OnlyVettedPairs, NEW p \in Operators,
           TruncateManifest(p) \/ FillManifest(p) \/ Crash(p)
    PROVE  OnlyVettedPairs'
<1>1. op[p] \in Commands /\ op[p] # Idle
    BY DEF TypeOK, TruncateManifest, FillManifest, Crash, IsIdle
<1>2. Grown /\ UNCHANGED <<disk, vetted, backups>>
    BY DEF Grown, TruncateManifest, FillManifest, Crash
<1>3. \A q \in Operators : q # p => op'[q] = op[q]
    BY DEF TypeOK, TruncateManifest, FillManifest, Crash
<1>4. SoundCommand(op[p])
    BY DEF OnlyVettedPairs
<1>5. Sound(manifest)'
  <2>1. CASE TruncateManifest(p)
    BY <2>1 DEF TruncateManifest, Sound, Torn
  <2>2. CASE FillManifest(p)
    BY <1>1, <1>2, <1>4, <2>2 DEF FillManifest, SoundCommand, Sound, Vet
  <2>3. CASE Crash(p)
    BY <1>2, <2>3, ManifestsStaySound DEF Crash
  <2> QED BY <2>1, <2>2, <2>3
<1>6. SoundCommand(op[p])'
  <2>1. CASE TruncateManifest(p)
    <3>1. /\ op'[p].kind = op[p].kind /\ op'[p].step = "fill"
          /\ op'[p].model = op[p].model /\ op'[p].cal = op[p].cal
          /\ op'[p].base = op[p].base /\ op'[p].draft = op[p].draft
      BY <1>1, <2>1 DEF TruncateManifest, TypeOK, Commands
    <3> QED BY <1>1, <1>2, <1>4, <3>1
            DEF SoundCommand, SoundPromotion, SoundSwap, Sound, Vet
  <2>2. CASE FillManifest(p) \/ Crash(p)
    <3>1. op'[p] = Idle
      BY <2>2 DEF FillManifest, Crash, TypeOK
    <3> QED BY <3>1 DEF SoundCommand
  <2> QED BY <2>1, <2>2
<1>7. \A q \in Operators : SoundCommand(op[q])'
    BY <1>2, <1>3, <1>6, CommandStaysSound
<1> QED BY <1>2, <1>5, <1>7, ManifestsStaySound DEF OnlyVettedPairs

LEMMA QuietSound ==
    ASSUME TypeOK, OnlyVettedPairs,
           \/ \E a \in Stageable : Stage(a)
           \/ \E p \in Operators : Demote(p)
           \/ \E t \in DOMAIN backups : LoseBackup(t)
           \/ Tick
           \/ UNCHANGED vars
    PROVE  OnlyVettedPairs'
<1>1. Grown /\ UNCHANGED <<disk, vetted, op>>
    BY DEF Grown, Stage, Demote, LoseBackup, Tick, vars
<1>2. \A q \in Operators : SoundCommand(op[q])'
    BY <1>1, CommandStaysSound
<1>3. Sound(manifest)'
  <2>1. CASE \E p \in Operators : Demote(p)
    BY <2>1 DEF Demote, Sound, Absent
  <2>2. CASE manifest' = manifest
    BY <1>1, <2>2, ManifestsStaySound
  <2> QED BY <2>1, <2>2 DEF Stage, LoseBackup, Tick, vars
<1>4. \A t \in DOMAIN backups' : Sound(backups[t])'
  <2>1. CASE \E t \in DOMAIN backups : LoseBackup(t)
    <3>1. \A t \in DOMAIN backups' :
            t \in DOMAIN backups /\ backups'[t] = backups[t]
      BY <2>1 DEF LoseBackup
    <3> QED BY <1>1, <3>1 DEF OnlyVettedPairs, Sound, Vet
  <2>2. CASE backups' = backups
    BY <1>1, <2>2, ManifestsStaySound
  <2> QED BY <2>1, <2>2 DEF Stage, Demote, Tick, vars
<1> QED BY <1>2, <1>3, <1>4 DEF OnlyVettedPairs

LEMMA VettedInit ==
    ASSUME NEW artifacts, StagedFirst(artifacts)
    PROVE  OnlyVettedPairs
<1>1. DOMAIN backups = {} /\ manifest = Absent
    BY DEF StagedFirst
<1>2. \A p \in Operators : SoundCommand(op[p])
    BY DEF StagedFirst, SoundCommand
<1> QED BY <1>1, <1>2, AbsentSound DEF OnlyVettedPairs

LEMMA VettedStep ==
    ASSUME TypeOK, OnlyVettedPairs, (Step /\ NamesOnce) \/ Lose \/ UNCHANGED vars
    PROVE  OnlyVettedPairs'
<1>1. ASSUME NEW p \in Operators, NEW s \in Series,
             NEW m \in DOMAIN staged, NEW c \in DOMAIN staged,
             PromoteReview(p, s, m, c)
      PROVE  OnlyVettedPairs'
    BY <1>1, PromoteReviewSound
<1>2. ASSUME NEW p \in Operators, NEW s \in Series, NEW c \in Candidates,
             SwapReview(p, s, c)
      PROVE  OnlyVettedPairs'
    BY <1>2, SwapReviewSound
<1>3. ASSUME NEW p \in Operators, NEW s \in Series, Rollback(p, s)
      PROVE  OnlyVettedPairs'
    BY <1>3, RollbackSound
<1>4. ASSUME NamesOnce, NEW p \in Operators,
             \/ CopyModel(p) \/ CopyCalibrator(p) \/ BuildPromotion(p)
             \/ BackUp(p) \/ CopyCandidate(p) \/ BuildSwap(p)
             \/ TruncateManifest(p) \/ FillManifest(p) \/ Crash(p)
      PROVE  OnlyVettedPairs'
    BY <1>4, CopyModelSound, CopyCalibratorSound, BuildPromotionSound,
       BackUpSound, CopyCandidateSound, BuildSwapSound, OverwriteSound
<1>5. CASE \/ \E a \in Stageable : Stage(a)
           \/ \E p \in Operators : Demote(p)
           \/ \E t \in DOMAIN backups : LoseBackup(t)
           \/ Tick
           \/ UNCHANGED vars
    BY <1>5, QuietSound
<1> QED BY <1>1, <1>2, <1>3, <1>4, <1>5 DEF Step, Lose

LEMMA VettedServed == OnlyVettedPairs => ServedPairVetted
BY DEF OnlyVettedPairs, ServedPairVetted, Sound, Vet, Valid

\* As long as no file name is asked for twice within a second, every manifest,
\* in force, backed up or in preparation, names copies of a reviewed pair.
THEOREM VettedInvariant ==
    ASSUME OncePerSecond
    PROVE  Spec => []OnlyVettedPairs
<1>1. Init => OnlyVettedPairs
    BY VettedInit DEF Init
<1>2. TypeOK /\ OnlyVettedPairs /\ [Next]_vars => OnlyVettedPairs'
    BY VettedStep DEF Next
<1> QED BY <1>1, <1>2, TypeCorrect, PTL DEF Spec

\* Whatever a runtime can load was reviewed as a pair, with any number of
\* concurrent and crashing commands, as long as names are not reused.
THEOREM OnlyReviewedPairsAreServed ==
    ASSUME OncePerSecond
    PROVE  Spec => []ServedPairVetted
BY VettedServed, VettedInvariant, PTL

LEMMA StaysStep ==
    ASSUME (Step /\ NamesOnce) \/ Lose \/ UNCHANGED vars
    PROVE  StaysUntilReplaced \/ UNCHANGED vars
<1> SUFFICES ASSUME (Step /\ NamesOnce) \/ Lose, NEW s \in Series,
                    Valid(s), ~Valid(s)', ~ \E p \in Operators : Replacing(p)
             PROVE  manifest' = Absent /\ op' = op
    BY DEF StaysUntilReplaced
<1>1. ASSUME UNCHANGED manifest, DOMAIN disk \subseteq DOMAIN disk',
             \A f \in DOMAIN disk : disk'[f] = disk[f]
      PROVE  FALSE
    BY <1>1 DEF Valid
<1>2. ASSUME NamesOnce, NEW p \in Operators,
             CopyModel(p) \/ CopyCalibrator(p) \/ CopyCandidate(p)
      PROVE  FALSE
  <2>1. UNCHANGED <<manifest, vetted>> /\ \E f, v : Write(f, v)
    BY <1>2 DEF CopyModel, CopyCalibrator, CopyCandidate
  <2> QED BY <1>1, <1>2, <2>1, WriteGrows DEF Grown
<1>3. ASSUME UNCHANGED <<manifest, disk>> PROVE FALSE
    BY <1>1, <1>3
<1>4. ASSUME NEW p \in Operators, TruncateManifest(p) \/ FillManifest(p)
      PROVE  FALSE
    BY <1>4 DEF TruncateManifest, FillManifest, Replacing
<1>5. CASE \E p \in Operators : Demote(p)
    BY <1>5 DEF Demote
<1> QED BY <1>2, <1>3, <1>4, <1>5
        DEF Step, Lose, Stage, PromoteReview, BuildPromotion, SwapReview, BackUp,
            BuildSwap, Rollback, Crash, LoseBackup, Tick

\* Under the same assumption, preparing a promotion or a swap, and dying while
\* doing so, never takes the promotion in force out of service.
THEOREM PromotionStaysUntilReplaced ==
    ASSUME OncePerSecond
    PROVE  Spec => ValidUntilReplaced
<1>1. [Next]_vars => [StaysUntilReplaced]_vars
    BY StaysStep DEF Next
<1> QED BY <1>1, PTL DEF Spec, ValidUntilReplaced
-----------------------------------------------------------------------------
(* One operator at a time: what each step makes of the command.             *)

LEMMA OnlyOne ==
    ASSUME TypeOK, OthersIdle, Alone
    PROVE  /\ OthersIdle'
           /\ \A p \in Operators : op[p] # Idle \/ op'[p] # Idle => p = One
BY DEF OthersIdle, Alone, IsIdle

LEMMA PromoteReviewEffect ==
    ASSUME TypeOK, NEW p \in Operators, NEW s \in Series,
           NEW m \in DOMAIN staged, NEW c \in DOMAIN staged,
           PromoteReview(p, s, m, c)
    PROVE  /\ op'[p] # Idle /\ op'[p].kind = "promote" /\ op'[p].step = "copyModel"
           /\ op'[p].model = m /\ op'[p].cal = c
           /\ op'[p].base = manifest /\ op'[p].draft = Absent
<1> DEFINE new == Command("promote", "copyModel", s, m, c)
<1>1. op'[p] = new
    BY DEF PromoteReview, TypeOK
<1>2. new \in Commands
  <2>1. m \in Nat /\ c \in Nat
    BY LenProperties DEF TypeOK
  <2> QED BY <2>1, NewCommand DEF TypeOK, CurrentSteps
<1>3. /\ new.kind = "promote" /\ new.step = "copyModel" /\ new.model = m
      /\ new.cal = c /\ new.base = manifest /\ new.draft = Absent
    BY DEF Command
<1> HIDE DEF new
<1> QED BY <1>1, <1>2, <1>3, IdleIsNoCommand

LEMMA CopyModelEffect ==
    ASSUME TypeOK, NEW p \in Operators, CopyModel(p)
    PROVE  /\ op[p] \in Commands /\ op[p] # Idle /\ Grounded(op[p])
           /\ op[p].kind = "promote" /\ op[p].step = "copyModel"
           /\ op'[p].kind = "promote" /\ op'[p].step = "copyCal"
           /\ op'[p].modelFile = [kind |-> "model", series |-> op[p].series,
                                  second |-> now]
           /\ op'[p].model = op[p].model /\ op'[p].cal = op[p].cal
           /\ op'[p].base = op[p].base /\ op'[p].draft = op[p].draft
<1>1. op[p] \in Commands /\ op[p].kind = "promote" /\ op[p] # Idle
      /\ op[p].step = "copyModel" /\ Grounded(op[p])
    BY AtCommand DEF CopyModel, At
<1> QED BY <1>1 DEF CopyModel, TypeOK, Commands

LEMMA CopyCalibratorEffect ==
    ASSUME TypeOK, NEW p \in Operators, CopyCalibrator(p)
    PROVE  /\ op[p] \in Commands /\ op[p] # Idle /\ Grounded(op[p])
           /\ op[p].kind = "promote" /\ op[p].step = "copyCal"
           /\ op'[p].kind = "promote" /\ op'[p].step = "build"
           /\ op'[p].calFile = [kind |-> "calibrator", series |-> op[p].series,
                                second |-> op[p].second]
           /\ op'[p].modelFile = op[p].modelFile
           /\ op'[p].model = op[p].model /\ op'[p].cal = op[p].cal
           /\ op'[p].base = op[p].base /\ op'[p].draft = op[p].draft
<1>1. op[p] \in Commands /\ op[p].kind = "promote" /\ op[p] # Idle
      /\ op[p].step = "copyCal" /\ Grounded(op[p])
    BY AtCommand DEF CopyCalibrator, At
<1> QED BY <1>1 DEF CopyCalibrator, TypeOK, Commands

LEMMA BuildPromotionEffect ==
    ASSUME TypeOK, NEW p \in Operators, BuildPromotion(p)
    PROVE  /\ op[p] \in Commands /\ op[p] # Idle /\ Grounded(op[p])
           /\ op[p].kind = "promote" /\ op[p].step = "build"
           /\ op'[p].kind = "promote" /\ op'[p].step = "truncate"
           /\ op'[p].model = op[p].model /\ op'[p].cal = op[p].cal
           /\ op'[p].base = op[p].base
           /\ op'[p].draft.status = "written" /\ op'[p].draft.swapped = FALSE
           /\ op'[p].draft.backup = 0 /\ op'[p].draft.prevSha = 0
           /\ op'[p].draft.modelSha = disk[op[p].modelFile].sha
           /\ op'[p].draft.calSha = disk[op[p].calFile].sha
<1>1. op[p] \in Commands /\ op[p].kind = "promote" /\ op[p] # Idle
      /\ op[p].step = "build" /\ Grounded(op[p])
    BY AtCommand DEF BuildPromotion, At
<1> QED BY <1>1 DEF BuildPromotion, TypeOK, Commands

LEMMA SwapReviewEffect ==
    ASSUME TypeOK, NEW p \in Operators, NEW s \in Series, NEW c \in Candidates,
           SwapReview(p, s, c)
    PROVE  /\ op'[p] # Idle /\ op'[p].kind = "swap" /\ op'[p].step = "backup"
           /\ op'[p].cal = LatestCandidate(c)
           /\ op'[p].base = manifest /\ op'[p].draft = Absent
           /\ manifest \in Manifests /\ manifest.model \in DOMAIN disk
           /\ disk[manifest.model].sha = manifest.modelSha
<1> DEFINE i == LatestCandidate(c)
           new == Command("swap", "backup", s, 0, i)
<1>1. i \in Nat
    BY LatestCandidateStaged, LenProperties DEF SwapReview, TypeOK
<1>2. op'[p] = new
    BY DEF SwapReview, TypeOK
<1>3. new \in Commands
    BY <1>1, NewCommand DEF TypeOK, CurrentSteps
<1>4. /\ new.kind = "swap" /\ new.step = "backup" /\ new.cal = i
      /\ new.base = manifest /\ new.draft = Absent
    BY DEF Command
<1>5. manifest \in Manifests /\ manifest.model \in DOMAIN disk
      /\ disk[manifest.model].sha = manifest.modelSha
    BY ManifestContents DEF SwapReview, Valid, TypeOK
<1> HIDE DEF new
<1> QED BY <1>2, <1>3, <1>4, <1>5, IdleIsNoCommand

LEMMA BackUpEffect ==
    ASSUME TypeOK, NEW p \in Operators, BackUp(p)
    PROVE  /\ op[p] \in Commands /\ op[p] # Idle /\ Grounded(op[p])
           /\ op[p].kind = "swap" /\ op[p].step = "backup"
           /\ manifest = Absent => op'[p] = Idle /\ backups' = backups
           /\ manifest # Absent =>
                /\ op'[p].kind = "swap" /\ op'[p].step = "copySwap"
                /\ op'[p].second = now
                /\ op'[p].cal = op[p].cal /\ op'[p].base = op[p].base
                /\ op'[p].draft = op[p].draft
                /\ backups' = Put(backups, now, manifest)
<1>1. op[p] \in Commands /\ op[p].kind = "swap" /\ op[p] # Idle
      /\ op[p].step = "backup" /\ Grounded(op[p])
    BY AtCommand DEF BackUp, At
<1> QED BY <1>1 DEF BackUp, TypeOK, Commands

LEMMA CopyCandidateEffect ==
    ASSUME TypeOK, NEW p \in Operators, CopyCandidate(p)
    PROVE  /\ op[p] \in Commands /\ op[p] # Idle /\ Grounded(op[p])
           /\ op[p].kind = "swap" /\ op[p].step = "copySwap"
           /\ op'[p].kind = "swap" /\ op'[p].step = "build"
           /\ op'[p].calFile = [kind |-> staged[op[p].cal].role,
                                series |-> op[p].series, second |-> op[p].second]
           /\ op'[p].cal = op[p].cal /\ op'[p].second = op[p].second
           /\ op'[p].base = op[p].base /\ op'[p].draft = op[p].draft
<1>1. op[p] \in Commands /\ op[p].kind = "swap" /\ op[p] # Idle
      /\ op[p].step = "copySwap" /\ Grounded(op[p])
    BY AtCommand DEF CopyCandidate, At
<1> QED BY <1>1 DEF CopyCandidate, TypeOK, Commands

LEMMA BuildSwapEffect ==
    ASSUME TypeOK, NEW p \in Operators, BuildSwap(p)
    PROVE  /\ op[p] \in Commands /\ op[p] # Idle /\ Grounded(op[p])
           /\ op[p].kind = "swap" /\ op[p].step = "build"
           /\ op'[p].kind = "swap" /\ op'[p].step = "truncate"
           /\ op'[p].cal = op[p].cal /\ op'[p].second = op[p].second
           /\ op'[p].base = op[p].base /\ op[p].base \in Manifests
           /\ op'[p].draft.status = "written" /\ op'[p].draft.swapped
           /\ op'[p].draft.backup = op[p].second
           /\ op'[p].draft.model = op[p].base.model
           /\ op'[p].draft.modelSha = op[p].base.modelSha
           /\ op'[p].draft.calSha = disk[op[p].calFile].sha
           /\ op'[p].draft.prevSha = op[p].base.calSha
<1>1. op[p] \in Commands /\ op[p].kind = "swap" /\ op[p] # Idle
      /\ op[p].step = "build" /\ Grounded(op[p])
    BY AtCommand DEF BuildSwap, At
<1>2. op[p].base \in Manifests
    BY <1>1 DEF Grounded
<1>3. /\ op'[p].kind = "swap" /\ op'[p].step = "truncate"
      /\ op'[p].cal = op[p].cal /\ op'[p].second = op[p].second
      /\ op'[p].base = op[p].base /\ op'[p].draft = SwapDraft(p)
    BY <1>1 DEF BuildSwap, SwapDraft, TypeOK, Commands
<1> QED BY <1>1, <1>2, <1>3 DEF SwapDraft, Manifests

LEMMA RollbackEffect ==
    ASSUME TypeOK, NEW p \in Operators, NEW s \in Series, Rollback(p, s)
    PROVE  /\ op'[p] # Idle /\ op'[p].kind = "rollback" /\ op'[p].step = "truncate"
           /\ op'[p].base = manifest /\ op'[p].draft = Restoration
           /\ manifest \in Manifests /\ manifest.swapped
<1> DEFINE old == Command("rollback", "truncate", s, 0, 0)
           new == [old EXCEPT !.draft = Restoration]
<1>1. old.kind = "rollback" /\ old.base = manifest /\ old.step = "truncate"
    BY DEF Command
<1>2. old \in Commands
    BY NewCommand DEF TypeOK, CurrentSteps
<1>3. op'[p] = new
    BY DEF Rollback, TypeOK
<1> HIDE DEF old
<1>4. /\ new.kind = "rollback" /\ new.base = manifest
      /\ new.draft = Restoration /\ new.step = "truncate" /\ new # Idle
  <2>1. "kind" \in DOMAIN new /\ "kind" \notin DOMAIN Idle
    BY <1>2 DEF Commands, Idle
  <2> QED BY <1>1, <1>2, <2>1 DEF Commands
<1> HIDE DEF new
<1>5. manifest \in Manifests /\ manifest.swapped
    BY ManifestContents DEF Rollback, CanRestore, TypeOK
<1> QED BY <1>3, <1>4, <1>5

LEMMA OverwriteEffect ==
    ASSUME TypeOK, NEW p \in Operators,
           TruncateManifest(p) \/ FillManifest(p) \/ Crash(p)
    PROVE  /\ op[p] \in Commands /\ op[p] # Idle /\ Grounded(op[p])
           /\ TruncateManifest(p) =>
                /\ op[p].step = "truncate" /\ op'[p].step = "fill"
                /\ op'[p].kind = op[p].kind
                /\ op'[p].model = op[p].model /\ op'[p].cal = op[p].cal
                /\ op'[p].second = op[p].second
                /\ op'[p].base = op[p].base /\ op'[p].draft = op[p].draft
           /\ FillManifest(p) => op[p].step = "fill" /\ op'[p] = Idle
           /\ Crash(p) => op'[p] = Idle
<1>1. op[p] \in Commands /\ op[p] # Idle /\ Grounded(op[p])
    BY DEF TypeOK, TruncateManifest, FillManifest, Crash, IsIdle
<1>2. ASSUME TruncateManifest(p)
      PROVE  /\ op[p].step = "truncate" /\ op'[p].step = "fill"
             /\ op'[p].kind = op[p].kind
             /\ op'[p].model = op[p].model /\ op'[p].cal = op[p].cal
             /\ op'[p].second = op[p].second
             /\ op'[p].base = op[p].base /\ op'[p].draft = op[p].draft
    BY <1>1, <1>2 DEF TruncateManifest, TypeOK, Commands
<1>3. ASSUME FillManifest(p) PROVE op[p].step = "fill" /\ op'[p] = Idle
    BY <1>3 DEF FillManifest, TypeOK
<1>4. ASSUME Crash(p) PROVE op'[p] = Idle
    BY <1>4 DEF Crash, TypeOK
<1> QED BY <1>1, <1>2, <1>3, <1>4
-----------------------------------------------------------------------------
(* What is served was reviewed, whatever names are asked for twice: a copy   *)
(* has a hash of its own, and a manifest pins the copies by their hashes.    *)

LEMMA HashesStay ==
    ASSUME TypeOK, OnlyVettedHashes, copies' \in Nat, copies <= copies',
           vetted \subseteq vetted',
           \A f \in DOMAIN disk' :
              \/ f \in DOMAIN disk /\ disk'[f] = disk[f]
              \/ disk'[f].sha = copies + 1,
           NEW m, SoundByHash(m)
    PROVE  m.status = "written" =>
             /\ {m.modelSha, m.calSha, m.prevSha} \subseteq 0 .. copies'
             /\ \A f, g \in DOMAIN disk' :
                  disk'[f].sha = m.modelSha /\ disk'[g].sha \in {m.calSha, m.prevSha}
                  => <<disk'[f].source, disk'[g].source>> \in vetted'
<1> SUFFICES ASSUME m.status = "written"
             PROVE  /\ {m.modelSha, m.calSha, m.prevSha} \subseteq 0 .. copies'
                    /\ \A f, g \in DOMAIN disk' :
                         disk'[f].sha = m.modelSha
                           /\ disk'[g].sha \in {m.calSha, m.prevSha}
                         => <<disk'[f].source, disk'[g].source>> \in vetted'
    OBVIOUS
<1>1. copies \in Nat
    BY DEF TypeOK
<1>2. {m.modelSha, m.calSha, m.prevSha} \subseteq 0 .. copies
      /\ HashVetted(m.modelSha, m.calSha) /\ HashVetted(m.modelSha, m.prevSha)
    BY DEF SoundByHash
<1>3. \A f \in DOMAIN disk' : disk'[f].sha \in 0 .. copies
        => f \in DOMAIN disk /\ disk'[f] = disk[f]
    BY <1>1
<1>4. {m.modelSha, m.calSha, m.prevSha} \subseteq 0 .. copies'
    BY <1>1, <1>2
<1> QED BY <1>2, <1>3, <1>4 DEF HashVetted

\* The invariant that a step reaches which leaves the copies alone.
LEMMA HashesAlone ==
    ASSUME TypeOK, OnlyVettedHashes, OthersIdle', UNCHANGED <<disk, copies>>,
           vetted \subseteq vetted', One \in Operators,
           SoundByHash(manifest)', \A t \in DOMAIN backups' : SoundByHash(backups[t])',
           CommandSoundByHash(op[One])'
    PROVE  OnlyVettedHashes'
<1>1. \A p \in Operators : CommandSoundByHash(op[p])'
    BY DEF OthersIdle, IsIdle, CommandSoundByHash
<1> QED BY <1>1 DEF OnlyVettedHashes

LEMMA ManifestsByHash ==
    ASSUME TypeOK, OnlyVettedHashes, UNCHANGED <<disk, copies>>, vetted \subseteq vetted'
    PROVE  /\ manifest' = manifest => SoundByHash(manifest)'
           /\ \A t \in DOMAIN backups :
                t \in DOMAIN backups' /\ backups'[t] = backups[t] => SoundByHash(backups[t])'
           /\ \A p \in Operators : op[p] # Idle /\ op'[p].base = op[p].base
                => SoundByHash(op[p].base)'
           /\ \A p \in Operators : op[p] # Idle /\ op'[p].draft = op[p].draft
                => SoundByHash(op[p].draft)'
<1>1. ASSUME manifest' = manifest PROVE SoundByHash(manifest)'
    BY <1>1 DEF OnlyVettedHashes, SoundByHash, HashVetted
<1>2. ASSUME NEW t \in DOMAIN backups, backups'[t] = backups[t]
      PROVE  SoundByHash(backups[t])'
    BY <1>2 DEF OnlyVettedHashes, SoundByHash, HashVetted
<1>3. ASSUME NEW p \in Operators, op[p] # Idle, op'[p].base = op[p].base
      PROVE  SoundByHash(op[p].base)'
  <2>1. SoundByHash(op[p].base)
    BY <1>3 DEF OnlyVettedHashes, CommandSoundByHash
  <2> QED BY <1>3, <2>1 DEF SoundByHash, HashVetted
<1>4. ASSUME NEW p \in Operators, op[p] # Idle, op'[p].draft = op[p].draft
      PROVE  SoundByHash(op[p].draft)'
  <2>1. SoundByHash(op[p].draft)
    BY <1>4 DEF OnlyVettedHashes, CommandSoundByHash
  <2> QED BY <1>4, <2>1 DEF SoundByHash, HashVetted
<1> QED BY <1>1, <1>2, <1>3, <1>4

LEMMA AbsentByHash ==
    SoundByHash(Absent) /\ SoundByHash(Torn) /\ SoundByHash(Absent)' /\ SoundByHash(Torn)'
BY DEF SoundByHash, Absent, Torn

LEMMA PromoteReviewHashes ==
    ASSUME TypeOK, OnlyVettedHashes, OthersIdle', NEW s \in Series, One \in Operators,
           NEW m \in DOMAIN staged, NEW c \in DOMAIN staged,
           PromoteReview(One, s, m, c)
    PROVE  OnlyVettedHashes'
<1>1. /\ UNCHANGED <<disk, copies, manifest, backups>> /\ vetted \subseteq vetted'
      /\ <<m, c>> \in vetted'
    BY DEF PromoteReview
<1>2. SoundByHash(manifest)' /\ \A t \in DOMAIN backups' : SoundByHash(backups[t])'
    BY <1>1, ManifestsByHash
<1>3. SoundByHash(op[One].base)'
    BY <1>1, <1>2, PromoteReviewEffect DEF SoundByHash, HashVetted
<1>4. CommandSoundByHash(op[One])'
    BY <1>1, <1>3, PromoteReviewEffect, AbsentByHash
       DEF CommandSoundByHash, SoundPromotion, SoundByHash, HashVetted
<1> QED BY <1>1, <1>2, <1>4, HashesAlone

\* What a copy leaves of the others, and of what is said of them.
LEMMA CopyKeeps ==
    ASSUME TypeOK, OnlyVettedHashes, OthersIdle', One \in Operators, op[One] # Idle,
           NEW file \in Files, NEW content \in Copied, content.sha = copies + 1,
           Write(file, content), UNCHANGED <<manifest, backups, vetted>>,
           op'[One].base = op[One].base, op'[One].draft = op[One].draft
    PROVE  /\ \A f \in DOMAIN disk' : f # file => f \in DOMAIN disk /\ disk'[f] = disk[f]
           /\ DOMAIN disk \subseteq DOMAIN disk'
           /\ file \in DOMAIN disk' /\ disk'[file] = content /\ copies' = copies + 1
           /\ SoundByHash(op[One].base)' /\ SoundByHash(op[One].draft)'
           /\ CommandSoundByHash(op[One])' => OnlyVettedHashes'
<1>1. /\ \A f \in DOMAIN disk' : f # file => f \in DOMAIN disk /\ disk'[f] = disk[f]
      /\ DOMAIN disk \subseteq DOMAIN disk'
      /\ file \in DOMAIN disk' /\ disk'[file] = content /\ copies' = copies + 1
    BY DEF Write, Put
<1>2. /\ copies \in Nat /\ copies' \in Nat /\ copies <= copies'
      /\ \A f \in DOMAIN disk' :
           \/ f \in DOMAIN disk /\ disk'[f] = disk[f]
           \/ disk'[f].sha = copies + 1
    BY <1>1 DEF TypeOK
<1>3. \A f \in DOMAIN disk : disk[f].sha \in 1 .. copies
    BY DEF OnlyVettedHashes
<1>4. \A f \in DOMAIN disk' : disk'[f].sha \in 1 .. copies'
    BY <1>1, <1>2, <1>3
<1>5. ASSUME NEW f \in DOMAIN disk', NEW g \in DOMAIN disk', disk'[f].sha = disk'[g].sha
      PROVE  f = g
  <2>1. CASE f = file \/ g = file
    BY <1>1, <1>2, <1>3, <1>5, <2>1
  <2>2. CASE f # file /\ g # file
    BY <1>1, <1>5, <2>2 DEF OnlyVettedHashes
  <2> QED BY <2>1, <2>2
<1>6. SoundByHash(manifest)'
    BY <1>2, HashesStay DEF OnlyVettedHashes, SoundByHash, HashVetted
<1>7. \A t \in DOMAIN backups' : SoundByHash(backups[t])'
    BY <1>2, HashesStay DEF OnlyVettedHashes, SoundByHash, HashVetted
<1>8. SoundByHash(op[One].base)' /\ SoundByHash(op[One].draft)'
  <2>1. SoundByHash(op[One].base) /\ SoundByHash(op[One].draft)
    BY DEF OnlyVettedHashes, CommandSoundByHash
  <2>2. SoundByHash(op[One].base)'
    BY <1>2, <2>1, HashesStay DEF SoundByHash, HashVetted
  <2>3. SoundByHash(op[One].draft)'
    BY <1>2, <2>1, HashesStay DEF SoundByHash, HashVetted
  <2> QED BY <2>2, <2>3
<1>9. CommandSoundByHash(op[One])' => \A p \in Operators : CommandSoundByHash(op[p])'
    BY DEF OthersIdle, IsIdle, CommandSoundByHash
<1> QED BY <1>1, <1>4, <1>5, <1>6, <1>7, <1>8, <1>9 DEF OnlyVettedHashes

LEMMA CopyModelHashes ==
    ASSUME TypeOK, OnlyVettedHashes, OthersIdle', One \in Operators, CopyModel(One)
    PROVE  OnlyVettedHashes'
<1> DEFINE p == One
           file == [kind |-> "model", series |-> op[p].series, second |-> now]
<1>1. /\ op[p] \in Commands /\ op[p] # Idle /\ Grounded(op[p]) /\ op[p].kind = "promote"
      /\ op'[p].kind = "promote" /\ op'[p].step = "copyCal" /\ op'[p].modelFile = file
      /\ op'[p].model = op[p].model /\ op'[p].cal = op[p].cal
      /\ op'[p].base = op[p].base /\ op'[p].draft = op[p].draft
    BY CopyModelEffect
<1>2. file \in Files /\ file.kind = "model"
    BY <1>1 DEF Files, Roles, Commands, TypeOK
<1>3. Write(file, Stamped(op[p].model)) /\ UNCHANGED <<manifest, backups, vetted>>
    BY DEF CopyModel
<1> HIDE DEF file
<1>4. /\ Stamped(op[p].model) \in Copied /\ Stamped(op[p].model).source = op[p].model
      /\ Stamped(op[p].model).sha = copies + 1
    BY <1>1, StampedType DEF Grounded, Stamped
<1>5. /\ file \in DOMAIN disk' /\ disk'[file] = Stamped(op[p].model)
      /\ SoundByHash(op[p].base)' /\ SoundByHash(op[p].draft)'
      /\ CommandSoundByHash(op[p])' => OnlyVettedHashes'
    BY <1>1, <1>2, <1>3, <1>4, CopyKeeps
<1>6. <<op[p].model, op[p].cal>> \in vetted
    BY <1>1 DEF OnlyVettedHashes, CommandSoundByHash, SoundPromotion
<1>7. SoundPromotion(op[p])'
    BY <1>1, <1>3, <1>4, <1>5, <1>6 DEF SoundPromotion, CopyOf
<1>8. CommandSoundByHash(op[p])'
    BY <1>1, <1>2, <1>5, <1>7 DEF CommandSoundByHash
<1> QED BY <1>5, <1>8

LEMMA CopyCalibratorHashes ==
    ASSUME TypeOK, OnlyVettedHashes, OthersIdle', One \in Operators, CopyCalibrator(One)
    PROVE  OnlyVettedHashes'
<1> DEFINE p == One
           file == [kind |-> "calibrator", series |-> op[p].series,
                    second |-> op[p].second]
<1>1. /\ op[p] \in Commands /\ op[p] # Idle /\ Grounded(op[p])
      /\ op[p].kind = "promote" /\ op[p].step = "copyCal"
      /\ op'[p].kind = "promote" /\ op'[p].step = "build" /\ op'[p].calFile = file
      /\ op'[p].modelFile = op[p].modelFile
      /\ op'[p].model = op[p].model /\ op'[p].cal = op[p].cal
      /\ op'[p].base = op[p].base /\ op'[p].draft = op[p].draft
    BY CopyCalibratorEffect
<1>2. file \in Files /\ file.kind = "calibrator"
    BY <1>1 DEF Files, Roles, Commands, TypeOK
<1>3. Write(file, Stamped(op[p].cal)) /\ UNCHANGED <<manifest, backups, vetted>>
    BY DEF CopyCalibrator
<1> HIDE DEF file
<1>4. /\ Stamped(op[p].cal) \in Copied /\ Stamped(op[p].cal).source = op[p].cal
      /\ Stamped(op[p].cal).sha = copies + 1
    BY <1>1, StampedType DEF Grounded, Stamped
<1>5. /\ \A f \in DOMAIN disk' : f # file => f \in DOMAIN disk /\ disk'[f] = disk[f]
      /\ DOMAIN disk \subseteq DOMAIN disk'
      /\ file \in DOMAIN disk' /\ disk'[file] = Stamped(op[p].cal)
      /\ SoundByHash(op[p].base)' /\ SoundByHash(op[p].draft)'
      /\ CommandSoundByHash(op[p])' => OnlyVettedHashes'
    BY <1>1, <1>2, <1>3, <1>4, CopyKeeps
<1>6. /\ <<op[p].model, op[p].cal>> \in vetted /\ CopyOf(op[p].modelFile, op[p].model)
      /\ op[p].modelFile.kind = "model"
    BY <1>1 DEF OnlyVettedHashes, CommandSoundByHash, SoundPromotion
<1>7. op[p].modelFile \in DOMAIN disk' /\ disk'[op[p].modelFile].source = op[p].model
  <2>1. op[p].modelFile # file
    BY <1>2, <1>6
  <2> QED BY <1>5, <1>6, <2>1 DEF CopyOf
<1>8. SoundPromotion(op[p])'
    BY <1>1, <1>3, <1>4, <1>5, <1>6, <1>7 DEF SoundPromotion, CopyOf
<1>9. CommandSoundByHash(op[p])'
    BY <1>1, <1>5, <1>6, <1>8 DEF CommandSoundByHash
<1> QED BY <1>5, <1>9

LEMMA BuildPromotionHashes ==
    ASSUME TypeOK, OnlyVettedHashes, OthersIdle', One \in Operators, BuildPromotion(One)
    PROVE  OnlyVettedHashes'
<1> DEFINE p == One
<1>1. /\ op[p] # Idle /\ op[p].kind = "promote" /\ op[p].step = "build"
      /\ op'[p].kind = "promote" /\ op'[p].step = "truncate"
      /\ op'[p].model = op[p].model /\ op'[p].cal = op[p].cal
      /\ op'[p].base = op[p].base /\ op'[p].draft.prevSha = 0
      /\ op'[p].draft.modelSha = disk[op[p].modelFile].sha
      /\ op'[p].draft.calSha = disk[op[p].calFile].sha
    BY BuildPromotionEffect
<1>2. UNCHANGED <<disk, copies, manifest, backups, vetted>>
    BY DEF BuildPromotion
<1>3. /\ <<op[p].model, op[p].cal>> \in vetted /\ CopyOf(op[p].modelFile, op[p].model)
      /\ CopyOf(op[p].calFile, op[p].cal)
    BY <1>1 DEF OnlyVettedHashes, CommandSoundByHash, SoundPromotion
<1>4. SoundByHash(manifest)' /\ (\A t \in DOMAIN backups' : SoundByHash(backups[t])')
      /\ SoundByHash(op[p].base)'
    BY <1>1, <1>2, ManifestsByHash
<1>5. copies \in Nat /\ \A f \in DOMAIN disk : disk[f].sha \in 1 .. copies
    BY DEF TypeOK, OnlyVettedHashes
<1>6. \A f, g \in DOMAIN disk : disk[f].sha = disk[g].sha => f = g
    BY DEF OnlyVettedHashes
<1>7. HashVetted(op[p].draft.modelSha, op[p].draft.calSha)'
    BY <1>1, <1>2, <1>3, <1>6 DEF HashVetted, CopyOf
<1>8. HashVetted(op[p].draft.modelSha, op[p].draft.prevSha)'
    BY <1>1, <1>2, <1>5 DEF HashVetted
<1>9. SoundByHash(op[p].draft)'
    BY <1>1, <1>2, <1>3, <1>5, <1>7, <1>8 DEF SoundByHash, CopyOf
<1>10. SoundPromotion(op[p])'
    BY <1>1, <1>2, <1>3 DEF SoundPromotion
<1>11. CommandSoundByHash(op[p])'
    BY <1>1, <1>4, <1>9, <1>10 DEF CommandSoundByHash
<1> QED BY <1>2, <1>4, <1>11, HashesAlone

LEMMA SwapReviewHashes ==
    ASSUME TypeOK, OnlyVettedHashes, OthersIdle', One \in Operators, NEW s \in Series,
           NEW c \in Candidates, SwapReview(One, s, c)
    PROVE  OnlyVettedHashes'
<1> DEFINE p == One
           i == LatestCandidate(c)
<1>1. /\ op'[p].kind = "swap" /\ op'[p].step = "backup" /\ op'[p].cal = i
      /\ op'[p].base = manifest /\ op'[p].draft = Absent
      /\ manifest \in Manifests /\ manifest.model \in DOMAIN disk
      /\ disk[manifest.model].sha = manifest.modelSha
    BY SwapReviewEffect
<1>2. /\ UNCHANGED <<disk, copies, manifest, backups>> /\ vetted \subseteq vetted'
      /\ <<disk[manifest.model].source, i>> \in vetted'
    BY DEF SwapReview
<1> HIDE DEF i
<1>3. SoundByHash(manifest)' /\ \A t \in DOMAIN backups' : SoundByHash(backups[t])'
    BY <1>2, ManifestsByHash
<1>4. SoundByHash(op[p].base)' /\ SoundByHash(op[p].draft)'
    BY <1>1, <1>2, <1>3, AbsentByHash DEF SoundByHash, HashVetted
<1>5. \A f \in DOMAIN disk : disk[f].sha = manifest.modelSha => f = manifest.model
    BY <1>1 DEF OnlyVettedHashes
<1>6. manifest.status = "written"
    BY <1>1, ManifestContents
<1>7. CommandSoundByHash(op[p])'
    BY <1>1, <1>2, <1>4, <1>5, <1>6 DEF CommandSoundByHash, SoundPromotion
<1> QED BY <1>2, <1>3, <1>7, HashesAlone

LEMMA BackUpHashes ==
    ASSUME TypeOK, OnlyVettedHashes, OthersIdle', One \in Operators, BackUp(One)
    PROVE  OnlyVettedHashes'
<1> DEFINE p == One
<1>1. UNCHANGED <<disk, copies, manifest, vetted>>
    BY DEF BackUp
<1>2. SoundByHash(manifest)'
    BY <1>1, ManifestsByHash
<1>3. op[p] # Idle /\ op[p].kind = "swap" /\ op[p].step = "backup"
    BY BackUpEffect
<1>4. CASE manifest = Absent
  <2>1. op'[p] = Idle /\ backups' = backups
    BY <1>4, BackUpEffect
  <2>2. CommandSoundByHash(op[p])'
    BY <2>1 DEF CommandSoundByHash
  <2> QED BY <1>1, <1>2, <2>1, <2>2, ManifestsByHash, HashesAlone
<1>5. CASE manifest # Absent
  <2>1. /\ op'[p].kind = "swap" /\ op'[p].step = "copySwap"
        /\ op'[p].cal = op[p].cal /\ op'[p].base = op[p].base
        /\ op'[p].draft = op[p].draft /\ backups' = Put(backups, now, manifest)
    BY <1>5, BackUpEffect
  <2>2. \A t \in DOMAIN backups' : \/ backups'[t] = manifest
                                   \/ t \in DOMAIN backups /\ backups'[t] = backups[t]
    BY <2>1 DEF Put
  <2>3. \A t \in DOMAIN backups' : SoundByHash(backups[t])'
    BY <1>1, <2>2 DEF OnlyVettedHashes, SoundByHash, HashVetted
  <2>4. SoundByHash(op[p].base)' /\ SoundByHash(op[p].draft)'
    BY <1>1, <1>3, <2>1, ManifestsByHash
  <2>5. CommandSoundByHash(op[p])'
    BY <1>1, <1>3, <2>1, <2>4
       DEF OnlyVettedHashes, CommandSoundByHash, SoundPromotion
  <2> QED BY <1>1, <1>2, <2>3, <2>5, HashesAlone
<1> QED BY <1>4, <1>5

LEMMA CopyCandidateHashes ==
    ASSUME TypeOK, OnlyVettedHashes, OthersIdle', One \in Operators, CopyCandidate(One)
    PROVE  OnlyVettedHashes'
<1> DEFINE p == One
           file == [kind |-> staged[op[p].cal].role, series |-> op[p].series,
                    second |-> op[p].second]
<1>1. /\ op[p] \in Commands /\ op[p] # Idle /\ Grounded(op[p]) /\ op[p].kind = "swap"
      /\ op'[p].kind = "swap" /\ op'[p].step = "build" /\ op'[p].calFile = file
      /\ op'[p].cal = op[p].cal
      /\ op'[p].base = op[p].base /\ op'[p].draft = op[p].draft
    BY CopyCandidateEffect
<1>2. file \in Files
  <2>1. staged[op[p].cal] \in Artifacts
    BY <1>1, ElementOfSeq, LenProperties DEF TypeOK, Grounded
  <2>2. staged[op[p].cal].role \in Roles
    BY <2>1 DEF Artifacts
  <2> QED BY <1>1, <2>2 DEF Files, Commands
<1>3. Write(file, Recalibrated(op[p].cal)) /\ UNCHANGED <<manifest, backups, vetted>>
    BY DEF CopyCandidate
<1> HIDE DEF file
<1>4. /\ Recalibrated(op[p].cal) \in Copied
      /\ Recalibrated(op[p].cal).source = op[p].cal
      /\ Recalibrated(op[p].cal).sha = copies + 1
    BY <1>1, StampedType DEF Grounded, Recalibrated
<1>5. /\ \A f \in DOMAIN disk' : f # file => f \in DOMAIN disk /\ disk'[f] = disk[f]
      /\ file \in DOMAIN disk' /\ disk'[file] = Recalibrated(op[p].cal)
      /\ SoundByHash(op[p].base)' /\ SoundByHash(op[p].draft)'
      /\ CommandSoundByHash(op[p])' => OnlyVettedHashes'
    BY <1>1, <1>2, <1>3, <1>4, CopyKeeps
<1>6. /\ op[p].base.status = "written"
      /\ \A f \in DOMAIN disk : disk[f].sha = op[p].base.modelSha
           => <<disk[f].source, op[p].cal>> \in vetted
    BY <1>1 DEF OnlyVettedHashes, CommandSoundByHash
<1>7. op[p].base.modelSha \in 0 .. copies /\ copies \in Nat
    BY <1>1, <1>6 DEF OnlyVettedHashes, CommandSoundByHash, SoundByHash, TypeOK
<1>8. \A f \in DOMAIN disk' : disk'[f].sha = op[p].base.modelSha
        => <<disk'[f].source, op[p].cal>> \in vetted
    BY <1>4, <1>5, <1>6, <1>7
<1>9. CopyOf(op[p].calFile, op[p].cal)'
    BY <1>1, <1>4, <1>5 DEF CopyOf
<1>10. CommandSoundByHash(op[p])'
    BY <1>1, <1>3, <1>5, <1>6, <1>8, <1>9 DEF CommandSoundByHash, SoundPromotion
<1> QED BY <1>5, <1>10

LEMMA BuildSwapHashes ==
    ASSUME TypeOK, OnlyVettedHashes, OthersIdle', One \in Operators, BuildSwap(One)
    PROVE  OnlyVettedHashes'
<1> DEFINE p == One
<1>1. /\ op[p] # Idle /\ op[p].kind = "swap" /\ op[p].step = "build"
      /\ op'[p].kind = "swap" /\ op'[p].step = "truncate" /\ op'[p].cal = op[p].cal
      /\ op'[p].base = op[p].base
      /\ op'[p].draft.modelSha = op[p].base.modelSha
      /\ op'[p].draft.calSha = disk[op[p].calFile].sha
      /\ op'[p].draft.prevSha = op[p].base.calSha
    BY BuildSwapEffect
<1>2. UNCHANGED <<disk, copies, manifest, backups, vetted>>
    BY DEF BuildSwap
<1>3. /\ op[p].base.status = "written" /\ SoundByHash(op[p].base)
      /\ \A f \in DOMAIN disk : disk[f].sha = op[p].base.modelSha
           => <<disk[f].source, op[p].cal>> \in vetted
      /\ CopyOf(op[p].calFile, op[p].cal)
    BY <1>1 DEF OnlyVettedHashes, CommandSoundByHash
<1>4. SoundByHash(manifest)' /\ (\A t \in DOMAIN backups' : SoundByHash(backups[t])')
      /\ SoundByHash(op[p].base)'
    BY <1>1, <1>2, ManifestsByHash
<1>5. copies \in Nat /\ \A f \in DOMAIN disk : disk[f].sha \in 1 .. copies
    BY DEF TypeOK, OnlyVettedHashes
<1>6. \A f, g \in DOMAIN disk : disk[f].sha = disk[g].sha => f = g
    BY DEF OnlyVettedHashes
<1>7. HashVetted(op[p].draft.modelSha, op[p].draft.calSha)'
    BY <1>1, <1>2, <1>3, <1>6 DEF HashVetted, CopyOf
<1>8. HashVetted(op[p].draft.modelSha, op[p].draft.prevSha)'
    BY <1>1, <1>2, <1>3 DEF HashVetted, SoundByHash
<1>9. SoundByHash(op[p].draft)'
    BY <1>1, <1>2, <1>3, <1>5, <1>7, <1>8 DEF SoundByHash, CopyOf
<1>10. CommandSoundByHash(op[p])'
    BY <1>1, <1>2, <1>3, <1>4, <1>9 DEF CommandSoundByHash, SoundPromotion
<1> QED BY <1>2, <1>4, <1>10, HashesAlone

LEMMA RollbackHashes ==
    ASSUME TypeOK, OnlyVettedHashes, OthersIdle', One \in Operators, NEW s \in Series,
           Rollback(One, s)
    PROVE  OnlyVettedHashes'
<1> DEFINE p == One
<1>1. /\ op'[p].kind = "rollback" /\ op'[p].step = "truncate"
      /\ op'[p].base = manifest /\ op'[p].draft = Restoration
    BY RollbackEffect
<1>2. UNCHANGED <<disk, copies, manifest, backups, vetted>>
    BY DEF Rollback
<1>3. SoundByHash(manifest)' /\ \A t \in DOMAIN backups' : SoundByHash(backups[t])'
    BY <1>2, ManifestsByHash
<1>4. SoundByHash(Restoration)
  <2>1. CASE manifest.backup \in DOMAIN backups
    BY <2>1 DEF OnlyVettedHashes, Restoration
  <2>2. CASE manifest.backup \notin DOMAIN backups
    <3>1. manifest \in Manifests /\ CanRestore /\ manifest.status = "written"
      BY RollbackEffect, ManifestContents DEF Rollback
    <3>2. /\ Restoration.modelSha = manifest.modelSha
          /\ Restoration.calSha = manifest.prevSha
          /\ Restoration.prevSha = manifest.prevSha
      BY <2>2, <3>1 DEF Restoration, Manifests
    <3>3. SoundByHash(manifest)
      BY DEF OnlyVettedHashes
    <3> QED BY <3>1, <3>2, <3>3 DEF SoundByHash
  <2> QED BY <2>1, <2>2
<1>5. SoundByHash(op[p].base)' /\ SoundByHash(op[p].draft)'
    BY <1>1, <1>2, <1>3, <1>4 DEF SoundByHash, HashVetted
<1>6. CommandSoundByHash(op[p])'
    BY <1>1, <1>5 DEF CommandSoundByHash, SoundPromotion
<1> QED BY <1>2, <1>3, <1>6, HashesAlone

LEMMA OverwriteHashes ==
    ASSUME TypeOK, OnlyVettedHashes, OthersIdle', One \in Operators,
           TruncateManifest(One) \/ FillManifest(One) \/ Crash(One)
    PROVE  OnlyVettedHashes'
<1> DEFINE p == One
<1>1. op[p] # Idle /\ UNCHANGED <<disk, copies, backups, vetted>>
    BY OverwriteEffect DEF TruncateManifest, FillManifest, Crash
<1>2. \A t \in DOMAIN backups' : SoundByHash(backups[t])'
    BY <1>1, ManifestsByHash
<1>3. SoundByHash(manifest)'
  <2>1. CASE TruncateManifest(p)
    BY <2>1 DEF TruncateManifest, SoundByHash, Torn
  <2>2. CASE FillManifest(p)
    <3>1. manifest' = op[p].draft
      BY <2>2 DEF FillManifest
    <3>2. SoundByHash(op[p].draft)
      BY <1>1 DEF OnlyVettedHashes, CommandSoundByHash
    <3> QED BY <1>1, <3>1, <3>2 DEF SoundByHash, HashVetted
  <2>3. CASE Crash(p)
    BY <1>1, <2>3, ManifestsByHash DEF Crash
  <2> QED BY <2>1, <2>2, <2>3
<1>4. CommandSoundByHash(op[p])'
  <2>1. CASE TruncateManifest(p)
    <3>1. /\ op[p].step = "truncate" /\ op'[p].step = "fill"
          /\ op'[p].kind = op[p].kind
          /\ op'[p].model = op[p].model /\ op'[p].cal = op[p].cal
          /\ op'[p].base = op[p].base /\ op'[p].draft = op[p].draft
      BY <2>1, OverwriteEffect
    <3>2. SoundByHash(op[p].base)' /\ SoundByHash(op[p].draft)'
      BY <1>1, <3>1, ManifestsByHash
    <3>3. CommandSoundByHash(op[p])
      BY DEF OnlyVettedHashes
    <3> QED BY <1>1, <3>1, <3>2, <3>3 DEF CommandSoundByHash, SoundPromotion
  <2>2. CASE FillManifest(p) \/ Crash(p)
    BY <2>2, OverwriteEffect DEF CommandSoundByHash
  <2> QED BY <2>1, <2>2
<1> QED BY <1>1, <1>2, <1>3, <1>4, HashesAlone

LEMMA QuietHashes ==
    ASSUME TypeOK, OnlyVettedHashes,
           \/ \E a \in Stageable : Stage(a)
           \/ \E p \in Operators : Demote(p)
           \/ \E t \in DOMAIN backups : LoseBackup(t)
           \/ Tick
           \/ UNCHANGED vars
    PROVE  OnlyVettedHashes'
<1>1. UNCHANGED <<disk, copies, vetted, op>>
    BY DEF Stage, Demote, LoseBackup, Tick, vars
<1>2. SoundByHash(manifest)'
  <2>1. CASE \E p \in Operators : Demote(p)
    BY <2>1 DEF Demote, SoundByHash, Absent
  <2>2. CASE manifest' = manifest
    BY <1>1, <2>2, ManifestsByHash
  <2> QED BY <2>1, <2>2 DEF Stage, LoseBackup, Tick, vars
<1>3. \A t \in DOMAIN backups' : t \in DOMAIN backups /\ backups'[t] = backups[t]
    BY DEF Stage, Demote, LoseBackup, Tick, vars
<1>4. \A t \in DOMAIN backups' : SoundByHash(backups[t])'
    BY <1>1, <1>3 DEF OnlyVettedHashes, SoundByHash, HashVetted
<1>5. \A p \in Operators : CommandSoundByHash(op[p])'
    BY <1>1 DEF OnlyVettedHashes, CommandSoundByHash, SoundPromotion, SoundByHash,
                HashVetted, CopyOf
<1> QED BY <1>1, <1>2, <1>4, <1>5 DEF OnlyVettedHashes

LEMMA HashesInit ==
    ASSUME NEW artifacts, StagedFirst(artifacts)
    PROVE  OnlyVettedHashes /\ OthersIdle
<1>1. DOMAIN disk = {} /\ DOMAIN backups = {} /\ manifest = Absent
    BY DEF StagedFirst
<1>2. \A p \in Operators : op[p] = Idle
    BY DEF StagedFirst
<1> QED BY <1>1, <1>2, AbsentByHash
        DEF OnlyVettedHashes, CommandSoundByHash, OthersIdle, IsIdle

LEMMA HashesStep ==
    ASSUME TypeOK, OthersIdle, OnlyVettedHashes,
           ((Step \/ Lose) /\ Alone) \/ UNCHANGED vars
    PROVE  OnlyVettedHashes' /\ OthersIdle'
<1>1. CASE \/ \E a \in Stageable : Stage(a)
           \/ \E p \in Operators : Demote(p)
           \/ \E t \in DOMAIN backups : LoseBackup(t)
           \/ Tick
           \/ UNCHANGED vars
  <2>1. op' = op
    BY <1>1 DEF Stage, Demote, LoseBackup, Tick, vars
  <2> QED BY <1>1, <2>1, QuietHashes DEF OthersIdle, IsIdle
<1>2. ASSUME Alone, NEW p \in Operators, NEW s \in Series,
             NEW m \in DOMAIN staged, NEW c \in DOMAIN staged,
             PromoteReview(p, s, m, c)
      PROVE  OnlyVettedHashes' /\ OthersIdle'
    BY <1>2, OnlyOne, PromoteReviewEffect, PromoteReviewHashes
<1>3. ASSUME Alone, NEW p \in Operators, NEW s \in Series, NEW c \in Candidates,
             SwapReview(p, s, c)
      PROVE  OnlyVettedHashes' /\ OthersIdle'
    BY <1>3, OnlyOne, SwapReviewEffect, SwapReviewHashes
<1>4. ASSUME Alone, NEW p \in Operators, NEW s \in Series, Rollback(p, s)
      PROVE  OnlyVettedHashes' /\ OthersIdle'
    BY <1>4, OnlyOne, RollbackEffect, RollbackHashes
<1>5. ASSUME Alone, NEW p \in Operators,
             CopyModel(p) \/ CopyCalibrator(p) \/ BuildPromotion(p)
      PROVE  OnlyVettedHashes' /\ OthersIdle'
    BY ZenonT(60), <1>5, OnlyOne, CopyModelEffect, CopyCalibratorEffect, BuildPromotionEffect,
       CopyModelHashes, CopyCalibratorHashes, BuildPromotionHashes
<1>6. ASSUME Alone, NEW p \in Operators, BackUp(p) \/ CopyCandidate(p) \/ BuildSwap(p)
      PROVE  OnlyVettedHashes' /\ OthersIdle'
    BY ZenonT(60), <1>6, OnlyOne, BackUpEffect, CopyCandidateEffect, BuildSwapEffect,
       BackUpHashes, CopyCandidateHashes, BuildSwapHashes
<1>7. ASSUME Alone, NEW p \in Operators,
             TruncateManifest(p) \/ FillManifest(p) \/ Crash(p)
      PROVE  OnlyVettedHashes' /\ OthersIdle'
    BY <1>7, OnlyOne, OverwriteEffect, OverwriteHashes
<1> QED BY <1>1, <1>2, <1>3, <1>4, <1>5, <1>6, <1>7 DEF Step, Lose

LEMMA HashesServed == TypeOK /\ OnlyVettedHashes => ServedPairVetted
BY DEF OnlyVettedHashes, ServedPairVetted, SoundByHash, HashVetted, Valid
-----------------------------------------------------------------------------
(* A swap and a rollback keep the model; swaps can be rolled back.          *)

\* A step that leaves the manifest, the backups and the clock alone, of one command.
LEMMA ModelsAlone ==
    ASSUME TypeOK, ModelsAreKept, OthersIdle', UNCHANGED <<manifest, backups, now>>,
           One \in Operators, op'[One] # Idle => CommandKeepsModel(op[One])'
    PROVE  ModelsAreKept'
BY DEF ModelsAreKept, OthersIdle, IsIdle, Backed

LEMMA ReviewModels ==
    ASSUME TypeOK, ModelsAreKept, OthersIdle', One \in Operators, NEW s \in Series,
           \/ \E m, c \in DOMAIN staged : PromoteReview(One, s, m, c)
           \/ \E c \in Candidates : SwapReview(One, s, c)
    PROVE  ModelsAreKept'
<1> DEFINE p == One
<1>1. UNCHANGED <<manifest, backups, now>>
    BY DEF PromoteReview, SwapReview
<1>2. CASE \E m, c \in DOMAIN staged : PromoteReview(p, s, m, c)
  <2>1. op'[p].kind = "promote" /\ op'[p].step = "copyModel"
    BY <1>2, PromoteReviewEffect
  <2> QED BY <1>1, <2>1, ModelsAlone DEF CommandKeepsModel
<1>3. CASE \E c \in Candidates : SwapReview(p, s, c)
  <2>1. /\ op'[p].kind = "swap" /\ op'[p].step = "backup"
        /\ op'[p].base = manifest /\ manifest \in Manifests
    BY <1>3, SwapReviewEffect
  <2>2. manifest.status = "written" /\ Backed(manifest) /\ manifest.backup <= now
    BY <2>1, ManifestContents DEF ModelsAreKept
  <2>3. CommandKeepsModel(op[p])'
    BY <1>1, <2>1, <2>2 DEF CommandKeepsModel, Backed
  <2> QED BY <1>1, <2>3, ModelsAlone
<1> QED BY <1>2, <1>3

LEMMA CopyModels ==
    ASSUME TypeOK, ModelsAreKept, OthersIdle', One \in Operators,
           CopyModel(One) \/ CopyCalibrator(One) \/ BuildPromotion(One)
             \/ CopyCandidate(One)
    PROVE  ModelsAreKept'
<1> DEFINE p == One
<1>1. UNCHANGED <<manifest, backups, now>>
    BY DEF CopyModel, CopyCalibrator, BuildPromotion, CopyCandidate
<1>2. CASE CopyModel(p) \/ CopyCalibrator(p)
  <2>1. op'[p].kind = "promote" /\ op'[p].step \notin {"truncate", "fill"}
    BY <1>2, CopyModelEffect, CopyCalibratorEffect
  <2> QED BY <1>1, <2>1, ModelsAlone DEF CommandKeepsModel
<1>3. CASE BuildPromotion(p)
  <2>1. /\ op'[p].kind = "promote" /\ op'[p].draft.status = "written"
        /\ op'[p].draft.swapped = FALSE /\ op'[p].draft.backup = 0
    BY <1>3, BuildPromotionEffect
  <2>2. Backed(op[p].draft)' /\ op'[p].draft.backup <= now'
    BY <1>1, <2>1 DEF Backed, TypeOK
  <2> QED BY <1>1, <2>1, <2>2, ModelsAlone DEF CommandKeepsModel
<1>4. CASE CopyCandidate(p)
  <2>1. /\ op[p] # Idle /\ op[p].kind = "swap" /\ op[p].step = "copySwap"
        /\ op'[p].kind = "swap" /\ op'[p].step = "build"
        /\ op'[p].second = op[p].second /\ op'[p].base = op[p].base
    BY <1>4, CopyCandidateEffect
  <2>2. CommandKeepsModel(op[p])
    BY <2>1 DEF ModelsAreKept, IsIdle
  <2> QED BY <1>1, <2>1, <2>2, ModelsAlone DEF CommandKeepsModel, Backed
<1> QED BY <1>2, <1>3, <1>4

LEMMA BackUpModels ==
    ASSUME TypeOK, ModelsAreKept, OthersIdle', One \in Operators, BackUp(One)
    PROVE  ModelsAreKept'
<1> DEFINE p == One
<1>1. UNCHANGED <<manifest, now>> /\ op[p] # Idle /\ op[p].kind = "swap"
      /\ op[p].step = "backup"
    BY BackUpEffect DEF BackUp
<1>2. CASE manifest = Absent
    BY <1>1, <1>2, BackUpEffect, ModelsAlone
<1>3. CASE manifest # Absent
  <2>1. /\ op'[p].kind = "swap" /\ op'[p].step = "copySwap"
        /\ op'[p].second = now /\ op'[p].base = op[p].base
        /\ backups' = Put(backups, now, manifest)
    BY <1>3, BackUpEffect
  <2>2. CommandKeepsModel(op[p])
    BY <1>1 DEF ModelsAreKept, IsIdle
  <2>3. /\ manifest = op[p].base /\ manifest.status = "written"
        /\ Backed(manifest) /\ manifest.backup <= now
    BY <1>1, <1>3, <2>2 DEF CommandKeepsModel
  <2>4. manifest \in Manifests /\ now \in Nat /\ manifest.backup \in Nat
    BY <2>3, ManifestContents DEF TypeOK, Manifests
  <2>5. /\ now \in DOMAIN backups' /\ backups'[now] = manifest
        /\ \A t \in DOMAIN backups' : t # now =>
             t \in DOMAIN backups /\ backups'[t] = backups[t]
    BY <2>1 DEF Put
  <2>6. Backed(manifest)' /\ Backed(op[p].base)'
    BY <1>1, <2>1, <2>3, <2>5 DEF Backed, SameModel
  <2>7. ASSUME NEW t \in DOMAIN backups'
        PROVE  /\ t <= now' /\ backups'[t].status = "written" /\ backups'[t].backup <= t
               /\ Backed(backups[t])'
    <3>1. CASE t = now
      BY <1>1, <2>3, <2>4, <2>5, <2>6, <3>1 DEF Backed
    <3>2. CASE t # now
      <4>1. t \in DOMAIN backups /\ backups'[t] = backups[t]
        BY <2>5, <3>2
      <4>2. /\ t <= now /\ backups[t].status = "written" /\ backups[t].backup <= t
            /\ Backed(backups[t])
        BY <4>1 DEF ModelsAreKept
      <4>3. t \in Nat /\ backups[t] \in Manifests
        BY <4>1, <4>2, ManifestContents DEF TypeOK
      <4>4. backups[t].backup # now
        BY <2>4, <3>2, <4>2, <4>3 DEF Manifests
      <4> QED BY <1>1, <2>5, <4>1, <4>2, <4>4 DEF Backed
    <3> QED BY <3>1, <3>2
  <2>8. CommandKeepsModel(op[p])'
    BY <1>1, <2>1, <2>3, <2>4, <2>5, <2>6 DEF CommandKeepsModel, SameModel
  <2> QED BY <1>1, <2>3, <2>6, <2>7, <2>8 DEF ModelsAreKept, OthersIdle, IsIdle
<1> QED BY <1>2, <1>3

LEMMA BuildSwapModels ==
    ASSUME TypeOK, ModelsAreKept, OthersIdle', One \in Operators, BuildSwap(One)
    PROVE  ModelsAreKept'
<1> DEFINE p == One
<1>1. UNCHANGED <<manifest, backups, now>>
    BY DEF BuildSwap
<1>2. /\ op[p] # Idle /\ op[p].kind = "swap" /\ op[p].step = "build"
      /\ op'[p].kind = "swap" /\ op'[p].step = "truncate"
      /\ op'[p].second = op[p].second /\ op'[p].base = op[p].base
      /\ op'[p].draft.status = "written"
      /\ op'[p].draft.backup = op[p].second
      /\ op'[p].draft.model = op[p].base.model
      /\ op'[p].draft.modelSha = op[p].base.modelSha
    BY BuildSwapEffect
<1>3. CommandKeepsModel(op[p])
    BY <1>2 DEF ModelsAreKept, IsIdle
<1>4. SameModel(op[p].draft, op[p].base)' /\ Backed(op[p].draft)' /\ Backed(op[p].base)'
    BY <1>1, <1>2, <1>3 DEF CommandKeepsModel, SameModel, Backed
<1>5. CommandKeepsModel(op[p])'
    BY <1>1, <1>2, <1>3, <1>4 DEF CommandKeepsModel
<1> QED BY <1>1, <1>5, ModelsAlone

LEMMA RollbackModels ==
    ASSUME TypeOK, ModelsAreKept, OthersIdle', One \in Operators, NEW s \in Series,
           Rollback(One, s)
    PROVE  ModelsAreKept'
<1> DEFINE p == One
<1>1. UNCHANGED <<manifest, backups, now>>
    BY DEF Rollback
<1>2. /\ op'[p].kind = "rollback" /\ op'[p].step = "truncate"
      /\ op'[p].base = manifest /\ op'[p].draft = Restoration
      /\ manifest \in Manifests /\ manifest.swapped
    BY RollbackEffect
<1>3. manifest.status = "written" /\ Backed(manifest) /\ manifest.backup <= now
      /\ now \in Nat /\ manifest.backup \in Nat
    BY <1>2, ManifestContents DEF ModelsAreKept, TypeOK, Manifests
<1>4. /\ Restoration.status = "written" /\ SameModel(Restoration, manifest)
      /\ Backed(Restoration) /\ Restoration.backup <= now
  <2>1. CASE manifest.backup \in DOMAIN backups
    <3>1. Restoration = backups[manifest.backup]
      BY <2>1 DEF Restoration
    <3>2. Restoration.status = "written" /\ SameModel(Restoration, manifest)
      BY <1>2, <1>3, <2>1, <3>1 DEF Backed
    <3>3. Backed(Restoration) /\ Restoration.backup <= manifest.backup
      BY <2>1, <3>1 DEF ModelsAreKept
    <3>4. Restoration.backup \in Nat
      BY <2>1, <3>1, <3>2, ManifestContents DEF TypeOK, Manifests
    <3> QED BY <1>3, <3>2, <3>3, <3>4
  <2>2. CASE manifest.backup \notin DOMAIN backups
    <3>1. /\ Restoration.status = "written" /\ Restoration.model = manifest.model
          /\ Restoration.modelSha = manifest.modelSha
          /\ Restoration.swapped = FALSE /\ Restoration.backup = manifest.backup
      BY <1>2, <1>3, <2>2 DEF Restoration, Manifests
    <3> QED BY <1>3, <3>1 DEF SameModel, Backed
  <2> QED BY <2>1, <2>2
<1>5. CommandKeepsModel(op[p])'
    BY <1>1, <1>2, <1>3, <1>4 DEF CommandKeepsModel, SameModel, Backed
<1> QED BY <1>1, <1>5, ModelsAlone

LEMMA OverwriteModels ==
    ASSUME TypeOK, ModelsAreKept, OthersIdle', One \in Operators,
           TruncateManifest(One) \/ FillManifest(One) \/ Crash(One)
    PROVE  ModelsAreKept'
<1> DEFINE p == One
<1>1. op[p] # Idle /\ UNCHANGED <<backups, now>> /\ CommandKeepsModel(op[p])
    BY OverwriteEffect DEF TruncateManifest, FillManifest, Crash, ModelsAreKept, IsIdle
<1>2. \A t \in DOMAIN backups' :
         /\ t <= now' /\ backups'[t].status = "written" /\ backups'[t].backup <= t
         /\ Backed(backups[t])'
    BY <1>1 DEF ModelsAreKept, Backed
<1>3. CASE TruncateManifest(p)
  <2>1. /\ op[p].step = "truncate" /\ op'[p].step = "fill" /\ op'[p].kind = op[p].kind
        /\ op'[p].second = op[p].second /\ op'[p].base = op[p].base
        /\ op'[p].draft = op[p].draft
    BY <1>3, OverwriteEffect
  <2>2. CommandKeepsModel(op[p])'
    BY <1>1, <2>1 DEF CommandKeepsModel, SameModel, Backed
  <2>3. manifest'.status = "torn"
    BY <1>3 DEF TruncateManifest, Torn
  <2> QED BY <1>2, <2>2, <2>3 DEF ModelsAreKept, Backed, OthersIdle, IsIdle
<1>4. CASE FillManifest(p)
  <2>1. op[p].step = "fill" /\ op'[p] = Idle /\ manifest' = op[p].draft
    BY <1>4, OverwriteEffect DEF FillManifest
  <2>2. Backed(manifest)' /\ manifest'.backup <= now'
    BY <1>1, <2>1 DEF CommandKeepsModel, Backed
  <2> QED BY <1>2, <2>1, <2>2 DEF ModelsAreKept, OthersIdle, IsIdle
<1>5. CASE Crash(p)
    BY <1>5, OverwriteEffect, ModelsAlone DEF Crash
<1> QED BY <1>3, <1>4, <1>5

LEMMA QuietModels ==
    ASSUME TypeOK, ModelsAreKept,
           \/ \E a \in Stageable : Stage(a)
           \/ \E p \in Operators : Demote(p)
           \/ \E t \in DOMAIN backups : LoseBackup(t)
           \/ Tick
           \/ UNCHANGED vars
    PROVE  ModelsAreKept'
<1>1. /\ op' = op /\ now \in Nat /\ (now' = now \/ now' = now + 1)
      /\ \A t \in DOMAIN backups' : t \in DOMAIN backups /\ backups'[t] = backups[t]
      /\ manifest' \in {manifest, Absent}
    BY DEF Stage, Demote, LoseBackup, Tick, vars, TypeOK
<1>2. \A t \in Nat : t <= now => t <= now'
    BY <1>1
<1>3. \A m : Backed(m) => Backed(m)'
    BY <1>1 DEF Backed
<1>4. \A t \in DOMAIN backups' :
         /\ t <= now' /\ backups'[t].status = "written" /\ backups'[t].backup <= t
         /\ Backed(backups[t])'
    BY <1>1, <1>2 DEF ModelsAreKept, Backed, TypeOK
<1>5. Backed(manifest)' /\ (manifest'.status = "written" => manifest'.backup <= now')
  <2>1. CASE manifest' = Absent
    BY <2>1 DEF Backed, Absent
  <2>2. CASE manifest' = manifest /\ manifest.status = "written"
    <3>1. manifest.backup \in Nat
      BY <2>2, ManifestContents DEF TypeOK, Manifests
    <3> QED BY <1>1, <1>2, <2>2, <3>1 DEF ModelsAreKept, Backed
  <2>3. CASE manifest' = manifest /\ manifest.status # "written"
    BY <2>3 DEF Backed
  <2> QED BY <1>1, <2>1, <2>2, <2>3
<1>6. ASSUME NEW p \in Operators, op[p] # Idle PROVE CommandKeepsModel(op[p])'
  <2>1. CommandKeepsModel(op[p]) /\ op[p] \in Commands /\ Grounded(op[p])
    BY <1>6 DEF ModelsAreKept, IsIdle, TypeOK
  <2>2. op[p].second \in Nat
        /\ (op[p].base.status = "written" => op[p].base.backup \in Nat)
        /\ (op[p].draft.status = "written" => op[p].draft.backup \in Nat)
    BY <2>1, ManifestContents DEF Commands, Manifests
  <2>3. Backed(op[p].base) => Backed(op[p].base)'
    BY <1>1 DEF Backed
  <2>4. Backed(op[p].draft) => Backed(op[p].draft)'
    BY <1>1 DEF Backed
  <2> QED BY <1>1, <1>2, <2>1, <2>2, <2>3, <2>4 DEF CommandKeepsModel, SameModel
<1> QED BY <1>1, <1>4, <1>5, <1>6 DEF ModelsAreKept, IsIdle

LEMMA ModelsInit ==
    ASSUME NEW artifacts, StagedFirst(artifacts)
    PROVE  ModelsAreKept
<1>1. DOMAIN backups = {} /\ manifest = Absent /\ \A p \in Operators : op[p] = Idle
    BY DEF StagedFirst
<1> QED BY <1>1 DEF ModelsAreKept, Backed, Absent, IsIdle

LEMMA ModelsStep ==
    ASSUME TypeOK, OthersIdle, ModelsAreKept,
           ((Step \/ Lose) /\ Alone) \/ UNCHANGED vars
    PROVE  ModelsAreKept'
<1>1. CASE \/ \E a \in Stageable : Stage(a)
           \/ \E p \in Operators : Demote(p)
           \/ \E t \in DOMAIN backups : LoseBackup(t)
           \/ Tick
           \/ UNCHANGED vars
    BY <1>1, QuietModels
<1>2. ASSUME Alone, NEW p \in Operators, NEW s \in Series,
             NEW m \in DOMAIN staged, NEW c \in DOMAIN staged,
             PromoteReview(p, s, m, c)
      PROVE  ModelsAreKept'
    BY <1>2, OnlyOne, PromoteReviewEffect, ReviewModels
<1>3. ASSUME Alone, NEW p \in Operators, NEW s \in Series, NEW c \in Candidates,
             SwapReview(p, s, c)
      PROVE  ModelsAreKept'
    BY <1>3, OnlyOne, SwapReviewEffect, ReviewModels
<1>4. ASSUME Alone, NEW p \in Operators, NEW s \in Series, Rollback(p, s)
      PROVE  ModelsAreKept'
    BY <1>4, OnlyOne, RollbackEffect, RollbackModels
<1>5. ASSUME Alone, NEW p \in Operators,
             CopyModel(p) \/ CopyCalibrator(p) \/ BuildPromotion(p) \/ CopyCandidate(p)
      PROVE  ModelsAreKept'
  <2>1. op[p] # Idle
    BY <1>5 DEF CopyModel, CopyCalibrator, BuildPromotion, CopyCandidate, At
  <2> QED BY <1>5, <2>1, OnlyOne, CopyModels
<1>6. ASSUME Alone, NEW p \in Operators, BackUp(p) \/ BuildSwap(p)
      PROVE  ModelsAreKept'
    BY <1>6, OnlyOne, BackUpEffect, BuildSwapEffect, BackUpModels, BuildSwapModels
<1>7. ASSUME Alone, NEW p \in Operators,
             TruncateManifest(p) \/ FillManifest(p) \/ Crash(p)
      PROVE  ModelsAreKept'
    BY <1>7, OnlyOne, OverwriteEffect, OverwriteModels
<1> QED BY <1>1, <1>2, <1>3, <1>4, <1>5, <1>6, <1>7 DEF Step, Lose

LEMMA KeepsStep ==
    ASSUME TypeOK, ModelsAreKept, Step \/ Lose \/ UNCHANGED vars
    PROVE  KeepsModel
<1> SUFFICES ASSUME NEW p \in Operators, op[p] # Idle, op[p].step = "fill",
                    op[p].kind # "promote", op'[p] # op[p], manifest' # manifest
             PROVE  /\ manifest'.model = op[p].base.model
                    /\ manifest'.modelSha = op[p].base.modelSha
    BY DEF KeepsModel, IsIdle
<1>1. FillManifest(p)
    BY DEF Step, Lose, Stage, PromoteReview, CopyModel, CopyCalibrator, BuildPromotion,
           SwapReview, BackUp, CopyCandidate, BuildSwap, Rollback, TruncateManifest,
           FillManifest, Demote, Crash, LoseBackup, Tick, vars, TypeOK, IsIdle, At
<1>2. manifest' = op[p].draft
    BY <1>1 DEF FillManifest
<1>3. SameModel(op[p].draft, op[p].base)
    BY DEF ModelsAreKept, CommandKeepsModel, IsIdle
<1> QED BY <1>2, <1>3 DEF SameModel
-----------------------------------------------------------------------------
(* Swaps can be rolled back, if no name is asked for twice.                 *)

\* What swaps put aside stays where it is as long as no backup is replaced.
LEMMA LinksStay ==
    ASSUME \A t \in DOMAIN backups : t \in DOMAIN backups' /\ backups'[t] = backups[t],
           replaced' = replaced
    PROVE  \A m : Linked(m) => Linked(m)'
<1>1. \A m, n : Undoes(m, n) => Undoes(m, n)'
    BY DEF Undoes
<1> QED BY <1>1 DEF Linked

LEMMA LastAndFront ==
    ASSUME NEW s \in Seq(Manifests), s # <<>>
    PROVE  /\ Len(s) \in Nat \ {0} /\ Last(s) = s[Len(s)]
           /\ Len(Front(s)) = Len(s) - 1
           /\ \A i \in 1 .. Len(s) - 1 : Front(s)[i] = s[i]
           /\ Front(s) # <<>> => Last(Front(s)) = s[Len(s) - 1] /\ Len(s) - 1 \in Nat \ {0}
<1>1. Len(s) \in Nat /\ Len(s) # 0
    BY EmptySeq, LenProperties
<1>2. Front(s) = [i \in 1 .. Len(s) - 1 |-> s[i]]
    BY <1>1 DEF Front
<1>3. Front(s) \in Seq(Manifests)
    BY FrontOfManifests
<1>4. Len(Front(s)) \in Nat /\ DOMAIN Front(s) = 1 .. Len(Front(s))
    BY <1>3, LenProperties
<1>5. Len(Front(s)) = Len(s) - 1
  <2>1. 1 .. Len(Front(s)) = 1 .. Len(s) - 1
    BY <1>2, <1>4
  <2> QED BY <1>1, <1>4, <2>1
<1>6. Front(s) # <<>> => Len(Front(s)) # 0
    BY <1>3, EmptySeq
<1>7. ASSUME Front(s) # <<>> PROVE Last(Front(s)) = s[Len(s) - 1] /\ Len(s) - 1 \in Nat \ {0}
  <2>1. Len(s) - 1 \in Nat \ {0}
    BY <1>1, <1>5, <1>6, <1>7
  <2>2. Last(Front(s)) = Front(s)[Len(s) - 1]
    BY <1>5 DEF Last
  <2>3. \A n \in Nat \ {0} : n \in 1 .. n
    OBVIOUS
  <2>4. Front(s)[Len(s) - 1] = s[Len(s) - 1]
    BY <1>2, <2>1, <2>3
  <2> QED BY <2>1, <2>2, <2>4
<1> QED BY <1>1, <1>2, <1>5, <1>7 DEF Last

\* A step of one command that leaves the manifest and what was replaced alone.
LEMMA LinksAlone ==
    ASSUME TypeOK, SwapsAreLinked, OthersIdle', UNCHANGED <<manifest, replaced>>,
           \A t \in DOMAIN backups : t \in DOMAIN backups' /\ backups'[t] = backups[t],
           One \in Operators, op'[One] # Idle => CommandCanBeUndone(op[One])'
    PROVE  SwapsAreLinked'
<1>1. manifest'.status = "written" => Linked(manifest)'
    BY LinksStay DEF SwapsAreLinked, Linked, Undoes
<1> QED BY <1>1 DEF SwapsAreLinked, OthersIdle, IsIdle

LEMMA ReviewLinks ==
    ASSUME TypeOK, SwapsAreLinked, OthersIdle', One \in Operators, NEW s \in Series,
           \/ \E m, c \in DOMAIN staged : PromoteReview(One, s, m, c)
           \/ \E c \in Candidates : SwapReview(One, s, c)
    PROVE  SwapsAreLinked'
<1> DEFINE p == One
<1>1. UNCHANGED <<manifest, backups, replaced>>
    BY DEF PromoteReview, SwapReview
<1>2. CASE \E m, c \in DOMAIN staged : PromoteReview(p, s, m, c)
  <2>1. op'[p].kind = "promote"
    BY <1>2, PromoteReviewEffect
  <2> QED BY <1>1, <2>1, LinksAlone DEF CommandCanBeUndone
<1>3. CASE \E c \in Candidates : SwapReview(p, s, c)
  <2>1. /\ op'[p].kind = "swap" /\ op'[p].step = "backup"
        /\ op'[p].base = manifest /\ manifest \in Manifests
    BY <1>3, SwapReviewEffect
  <2>2. manifest.status = "written" /\ Linked(manifest)
    BY <2>1, ManifestContents DEF SwapsAreLinked
  <2>3. CommandCanBeUndone(op[p])'
    BY <1>1, <2>1, <2>2 DEF CommandCanBeUndone, Linked, Undoes
  <2> QED BY <1>1, <2>3, LinksAlone
<1> QED BY <1>2, <1>3

LEMMA CopyLinks ==
    ASSUME TypeOK, SwapsAreLinked, OthersIdle', One \in Operators,
           CopyModel(One) \/ CopyCalibrator(One) \/ BuildPromotion(One)
             \/ CopyCandidate(One) \/ BuildSwap(One)
    PROVE  SwapsAreLinked'
<1> DEFINE p == One
<1>1. UNCHANGED <<manifest, backups, replaced>>
    BY DEF CopyModel, CopyCalibrator, BuildPromotion, CopyCandidate, BuildSwap
<1>2. CASE CopyModel(p) \/ CopyCalibrator(p) \/ BuildPromotion(p)
  <2>1. op'[p].kind = "promote"
    BY <1>2, CopyModelEffect, CopyCalibratorEffect, BuildPromotionEffect
  <2> QED BY <1>1, <2>1, LinksAlone DEF CommandCanBeUndone
<1>3. CASE CopyCandidate(p)
  <2>1. /\ op[p] # Idle /\ op[p].kind = "swap" /\ op[p].step = "copySwap"
        /\ op'[p].kind = "swap" /\ op'[p].step = "build"
        /\ op'[p].second = op[p].second /\ op'[p].base = op[p].base
    BY <1>3, CopyCandidateEffect
  <2>2. CommandCanBeUndone(op[p])
    BY <2>1 DEF SwapsAreLinked, IsIdle
  <2> QED BY <1>1, <2>1, <2>2, LinksAlone DEF CommandCanBeUndone, Linked, Undoes
<1>4. CASE BuildSwap(p)
  <2>1. /\ op[p] # Idle /\ op[p].kind = "swap" /\ op[p].step = "build"
        /\ op'[p].kind = "swap" /\ op'[p].step = "truncate"
        /\ op'[p].second = op[p].second /\ op'[p].base = op[p].base
        /\ op'[p].draft.swapped /\ op'[p].draft.backup = op[p].second
    BY <1>4, BuildSwapEffect
  <2>2. CommandCanBeUndone(op[p])
    BY <2>1 DEF SwapsAreLinked, IsIdle
  <2> QED BY <1>1, <2>1, <2>2, LinksAlone DEF CommandCanBeUndone, Linked, Undoes
<1> QED BY <1>2, <1>3, <1>4

LEMMA BackUpLinks ==
    ASSUME TypeOK, SwapsAreLinked, OthersIdle', One \in Operators, NamesOnce, BackUp(One)
    PROVE  SwapsAreLinked'
<1> DEFINE p == One
<1>1. UNCHANGED <<manifest, replaced>> /\ op[p] # Idle /\ op[p].kind = "swap"
      /\ op[p].step = "backup"
    BY BackUpEffect DEF BackUp
<1>2. CASE manifest = Absent
  <2>1. op'[p] = Idle /\ backups' = backups
    BY <1>2, BackUpEffect
  <2> QED BY <1>1, <2>1, LinksAlone
<1>3. CASE manifest # Absent
  <2>1. /\ op'[p].kind = "swap" /\ op'[p].step = "copySwap"
        /\ op'[p].second = now /\ op'[p].base = op[p].base
        /\ backups' = Put(backups, now, manifest)
    BY <1>3, BackUpEffect
  <2>2. CommandCanBeUndone(op[p])
    BY <1>1 DEF SwapsAreLinked, IsIdle
  <2>3. /\ manifest = op[p].base /\ manifest.status = "written" /\ Linked(manifest)
    BY <1>1, <1>3, <2>2 DEF CommandCanBeUndone
  <2>4. /\ now \in DOMAIN backups' /\ backups'[now] = manifest
        /\ \A t \in DOMAIN backups : t \in DOMAIN backups' /\ backups'[t] = backups[t]
    BY <2>1 DEF Put, NamesOnce
  <2>5. Linked(op[p].base)'
    <3>1. Linked(op[p].base)
      BY <2>3
    <3>2. \A m : Linked(m) => Linked(m)'
      BY <1>1, <2>4, LinksStay
    <3> QED BY <2>1, <3>1, <3>2 DEF Linked, Undoes
  <2>6. CommandCanBeUndone(op[p])'
    BY <1>1, <2>1, <2>3, <2>4, <2>5 DEF CommandCanBeUndone
  <2> QED BY <1>1, <2>4, <2>6, LinksAlone
<1> QED BY <1>2, <1>3

LEMMA RollbackLinks ==
    ASSUME TypeOK, SwapsAreLinked, OthersIdle', One \in Operators, NEW s \in Series,
           Rollback(One, s)
    PROVE  SwapsAreLinked'
<1> DEFINE p == One
<1>1. UNCHANGED <<manifest, backups, replaced>>
    BY DEF Rollback
<1>2. /\ op'[p].kind = "rollback" /\ op'[p].step = "truncate"
      /\ op'[p].base = manifest /\ op'[p].draft = Restoration /\ manifest \in Manifests
    BY RollbackEffect
<1>3. manifest.status = "written" /\ Linked(manifest)
    BY <1>2, ManifestContents DEF SwapsAreLinked
<1>4. replaced # <<>> => Restoration = Last(replaced)
    BY <1>3 DEF Linked, Undoes, Restoration
<1>5. CommandCanBeUndone(op[p])'
    BY <1>1, <1>2, <1>3, <1>4 DEF CommandCanBeUndone, Linked, Undoes
<1> QED BY <1>1, <1>5, LinksAlone

LEMMA FillLinks ==
    ASSUME TypeOK, SwapsAreLinked, OthersIdle', One \in Operators, FillManifest(One)
    PROVE  SwapsAreLinked'
<1> DEFINE p == One
<1>1. /\ op[p] # Idle /\ op[p] \in Commands /\ op[p].step = "fill" /\ op'[p] = Idle
      /\ backups' = backups /\ manifest' = op[p].draft /\ Grounded(op[p])
    BY OverwriteEffect DEF FillManifest
<1>2. CommandCanBeUndone(op[p])
    BY <1>1 DEF SwapsAreLinked, IsIdle
<1>3. Linked(manifest)'
  <2>1. CASE op[p].kind = "promote"
    BY <2>1 DEF FillManifest, Linked
  <2>2. CASE op[p].kind = "swap"
    <3> DEFINE b == op[p].base
               n == Len(replaced)
    <3>1. replaced' = Append(replaced, b) /\ b \in Manifests /\ replaced \in Seq(Manifests)
      BY <1>1, <2>2 DEF FillManifest, TypeOK, Grounded
    <3>2. Linked(b) /\ Undoes(op[p].draft, b)
      BY <1>1, <1>2, <2>2 DEF CommandCanBeUndone, Undoes
    <3> HIDE DEF b
    <3>3. n \in Nat /\ Len(replaced') = n + 1 /\ replaced'[n + 1] = b
          /\ \A i \in 1 .. n : replaced'[i] = replaced[i]
      BY <3>1, AppendProperties, LenProperties
    <3>4. Last(replaced') = b
      BY <3>3 DEF Last
    <3>5. Undoes(manifest, Last(replaced))'
      BY <1>1, <3>2, <3>4 DEF Undoes
    <3>6. ASSUME NEW i \in 1 .. n PROVE Undoes(replaced[i + 1], replaced[i])'
      <4>1. replaced # <<>>
        BY <3>1, <3>3, EmptySeq
      <4>2. CASE i = n
        <5>1. Undoes(b, replaced[n])
          BY <3>2, <4>1 DEF Linked, Last
        <5> QED BY <1>1, <3>3, <4>2, <5>1 DEF Undoes
      <4>3. CASE i # n
        <5>1. i \in 1 .. n - 1 /\ i + 1 \in 1 .. n
          BY <3>3, <4>3
        <5>2. Undoes(replaced[i + 1], replaced[i])
          BY <3>2, <4>1, <5>1 DEF Linked
        <5> QED BY <1>1, <3>3, <5>1, <5>2 DEF Undoes
      <4> QED BY <4>2, <4>3
    <3>7. Len(replaced') - 1 = n
      BY <3>3
    <3> QED BY <3>5, <3>6, <3>7 DEF Linked
  <2>3. CASE op[p].kind = "rollback" /\ replaced = <<>>
    BY <2>3 DEF FillManifest, Linked
  <2>4. CASE op[p].kind = "rollback" /\ replaced # <<>>
    <3> DEFINE n == Len(replaced)
    <3>1. replaced' = Front(replaced) /\ replaced \in Seq(Manifests)
      BY <2>4 DEF FillManifest, TypeOK
    <3>2. op[p].draft = Last(replaced)
          /\ \A i \in 1 .. n - 1 : Undoes(replaced[i + 1], replaced[i])
      BY <1>2, <2>4 DEF CommandCanBeUndone, Linked
    <3>3. /\ n \in Nat \ {0} /\ Last(replaced) = replaced[n]
          /\ Len(replaced') = n - 1
          /\ \A i \in 1 .. n - 1 : replaced'[i] = replaced[i]
          /\ replaced' # <<>> => Last(replaced') = replaced[n - 1] /\ n - 1 \in Nat \ {0}
      BY <2>4, <3>1, LastAndFront
    <3> SUFFICES ASSUME replaced' # <<>> PROVE Linked(manifest)'
      BY DEF Linked
    <3>4. n - 1 \in 1 .. n - 1 /\ (n - 1) + 1 = n
      BY <3>3
    <3>5. Undoes(manifest, Last(replaced))'
      BY <1>1, <3>2, <3>3, <3>4 DEF Undoes
    <3>6. ASSUME NEW i \in 1 .. Len(replaced') - 1
          PROVE  Undoes(replaced[i + 1], replaced[i])'
      <4>1. i \in 1 .. n - 1 /\ i + 1 \in 1 .. n - 1
        BY <3>3
      <4> QED BY <1>1, <3>2, <3>3, <4>1 DEF Undoes
    <3> QED BY <3>5, <3>6 DEF Linked
  <2> QED BY <1>1, <2>1, <2>2, <2>3, <2>4 DEF Commands
<1> QED BY <1>1, <1>3 DEF SwapsAreLinked, OthersIdle, IsIdle

LEMMA TruncateLinks ==
    ASSUME TypeOK, SwapsAreLinked, OthersIdle', One \in Operators,
           TruncateManifest(One) \/ Crash(One)
    PROVE  SwapsAreLinked'
<1> DEFINE p == One
<1>1. op[p] # Idle /\ UNCHANGED <<backups, replaced>>
    BY OverwriteEffect DEF TruncateManifest, Crash
<1>2. CASE TruncateManifest(p)
  <2>1. /\ op[p].step = "truncate" /\ op'[p].step = "fill" /\ op'[p].kind = op[p].kind
        /\ op'[p].second = op[p].second /\ op'[p].base = op[p].base
        /\ op'[p].draft = op[p].draft
    BY <1>2, OverwriteEffect
  <2>2. CommandCanBeUndone(op[p])
    BY <1>1 DEF SwapsAreLinked, IsIdle
  <2>3. CommandCanBeUndone(op[p])'
    BY <1>1, <2>1, <2>2 DEF CommandCanBeUndone, Linked, Undoes
  <2>4. manifest'.status = "torn"
    BY <1>2 DEF TruncateManifest, Torn
  <2> QED BY <2>3, <2>4 DEF SwapsAreLinked, OthersIdle, IsIdle
<1>3. CASE Crash(p)
  <2>1. op'[p] = Idle /\ manifest' = manifest
    BY <1>3, OverwriteEffect DEF Crash
  <2> QED BY <1>1, <2>1, LinksAlone
<1> QED BY <1>2, <1>3

LEMMA QuietLinks ==
    ASSUME TypeOK, SwapsAreLinked,
           \/ \E a \in Stageable : Stage(a)
           \/ \E p \in Operators : Demote(p)
           \/ Tick
           \/ UNCHANGED vars
    PROVE  SwapsAreLinked'
<1>1. op' = op /\ backups' = backups
    BY DEF Stage, Demote, Tick, vars
<1>2. CASE UNCHANGED <<manifest, replaced>>
    BY <1>1, <1>2 DEF SwapsAreLinked, CommandCanBeUndone, Linked, Undoes, IsIdle
<1>3. CASE manifest' = Absent /\ replaced' = <<>>
    BY <1>1, <1>3 DEF SwapsAreLinked, CommandCanBeUndone, Linked, IsIdle, Absent
<1> QED BY <1>2, <1>3 DEF Stage, Demote, Tick, vars

LEMMA LinksInit ==
    ASSUME NEW artifacts, StagedFirst(artifacts)
    PROVE  SwapsAreLinked
BY DEF StagedFirst, SwapsAreLinked, Absent, IsIdle

LEMMA LinksStep ==
    ASSUME TypeOK, OthersIdle, SwapsAreLinked,
           (Step /\ Alone /\ NamesOnce) \/ UNCHANGED vars
    PROVE  SwapsAreLinked'
<1>1. CASE \/ \E a \in Stageable : Stage(a)
           \/ \E p \in Operators : Demote(p)
           \/ Tick
           \/ UNCHANGED vars
    BY <1>1, QuietLinks
<1>2. ASSUME Alone, NEW p \in Operators, NEW s \in Series,
             NEW m \in DOMAIN staged, NEW c \in DOMAIN staged,
             PromoteReview(p, s, m, c)
      PROVE  SwapsAreLinked'
    BY <1>2, OnlyOne, PromoteReviewEffect, ReviewLinks
<1>3. ASSUME Alone, NEW p \in Operators, NEW s \in Series, NEW c \in Candidates,
             SwapReview(p, s, c)
      PROVE  SwapsAreLinked'
    BY <1>3, OnlyOne, SwapReviewEffect, ReviewLinks
<1>4. ASSUME Alone, NEW p \in Operators, NEW s \in Series, Rollback(p, s)
      PROVE  SwapsAreLinked'
    BY <1>4, OnlyOne, RollbackEffect, RollbackLinks
<1>5. ASSUME Alone, NEW p \in Operators,
             \/ CopyModel(p) \/ CopyCalibrator(p) \/ BuildPromotion(p)
             \/ CopyCandidate(p) \/ BuildSwap(p)
      PROVE  SwapsAreLinked'
  <2>1. op[p] # Idle
    BY <1>5 DEF CopyModel, CopyCalibrator, BuildPromotion, CopyCandidate, BuildSwap, At
  <2> QED BY <1>5, <2>1, OnlyOne, CopyLinks
<1>6. ASSUME Alone, NamesOnce, NEW p \in Operators, BackUp(p)
      PROVE  SwapsAreLinked'
    BY <1>6, OnlyOne, BackUpEffect, BackUpLinks
<1>7. ASSUME Alone, NEW p \in Operators,
             TruncateManifest(p) \/ FillManifest(p) \/ Crash(p)
      PROVE  SwapsAreLinked'
    BY <1>7, OnlyOne, OverwriteEffect, TruncateLinks, FillLinks
<1> QED BY <1>1, <1>2, <1>3, <1>4, <1>5, <1>6, <1>7 DEF Step

LEMMA LinkedCanBeUndone == SwapsAreLinked => CanUndo
BY DEF SwapsAreLinked, CanUndo, Linked, Undoes, CanRestore, Restoration

HIDE PromotionAssumption

-----------------------------------------------------------------------------
(* The promotion of the served pair.                                        *)

\* With two operators no file name is asked for twice; a single operator may
\* ask for one twice, and is alone.
PromotionInv ==
    /\ TypeOK
    /\ part \notin {"crash", "undo"} => OnlyVettedPairs
    /\ part \in {"crash", "undo"} => OthersIdle /\ OnlyVettedHashes /\ ModelsAreKept
    /\ part = "undo" => SwapsAreLinked

LEMMA PromotionInvInit == PartInit => PromotionInv
<1> SUFFICES ASSUME PartInit PROVE PromotionInv
    OBVIOUS
<1>1. PICK artifacts \in Seq(Artifacts) : StagedFirst(artifacts)
    BY PromotionAssumption, EmptySeq DEF PartInit
<1>2. TypeOK
    BY <1>1, StagedFirstType
<1> QED BY <1>1, <1>2, VettedInit, HashesInit, ModelsInit, LinksInit DEF PromotionInv

\* A step of a part is one the promotion may take: with no name asked for twice,
\* or with one operator.
LEMMA PartStep ==
    ASSUME [PartNext]_allVars
    PROVE  /\ part' = part
           /\ part = "two" => (Step /\ NamesOnce) \/ UNCHANGED vars
           /\ part = "crash" => ((Step \/ Lose) /\ Alone) \/ UNCHANGED vars
           /\ part = "undo" => (Step /\ Alone /\ NamesOnce) \/ UNCHANGED vars
           /\ part \notin {"two", "crash", "undo"} => UNCHANGED vars
<1>1. CASE PartNext
    BY <1>1 DEF PartNext, Promotion, Decision
<1>2. CASE UNCHANGED allVars
    BY <1>2 DEF allVars, vars
<1> QED BY <1>1, <1>2

LEMMA PromotionInvStep == PromotionInv /\ [PartNext]_allVars => PromotionInv'
<1> SUFFICES ASSUME PromotionInv, [PartNext]_allVars PROVE PromotionInv'
    OBVIOUS
<1>1. part' = part
    BY PartStep
<1>2. TypeOK'
    BY PartStep, TypeStep DEF PromotionInv
<1>3. part \notin {"crash", "undo"} => OnlyVettedPairs'
    BY PartStep, VettedStep DEF PromotionInv
<1>4. part \in {"crash", "undo"} => ((Step \/ Lose) /\ Alone) \/ UNCHANGED vars
    BY PartStep
<1>5. part \in {"crash", "undo"} => OthersIdle' /\ OnlyVettedHashes' /\ ModelsAreKept'
    BY <1>4, HashesStep, ModelsStep DEF PromotionInv
<1>6. part = "undo" => SwapsAreLinked'
    BY PartStep, LinksStep DEF PromotionInv
<1> QED BY <1>1, <1>2, <1>3, <1>5, <1>6 DEF PromotionInv

\* Every manifest that can be in force, backed up or in preparation is sound, in
\* each part by the argument that holds there: the names of the copies, or their
\* hashes (HashesInit and what follows it).
THEOREM PromotionInvariant == PartSpec => []PromotionInv
BY PromotionInvInit, PromotionInvStep, PTL DEF PartSpec

\* Whatever a runtime loads is a pair that one review let through: with two
\* operators at a time, with one who crashes and overwrites files of his own, and
\* with backups deleted.
THEOREM ServedPairsAreVetted == PartSpec => []ServedPairVetted
<1>1. PromotionInv => ServedPairVetted
    BY VettedServed, HashesServed DEF PromotionInv
<1> QED BY <1>1, PromotionInvariant, PTL

\* A single operator can always roll back the swaps in force, one after the
\* other: the manifest each of them put aside is in the backup the next names.
THEOREM SwapsAreReversible == PartSpec => []SwapsCanBeUndone
<1>1. PromotionInv => SwapsCanBeUndone
    BY LinkedCanBeUndone DEF PromotionInv, SwapsCanBeUndone
<1> QED BY <1>1, PromotionInvariant, PTL

\* Preparing a promotion or a swap, and dying while doing so, never takes the
\* promotion in force out of service, and a single operator's swaps and rollbacks
\* keep the model.
THEOREM PromotionsAreKept == PartSpec => PromotionKept
<1>1. PromotionInv /\ [PartNext]_allVars
        => [/\ part # "crash" => StaysUntilReplaced
            /\ part # "two" => KeepsModel]_allVars
  <2> SUFFICES ASSUME PromotionInv, [PartNext]_allVars
               PROVE  /\ part # "crash" => StaysUntilReplaced \/ UNCHANGED vars
                      /\ part # "two" => KeepsModel
    <3>1. UNCHANGED vars => StaysUntilReplaced
      BY DEF StaysUntilReplaced, Valid, vars
    <3> QED BY <3>1
  <2>1. part # "crash" => StaysUntilReplaced \/ UNCHANGED vars
    BY PartStep, StaysStep
  <2>2. part \in {"crash", "undo"} => KeepsModel
    BY PartStep, KeepsStep DEF PromotionInv
  <2>3. part \notin {"two", "crash", "undo"} => KeepsModel
    BY PartStep DEF KeepsModel, vars
  <2> QED BY <2>1, <2>2, <2>3
<1> QED BY <1>1, PromotionInvariant, PTL DEF PartSpec, PromotionKept
-----------------------------------------------------------------------------
(* The gates in front of an order (LiveGates).                              *)

\* The parts of the state an operator changes, and what the session holds.
GateType ==
    /\ g1 \in SUBSET Live!Switches /\ g2 \in {"none", "unreadable", "readable"}
    /\ g3 \in SUBSET Require
SessionInv ==
    /\ "limits" \in g1
    /\ g4 = [positions |-> g4.positions, openRisk |-> g4.openRisk, times |-> g4.times]
    /\ g4.positions \in [Contracts -> -MaxPosition .. MaxPosition]
    /\ g4.openRisk \in Int /\ g4.openRisk <= MaxOpenRisk
    /\ g4.times \in Seq(Nat) /\ g5 \in Nat
    /\ \A i \in DOMAIN g4.times :
         Cardinality({j \in 1 .. i : g4.times[j] >= g4.times[i] - Hour}) <= MaxPerHour
GateInv ==
    /\ part = "gates" => GateType /\ g4 = Live!NoSession
    /\ part = "session" => GateType /\ SessionInv

LEMMA LimitsAreNumbers ==
    /\ MaxOrder \in Nat /\ MaxPosition \in Nat /\ MaxOpenRisk \in Nat
    /\ MaxPerHour \in Nat /\ Hour \in Nat /\ MaxSession \in Nat
    /\ MaxLiveSize \in Nat /\ MaxLiveNotional \in Nat
BY GatesConstants

LEMMA GateInvInit == PartInit => GateInv
<1> SUFFICES ASSUME PartInit PROVE GateInv
    OBVIOUS
<1>1. CASE part = "gates"
  <2>1. Live!GateInit
    BY <1>1 DEF PartInit
  <2> QED BY <1>1, <2>1 DEF GateInv, GateType, Live!GateInit, Live!Defaults, Live!Switches
<1>2. CASE part = "session"
  <2>1. Live!SessionInit
    BY <1>2 DEF PartInit
  <2>2. g4 = [positions |-> [c \in Contracts |-> 0], openRisk |-> 0, times |-> <<>>]
        /\ g1 = {"limits"} /\ g2 = "none" /\ g3 = {} /\ g5 = 0
    BY <2>1 DEF Live!SessionInit, Live!NoSession
  <2>3. GateType
    BY <2>2 DEF GateType, Live!Switches
  <2>4. SessionInv
    BY <2>2, LimitsAreNumbers, EmptySeq DEF SessionInv
  <2> QED BY <1>2, <2>3, <2>4 DEF GateInv
<1> QED BY <1>1, <1>2 DEF GateInv

\* What an order that is approved was tested for.
LEMMA TradeTested ==
    ASSUME NEW o, NEW ctx, "limits" \in g1, Live!Trade(o, ctx)
    PROVE  /\ ~(g4.positions[o.contract] + Live!Signed(o) > MaxPosition)
           /\ ~(-(g4.positions[o.contract] + Live!Signed(o)) > MaxPosition)
           /\ ~(g4.openRisk + o.size * o.price > MaxOpenRisk)
           /\ ~(Live!Recent(g4) >= MaxPerHour)
<1>1. Live!Reasons(o, ctx, g4, g1) = {}
    BY DEF Live!Trade
<1>2. "position" \notin Live!Reasons(o, ctx, g4, g1)
      /\ "openRisk" \notin Live!Reasons(o, ctx, g4, g1)
      /\ "perHour" \notin Live!Reasons(o, ctx, g4, g1)
    BY <1>1
<1>3. ~(g4.positions[o.contract] + Live!Signed(o) > MaxPosition)
      /\ ~(-(g4.positions[o.contract] + Live!Signed(o)) > MaxPosition)
    BY <1>2 DEF Live!Reasons
<1>4. ~(g4.openRisk + o.size * o.price > MaxOpenRisk)
    BY <1>2 DEF Live!Reasons
<1>5. ~(Live!Recent(g4) >= MaxPerHour)
    BY <1>2 DEF Live!Reasons
<1> QED BY <1>3, <1>4, <1>5

LEMMA TradeKeepsLimits ==
    ASSUME SessionInv, NEW o \in Orders, NEW ctx, Live!Trade(o, ctx)
    PROVE  SessionInv'
<1> DEFINE f == g4.positions
           ts == g4.times
<1>1. /\ g1' = g1 /\ g5' = g5
      /\ g4' = [positions |-> [f EXCEPT ![o.contract] = f[o.contract] + Live!Signed(o)],
                openRisk |-> g4.openRisk + o.size * o.price,
                times |-> Append(ts, g5)]
    BY DEF Live!Trade
<1>2. /\ o.contract \in Contracts /\ o.size \in Nat /\ o.price \in Nat
      /\ Live!Signed(o) \in Int
  <2>1. o \in [contract : Contracts, side : {"BUY", "SELL"}, size : Nat, price : Nat]
    BY GatesConstants
  <2> QED BY <2>1 DEF Live!Signed
<1>3. /\ f \in [Contracts -> -MaxPosition .. MaxPosition]
      /\ g4.openRisk \in Int /\ ts \in Seq(Nat) /\ g5 \in Nat
    BY DEF SessionInv
<1>4. /\ ~(f[o.contract] + Live!Signed(o) > MaxPosition)
      /\ ~(-(f[o.contract] + Live!Signed(o)) > MaxPosition)
      /\ ~(g4.openRisk + o.size * o.price > MaxOpenRisk)
      /\ ~(Live!Recent(g4) >= MaxPerHour)
    BY TradeTested DEF SessionInv
<1>5. f[o.contract] + Live!Signed(o) \in -MaxPosition .. MaxPosition
  <2> DEFINE v == f[o.contract] + Live!Signed(o)
  <2>1. v \in Int
    BY <1>2, <1>3, LimitsAreNumbers
  <2>2. ~(v > MaxPosition) /\ ~(-v > MaxPosition)
    BY <1>4
  <2> HIDE DEF v
  <2>3. v \in -MaxPosition .. MaxPosition
    BY <2>1, <2>2, LimitsAreNumbers
  <2> QED BY <2>3 DEF v
<1>6. g4'.positions \in [Contracts -> -MaxPosition .. MaxPosition]
    BY <1>1, <1>3, <1>5
<1>7. g4'.openRisk \in Int /\ g4'.openRisk <= MaxOpenRisk
  <2>1. o.size * o.price \in Int
    BY <1>2
  <2> QED BY <1>1, <1>3, <1>4, <2>1, LimitsAreNumbers
<1> DEFINE n == Len(ts)
<1>8. /\ n \in Nat /\ DOMAIN ts = 1 .. n /\ g4'.times \in Seq(Nat)
      /\ DOMAIN g4'.times = 1 .. n + 1 /\ g4'.times[n + 1] = g5
      /\ \A j \in 1 .. n : g4'.times[j] = ts[j]
    BY <1>1, <1>3, AppendFacts, LenProperties
<1> HIDE DEF n
<1>9. ASSUME NEW i \in 1 .. n + 1
      PROVE  Cardinality({j \in 1 .. i : g4'.times[j] >= g4'.times[i] - Hour}) <= MaxPerHour
  <2>1. CASE i \in 1 .. n
    <3>1. {j \in 1 .. i : g4'.times[j] >= g4'.times[i] - Hour}
            = {j \in 1 .. i : ts[j] >= ts[i] - Hour}
      BY SMTT(30), <1>8, <2>1
    <3> QED BY <1>8, <2>1, <3>1 DEF SessionInv
  <2>2. CASE i = n + 1
    <3> DEFINE R == {j \in 1 .. n : ts[j] >= g5 - Hour}
    <3>1. {j \in 1 .. i : g4'.times[j] >= g4'.times[i] - Hour} \subseteq R \cup {n + 1}
      BY <1>3, <1>8, <2>2, LimitsAreNumbers
    <3>2. IsFiniteSet(1 .. n) /\ R \subseteq 1 .. n
      BY <1>8, FS_Interval
    <3>3. IsFiniteSet(R)
      BY <3>2, FS_Subset
    <3>4. n + 1 \notin R
      BY <1>8
    <3>5. Cardinality(R) = Live!Recent(g4)
      <4>1. Live!Recent(g4) = Cardinality({j \in DOMAIN ts : ts[j] >= g5 - Hour})
        BY DEF Live!Recent, Live!Cardinality, Cardinality
      <4>2. {j \in DOMAIN ts : ts[j] >= g5 - Hour} = R
        BY <1>8
      <4> QED BY <4>1, <4>2
    <3>6. Cardinality(R) \in Nat /\ Cardinality(R) < MaxPerHour
      BY <1>4, <3>3, <3>5, FS_CardinalityType, LimitsAreNumbers
    <3> HIDE DEF R
    <3>7. Cardinality(R \cup {n + 1}) = Cardinality(R) + 1 /\ IsFiniteSet(R \cup {n + 1})
      BY <3>3, <3>4, FS_AddElement
    <3> DEFINE S == {j \in 1 .. i : g4'.times[j] >= g4'.times[i] - Hour}
    <3>8. S \subseteq R \cup {n + 1}
      BY <3>1
    <3> HIDE DEF S
    <3>9. Cardinality(S) <= Cardinality(R \cup {n + 1}) /\ Cardinality(S) \in Nat
      BY <3>7, <3>8, FS_Subset, FS_CardinalityType
    <3>10. Cardinality(S) <= MaxPerHour
      BY <3>6, <3>7, <3>9, LimitsAreNumbers
    <3> QED BY <3>10 DEF S
  <2> QED BY <1>8, <2>1, <2>2
<1>10. g4' = [positions |-> g4'.positions, openRisk |-> g4'.openRisk, times |-> g4'.times]
    BY <1>1
<1> QED BY <1>1, <1>3, <1>6, <1>7, <1>8, <1>9, <1>10 DEF SessionInv

LEMMA GateInvStep == GateInv /\ [PartNext]_allVars => GateInv'
<1> SUFFICES ASSUME GateInv, [PartNext]_allVars PROVE GateInv'
    OBVIOUS
<1>1. part' = part
    BY PartStep
<1>2. CASE UNCHANGED gs
    BY <1>1, <1>2 DEF GateInv, GateType, SessionInv, gs
<1>3. CASE part = "gates" /\ Live!OperatorNext
  <2>1. GateType /\ g4 = Live!NoSession
    BY <1>3 DEF GateInv
  <2>2. GateType'
    BY <1>3, <2>1 DEF GateType, Live!OperatorNext, Live!Configure, Live!SetKeys,
                      Live!Provide, Live!Flipped
  <2>3. g4' = g4
    BY <1>3 DEF Live!OperatorNext, Live!Configure, Live!SetKeys, Live!Provide
  <2> QED BY <1>1, <1>3, <2>1, <2>2, <2>3 DEF GateInv, Live!NoSession
<1>4. CASE part = "session" /\ Live!SessionNext
  <2>1. GateType /\ SessionInv
    BY <1>4 DEF GateInv
  <2>2. UNCHANGED <<g1, g2, g3>>
    BY <1>4 DEF Live!SessionNext, Live!Tick, Live!Trade
  <2>3. CASE Live!Tick
    <3>1. g4' = g4 /\ g5' = g5 + 1
      BY <2>3 DEF Live!Tick
    <3>2. SessionInv'
      BY <2>1, <2>2, <3>1 DEF SessionInv
    <3> QED BY <1>1, <1>4, <2>1, <2>2, <3>2 DEF GateInv, GateType
  <2>4. CASE \E o \in Orders, ctx \in Live!Contexts : Live!Trade(o, ctx)
    BY <1>1, <1>4, <2>1, <2>2, <2>4, TradeKeepsLimits DEF GateInv, GateType
  <2> QED BY <1>4, <2>3, <2>4 DEF Live!SessionNext
<1>5. part \notin {"gates", "session"} => GateInv'
    BY <1>1 DEF GateInv
<1> QED BY <1>2, <1>3, <1>4, <1>5 DEF PartNext, Promotion, Decision, allVars

\* The three lists of what locks live trading, unfolded.
LEMMA AdapterLock ==
    ASSUME NEW s
    PROVE  Live!AdapterBlockers(s) = {} <=>
              /\ "live" \in s /\ "enabled" \in s /\ "submit" \in s
              /\ "dryRun" \notin s /\ "kill" \notin s /\ "manual" \notin s
              /\ g2 # "none" /\ g2 # "unreadable"
<1>1. Live!Credentials(TRUE) = {} <=> g2 # "none" /\ g2 # "unreadable"
    BY DEF Live!Credentials
<1>2. ({"live", "enabled", "submit"} \ s) = {} <=>
        "live" \in s /\ "enabled" \in s /\ "submit" \in s
    OBVIOUS
<1>3. ({"dryRun", "kill", "manual"} \cap s) = {} <=>
        "dryRun" \notin s /\ "kill" \notin s /\ "manual" \notin s
    OBVIOUS
<1>4. Live!AdapterBlockers(s) = {} <=>
        /\ ({"live", "enabled", "submit"} \ s) = {}
        /\ ({"dryRun", "kill", "manual"} \cap s) = {}
        /\ Live!Credentials(TRUE) = {}
    BY DEF Live!AdapterBlockers
<1> QED BY <1>1, <1>2, <1>3, <1>4

LEMMA ConfigLock ==
    ASSUME NEW s
    PROVE  Live!ConfigBlockers(s) = {} <=>
              /\ "live" \in s /\ "enabled" \in s /\ "limits" \in s
              /\ "kill" \notin s /\ g2 # "none"
<1>1. Live!Credentials(FALSE) = {} <=> g2 # "none"
    BY DEF Live!Credentials
<1>2. ({"live", "enabled", "limits"} \ s) = {} <=>
        "live" \in s /\ "enabled" \in s /\ "limits" \in s
    OBVIOUS
<1>3. ({"kill"} \cap s) = {} <=> "kill" \notin s
    OBVIOUS
<1>4. Live!ConfigBlockers(s) = {} <=>
        /\ ({"live", "enabled", "limits"} \ s) = {}
        /\ ({"kill"} \cap s) = {}
        /\ Live!Credentials(FALSE) = {}
    BY DEF Live!ConfigBlockers
<1> QED BY <1>1, <1>2, <1>3, <1>4

LEMMA ReadinessLock ==
    ASSUME NEW q, g3 \in SUBSET Require
    PROVE  /\ "LIVE_DISABLED" \in Live!Codes(q) <=>
                 ~({"live", "enabled", "submit"} \subseteq g1) \/ "dryRun" \in g1
           /\ "KILL_SWITCH_ACTIVE" \in Live!Codes(q) <=> "kill" \in g1
           /\ "MISSING_CREDENTIALS" \in Live!Codes(q) <=> g2 # "readable"
           /\ "MANUAL_CONFIRMATION_REQUIRED" \in Live!Codes(q) <=> "manual" \in g1
           /\ "RISK_BLOCKED" \in Live!Codes(q) <=> Live!Preflight(q) # {}
<1>1. /\ "LIVE_DISABLED" \notin Require /\ "KILL_SWITCH_ACTIVE" \notin Require
      /\ "MISSING_CREDENTIALS" \notin Require /\ "RISK_BLOCKED" \notin Require
      /\ "MANUAL_CONFIRMATION_REQUIRED" \notin Require
    BY GatesConstants
<1>2. "LIVE_DISABLED" \in Live!Codes(q) <=>
          ~({"live", "enabled", "submit"} \subseteq g1) \/ "dryRun" \in g1
    BY <1>1 DEF Live!Codes
<1>3. "KILL_SWITCH_ACTIVE" \in Live!Codes(q) <=> "kill" \in g1
    BY <1>1 DEF Live!Codes
<1>4. "MISSING_CREDENTIALS" \in Live!Codes(q) <=> g2 # "readable"
    BY <1>1 DEF Live!Codes
<1>5. "MANUAL_CONFIRMATION_REQUIRED" \in Live!Codes(q) <=> "manual" \in g1
    BY <1>1 DEF Live!Codes
<1>6. "RISK_BLOCKED" \in Live!Codes(q) <=> Live!Preflight(q) # {}
    BY <1>1 DEF Live!Codes
<1> QED BY <1>2, <1>3, <1>4, <1>5, <1>6

LEMMA LocksAlwaysAgree == GateType => Live!LocksAgree
<1> SUFFICES ASSUME GateType PROVE Live!LocksAgree
    OBVIOUS
<1>1. Live!Codes(Live!NoOrder) \cap (Live!SwitchStates \cup {"MISSING_CREDENTIALS"}) = {}
        <=> /\ "LIVE_DISABLED" \notin Live!Codes(Live!NoOrder)
            /\ "KILL_SWITCH_ACTIVE" \notin Live!Codes(Live!NoOrder)
            /\ "MANUAL_CONFIRMATION_REQUIRED" \notin Live!Codes(Live!NoOrder)
            /\ "MISSING_CREDENTIALS" \notin Live!Codes(Live!NoOrder)
    BY DEF Live!SwitchStates
<1>2. Live!AdapterBlockers(g1) = {} <=>
        Live!Codes(Live!NoOrder) \cap (Live!SwitchStates \cup {"MISSING_CREDENTIALS"}) = {}
  <2>1. {"live", "enabled", "submit"} \subseteq g1 <=>
          "live" \in g1 /\ "enabled" \in g1 /\ "submit" \in g1
      OBVIOUS
  <2>2. g2 = "readable" <=> g2 # "none" /\ g2 # "unreadable"
      BY DEF GateType
  <2> QED BY <1>1, <2>1, <2>2, AdapterLock, ReadinessLock DEF GateType
<1>3. Live!AdapterBlockers(g1) = {} /\ "limits" \in g1 => Live!ConfigBlockers(g1) = {}
    BY AdapterLock, ConfigLock
<1> QED BY <1>2, <1>3 DEF Live!LocksAgree

LEMMA CalmAlwaysSurvives == Live!CalmSurvivesSlips
<1> SUFFICES ASSUME Live!LiveDisabled(g1), NEW s \in Live!Switches, NEW t \in Live!Switches
             PROVE  /\ Live!AdapterBlockers(Live!Flipped(Live!Flipped(g1, s), t)) # {}
                    /\ Live!ConfigBlockers(Live!Flipped(g1, s)) # {}
    BY DEF Live!CalmSurvivesSlips
<1>1. "enabled" \notin g1 /\ "submit" \notin g1 /\ "kill" \in g1
    BY DEF Live!LiveDisabled, Live!Dangerous
<1>2. \A set : \A x : x # s => (x \in Live!Flipped(set, s) <=> x \in set)
    BY DEF Live!Flipped
<1>3. \A set : \A x : x # t => (x \in Live!Flipped(set, t) <=> x \in set)
    BY DEF Live!Flipped
<1>4. Live!ConfigBlockers(Live!Flipped(g1, s)) # {}
  <2>1. "enabled" \notin Live!Flipped(g1, s) \/ "kill" \in Live!Flipped(g1, s)
      BY <1>1, <1>2
  <2> QED BY <2>1, ConfigLock
<1>5. Live!AdapterBlockers(Live!Flipped(Live!Flipped(g1, s), t)) # {}
  <2> DEFINE two == Live!Flipped(Live!Flipped(g1, s), t)
  <2>1. \A x : x # s /\ x # t => (x \in two <=> x \in g1)
      BY <1>2, <1>3
  <2> HIDE DEF two
  <2>2. "enabled" \notin two \/ "submit" \notin two \/ "kill" \in two
      BY <1>1, <2>1
  <2>3. Live!AdapterBlockers(two) # {}
      BY <2>2, AdapterLock
  <2> QED BY <2>3 DEF two
<1> QED BY <1>4, <1>5

\* The readiness report asks a risk manager that is told nothing of the market.
LEMMA NothingEverSubmits == g3 \in SUBSET Require => Live!NothingWouldSubmit
<1> SUFFICES ASSUME g3 \in SUBSET Require, NEW q \in Live!Requests \cup {Live!NoOrder}
             PROVE  Live!State(q) # "WOULD_SUBMIT_IF_ENABLED"
    BY DEF Live!NothingWouldSubmit
<1>1. \A price, size : "metadata" \in Live!PreflightReasons(price, size)
    BY DEF Live!PreflightReasons, Live!Reasons, Live!NoContext
<1>2. "metadata" \in Live!Preflight(q)
    BY <1>1 DEF Live!Preflight
<1>3. "RISK_BLOCKED" \in Live!Codes(q)
    BY <1>2, ReadinessLock
<1>4. ~(Live!Codes(q) \subseteq Live!SwitchStates)
    BY <1>3 DEF Live!SwitchStates
<1> QED BY <1>4 DEF Live!State

\* Whole cents, from dollars or from cents, with or without a hint.
LEMMA CentsAreKept ==
    ASSUME NEW c \in 1 .. 99, NEW h \in {"no", "unknown"}
    PROVE  /\ Live!NormPrice(10 * c, h) = 10 * c
           /\ h = "unknown" => Live!NormPrice(1000 * c, h) \in {10 * c, 1000 * c}
           /\ h = "unknown" /\ c >= 2 => Live!NormPrice(1000 * c, h) = 10 * c
           /\ h = "no" => Live!NormPrice(1000 * c, h) = 1000 * c
           /\ (10 * c + 5) \div 10 = c
<1>1. 10 * c <= 990 /\ 1000 * c \in Nat /\ c \in Nat
    OBVIOUS
<1>2. (1000 * c) \div 100 = 10 * c /\ (10 * c + 5) \div 10 = c
    BY <1>1
<1>3. c >= 2 => 1000 * c > 1500
    BY <1>1
<1> QED BY <1>1, <1>2, <1>3 DEF Live!NormPrice

LEMMA ValidPayload ==
    ASSUME NEW q, Live!IsValid(q)
    PROVE  /\ q.quantity # Live!None /\ ~(q.quantity <= 0)
           /\ 0 < Live!NormPrice(q.price, q.inCents)
           /\ Live!NormPrice(q.price, q.inCents) < 1000
           /\ ~(q.quantity > MaxLiveSize)
           /\ ~(Live!NormPrice(q.price, q.inCents) * q.quantity > 10 * MaxLiveNotional)
<1>1. Live!PayloadBlockers(q) = {}
    BY DEF Live!IsValid
<1>2. "quantity" \notin Live!PayloadBlockers(q) /\ "price" \notin Live!PayloadBlockers(q)
      /\ "size" \notin Live!PayloadBlockers(q) /\ "notional" \notin Live!PayloadBlockers(q)
    BY <1>1
<1>3. q.quantity # Live!None /\ ~(q.quantity <= 0)
    BY <1>2 DEF Live!PayloadBlockers
<1>4. 0 < Live!NormPrice(q.price, q.inCents) /\ Live!NormPrice(q.price, q.inCents) < 1000
    BY <1>2 DEF Live!PayloadBlockers
<1>5. ~(q.quantity > MaxLiveSize)
    BY <1>2 DEF Live!PayloadBlockers
<1>6. ~(Live!NormPrice(q.price, q.inCents) * q.quantity > 10 * MaxLiveNotional)
    BY <1>2, <1>3 DEF Live!PayloadBlockers
<1> QED BY <1>3, <1>4, <1>5, <1>6

\* Tenths of a contract, rounded down, at a price in cents.
LEMMA CountWithin ==
    ASSUME NEW c \in Nat, NEW n \in Nat, NEW max \in Nat, 10 * c * n <= 10 * max
    PROVE  10 * (n \div 10) <= n /\ 10 * c * (n \div 10) <= max
<1> DEFINE k == n \div 10
<1>1. k \in Nat /\ 10 * k <= n
    OBVIOUS
<1> HIDE DEF k
<1>2. c * (10 * k) <= c * n
  <2> DEFINE d == n - 10 * k
  <2>1. d \in Nat /\ n = 10 * k + d
    BY <1>1
  <2> HIDE DEF d
  <2>2. c * n = c * (10 * k) + c * d
    BY <1>1, <2>1
  <2>3. c * d \in Nat /\ c * (10 * k) \in Nat
    BY <1>1, <2>1
  <2> QED BY <2>2, <2>3
<1>3. c * (10 * k) = 10 * c * k /\ 10 * c * n = 10 * (c * n) /\ c * n \in Nat
      /\ 10 * c * k \in Nat
    BY <1>1
<1>4. 10 * k <= n /\ 10 * c * k <= max
    BY <1>1, <1>2, <1>3
<1> QED BY <1>4 DEF k

LEMMA PlansAlwaysAsMeant == Live!PlansAsMeant
<1>0. Cents \subseteq 1 .. 99 /\ Quantities \subseteq Nat
    BY GatesConstants
<1>1. ASSUME NEW c \in Cents, NEW h \in {"no", "unknown"}, NEW p \in {10 * c, 1000 * c},
             NEW n \in Quantities \cup {Live!None}, NEW q,
             q.price = p, q.inCents = h, q.quantity = n, Live!IsValid(q)
      PROVE  /\ Live!CentsOf(q) = c
             /\ 10 * Live!Count(q) <= MaxLiveSize
             /\ 10 * c * Live!Count(q) <= MaxLiveNotional
  <2>1. c \in 1 .. 99
    BY <1>0
  <2> DEFINE price == Live!NormPrice(p, h)
  <2>2. /\ n # Live!None /\ 0 < price /\ price < 1000
        /\ ~(n > MaxLiveSize) /\ ~(price * n > 10 * MaxLiveNotional)
    BY <1>1, ValidPayload
  <2>3. price \in {10 * c, 1000 * c}
    BY <2>1, CentsAreKept
  <2>4. price = 10 * c
    BY <2>1, <2>2, <2>3
  <2>5. n \in Nat
    BY <1>0, <2>2
  <2>6. 10 * (n \div 10) <= n /\ 10 * c * (n \div 10) <= MaxLiveNotional /\ n \div 10 \in Nat
    <3>1. 10 * c * n <= 10 * MaxLiveNotional
      BY <2>1, <2>2, <2>4, <2>5, LimitsAreNumbers
    <3>2. n \div 10 \in Nat
      BY <2>5
    <3> QED BY <2>1, <2>5, <3>1, <3>2, CountWithin, LimitsAreNumbers
  <2>7. Live!CentsOf(q) = c
    BY <1>1, <2>1, <2>4, CentsAreKept DEF Live!CentsOf
  <2>8. Live!Count(q) = n \div 10
    BY <1>1 DEF Live!Count
  <2> DEFINE k == n \div 10
  <2>9. 10 * k <= MaxLiveSize
    BY <2>2, <2>5, <2>6, LimitsAreNumbers
  <2> QED BY <2>6, <2>7, <2>8, <2>9
<1>2. ASSUME NEW q \in Live!Requests, Live!IsValid(q)
      PROVE  /\ Live!CentsOf(q) = q.meant
             /\ 10 * Live!Count(q) <= MaxLiveSize
             /\ 10 * q.meant * Live!Count(q) <= MaxLiveNotional
  <2>1. PICK c \in Cents, cents \in BOOLEAN, h \in {"no", "unknown"},
             n \in Quantities \cup {Live!None}, t \in {"fok", "ioc", "gtc", "market"} :
           q = [meant |-> c, price |-> IF cents THEN 1000 * c ELSE 10 * c,
                inCents |-> h, quantity |-> n, tif |-> t]
    BY DEF Live!Requests
  <2>2. q.meant = c /\ q.price \in {10 * c, 1000 * c} /\ q.inCents = h /\ q.quantity = n
    BY <2>1
  <2> QED BY <1>1, <1>2, <2>2
<1>3. ASSUME NEW c \in Cents, NEW n \in Quantities \cup {Live!None},
             NEW allowed \in SUBSET {"fok", "ioc"}, Live!IsValid(Live!Plan(10 * c, n, allowed))
      PROVE  Live!CentsOf(Live!Plan(10 * c, n, allowed)) = c
  <2> DEFINE q == Live!Plan(10 * c, n, allowed)
  <2>1. q.price = 10 * c /\ q.inCents = "no"
    BY DEF Live!Plan
  <2>2. c \in 1 .. 99
    BY <1>0
  <2> HIDE DEF q
  <2>3. Live!CentsOf(q) = (10 * c + 5) \div 10
    BY <2>1, <2>2, CentsAreKept DEF Live!CentsOf
  <2>4. Live!CentsOf(q) = c
    BY <2>2, <2>3, CentsAreKept
  <2> QED BY <2>4 DEF q
<1> QED BY <1>2, <1>3 DEF Live!PlansAsMeant

LEMMA SessionKept == part \in {"gates", "session"} /\ GateInv => Live!SessionWithinLimits
<1> SUFFICES ASSUME part \in {"gates", "session"}, GateInv PROVE Live!SessionWithinLimits
    OBVIOUS
<1>1. CASE part = "gates"
  <2>1. g4 = [positions |-> [c \in Contracts |-> 0], openRisk |-> 0, times |-> <<>>]
    BY <1>1 DEF GateInv, Live!NoSession
  <2>2. DOMAIN g4.times = {}
    BY <2>1
  <2> QED BY <2>1, <2>2, LimitsAreNumbers DEF Live!SessionWithinLimits
<1>2. CASE part = "session"
  <2>1. SessionInv
    BY <1>2 DEF GateInv
  <2>2. \A c \in Contracts : g4.positions[c] \in -MaxPosition .. MaxPosition
    BY <2>1 DEF SessionInv
  <2>3. \A i \in DOMAIN g4.times :
          Live!Cardinality({j \in 1 .. i : g4.times[j] >= g4.times[i] - Hour}) <= MaxPerHour
    BY <2>1 DEF SessionInv, Cardinality, Live!Cardinality
  <2> QED BY <2>1, <2>2, <2>3 DEF SessionInv, Live!SessionWithinLimits
<1> QED BY <1>1, <1>2

\* The gates before a live order hold, whatever an operator switches, provides or
\* asks to be planned, and whatever a session has traded.
LEMMA GatesKept == part \in {"gates", "session"} /\ GateInv => Live!GatesHold
<1> SUFFICES ASSUME part \in {"gates", "session"}, GateInv PROVE Live!GatesHold
    OBVIOUS
<1>1. GateType
    BY DEF GateInv
<1>2. g3 \in SUBSET Require
    BY <1>1 DEF GateType
<1> QED BY <1>1, <1>2, LocksAlwaysAgree, CalmAlwaysSurvives, NothingEverSubmits,
           PlansAlwaysAsMeant, SessionKept DEF Live!GatesHold
-----------------------------------------------------------------------------
(* The collector's files and their readers (FeedFreshness).                 *)

feedVars == <<g1, g2, g3, g4, g5, g6, g7, g8, g9, g10, g11, g12, g13, g14>>

\* A row says how old its sources were; a source is as new as a row says if its
\* newest line is.
IsRow(r) ==
    /\ r.asOf \in Nat /\ r.book \in Int /\ r.feed \in [Feeds!Feeds -> Int]
    /\ r.book = -1 \/ r.book \in 0 .. r.asOf
    /\ \A f \in Feeds!Feeds : r.feed[f] = -1 \/ r.feed[f] \in 0 .. r.asOf
Covered(r, newest) ==
    /\ r.book # -1 => r.asOf - r.book <= newest["kalshi"]
    /\ \A f \in Feeds!Feeds : r.feed[f] # -1 => r.asOf - r.feed[f] <= newest[f]
Rowed(some) == \A t \in Targets : some[t] = Feeds!NoRow \/ IsRow(some[t])

\* Where the iteration is and what it holds.
TimesInv ==
    /\ g1 \in Nat /\ g3 \in Nat /\ g3 <= g1 /\ g4 \in Targets
    /\ g2 \in {"down", "sleep", "coinbase", "coinbase again", "binance",
               "binance again", "book", "write", "flush"}
    /\ g2 \notin {"down", "sleep"} => g1 - g3 <= MaxCall
    /\ g5 \in Nat /\ g5 <= g1
    /\ g6 \in [Feeds!Feeds -> Int] /\ \A f \in Feeds!Feeds : g6[f] \in -1 .. g1
    /\ g7 \in -1 .. g1
\* What is in memory is in the buffers, and what is in the files was.
LinesInv ==
    /\ g8 \in [Feeds!Sources -> Int] /\ g9 \in [Feeds!Sources -> Int]
    /\ \A s \in Feeds!Sources : -1 <= g9[s] /\ g9[s] <= g8[s] /\ g8[s] <= g1
    /\ \A f \in Feeds!Feeds : g6[f] <= g8[f]
    /\ g7 <= g8["kalshi"]
\* The lines a row was made of are in the buffers, and in the files once the
\* recorder was flushed after it.
RowsInv ==
    /\ DOMAIN g10 = Targets /\ DOMAIN g11 = Targets /\ Rowed(g10) /\ Rowed(g11)
    /\ \A t \in Targets : g10[t] # Feeds!NoRow => Covered(g10[t], g8)
    /\ \A t \in Targets : g11[t] # Feeds!NoRow =>
          \/ t \in g13 \/ Covered(g11[t], g9)
          \/ g2 = "flush" /\ g10[t] # Feeds!NoRow /\ Covered(g11[t], g8)
\* While the feeds answer, what is held is no older than the last poll and one
\* request.
AnswersInv ==
    g12 => /\ g2 \in {"binance", "binance again"} => g6["coinbase"] = g3
           /\ g2 = "binance again" => g5 <= g3
           /\ g2 = "book" => \A f \in Feeds!Feeds : 0 <= g6[f] /\ g5 - MaxCall <= g6[f]
           /\ \A t \in Targets : g10[t] # Feeds!NoRow =>
                 \A f \in Feeds!Feeds : g10[t].feed[f] \in 0 .. Interval - 1 + MaxCall
FeedsInv == TimesInv /\ LinesInv /\ RowsInv /\ AnswersInv

LEMMA FeedNumbers ==
    /\ MaxCall \in Nat /\ BookMaxAge \in Nat /\ FeedMaxAge \in Nat /\ FeedRowMaxAge \in Nat
    /\ Interval \in Nat /\ Interval > 0 /\ 1 \in Targets
    /\ Feeds!Feeds = {"coinbase", "binance"}
    /\ Feeds!Sources = {"coinbase", "binance", "kalshi"}
    /\ Feeds!None = -1 /\ Feeds!NoRow = [asOf |-> -1]
<1>1. 1 \in Targets
  <2> DEFINE n == Cardinality(Targets)
  <2>1. n \in Nat \ {0} /\ Targets = 1 .. n
    BY FeedsConstants
  <2> HIDE DEF n
  <2> QED BY <2>1
<1> QED BY <1>1, FeedsConstants DEF Feeds!Feeds, Feeds!Sources, Feeds!None, Feeds!NoRow

LEMMA RowIsThere == ASSUME NEW r, IsRow(r) PROVE r # Feeds!NoRow
BY FeedNumbers DEF IsRow

LEMMA CoveredByNewer ==
    ASSUME NEW r, IsRow(r), NEW old \in [Feeds!Sources -> Int],
           NEW new \in [Feeds!Sources -> Int], Covered(r, old),
           \A s \in Feeds!Sources : old[s] <= new[s]
    PROVE  Covered(r, new)
<1>1. r.book # -1 => r.asOf - r.book <= new["kalshi"]
    BY FeedNumbers DEF Covered, IsRow
<1>2. ASSUME NEW f \in Feeds!Feeds, r.feed[f] # -1
      PROVE  r.asOf - r.feed[f] <= new[f]
  <2>1. f \in Feeds!Sources /\ r.feed[f] \in Int /\ r.asOf \in Nat
    BY FeedNumbers DEF IsRow
  <2>2. r.asOf - r.feed[f] <= old[f] /\ old[f] <= new[f] /\ old[f] \in Int /\ new[f] \in Int
    BY <1>2, <2>1 DEF Covered
  <2> QED BY <2>1, <2>2
<1> QED BY <1>1, <1>2 DEF Covered

\* The row that is built says when what it was made of was received.
LEMMA RowOf ==
    ASSUME g1 \in Nat, NEW received \in [Feeds!Feeds -> Int],
           \A f \in Feeds!Feeds : received[f] \in -1 .. g1, NEW b \in -1 .. g1, NEW snapshot,
           snapshot = [quoteAge |-> -1, bookAge |-> -1, sourceTs |-> -1, recv |-> b]
    PROVE  /\ IsRow(Feeds!Row(received, snapshot))
           /\ \A newest : (/\ b <= newest["kalshi"]
                           /\ \A f \in Feeds!Feeds : received[f] <= newest[f])
                => Covered(Feeds!Row(received, snapshot), newest)
           /\ \A f \in Feeds!Feeds : 0 <= received[f] =>
                 Feeds!Row(received, snapshot).feed[f] = g1 - received[f]
<1> DEFINE r == Feeds!Row(received, snapshot)
<1>1. Feeds!EffectiveBookAge(snapshot, g1) = IF b = -1 THEN -1 ELSE g1 - b
    BY FeedNumbers DEF Feeds!EffectiveBookAge
<1>2. r = [asOf |-> g1, book |-> IF b = -1 THEN -1 ELSE g1 - b,
           feed |-> [f \in Feeds!Feeds |-> IF received[f] = -1 THEN -1 ELSE g1 - received[f]]]
    BY <1>1, FeedNumbers DEF Feeds!Row, Feeds!Age
<1> HIDE DEF r
<1>3. r.asOf = g1 /\ r.book = IF b = -1 THEN -1 ELSE g1 - b
    BY <1>2
<1>4. r.feed \in [Feeds!Feeds -> Int]
      /\ \A f \in Feeds!Feeds : r.feed[f] = IF received[f] = -1 THEN -1 ELSE g1 - received[f]
  <2>1. \A f \in Feeds!Feeds : (IF received[f] = -1 THEN -1 ELSE g1 - received[f]) \in Int
    OBVIOUS
  <2> QED BY <1>2, <2>1
<1>5. \A f \in Feeds!Feeds : r.feed[f] = -1 \/ r.feed[f] \in 0 .. g1
    BY <1>4
<1>6. IsRow(r)
    BY <1>3, <1>4, <1>5 DEF IsRow
<1>7. ASSUME NEW newest, b <= newest["kalshi"],
             \A f \in Feeds!Feeds : received[f] <= newest[f]
      PROVE  Covered(r, newest)
  <2>1. r.book # -1 => r.asOf - r.book <= newest["kalshi"]
    <3>1. r.book # -1 => r.asOf - r.book = b
      BY <1>3
    <3> QED BY <1>7, <3>1
  <2>2. ASSUME NEW f \in Feeds!Feeds, r.feed[f] # -1
        PROVE  r.asOf - r.feed[f] <= newest[f]
    <3>1. r.asOf - r.feed[f] = received[f]
      BY <1>3, <1>4, <2>2
    <3> QED BY <1>7, <3>1
  <2> QED BY <2>1, <2>2 DEF Covered
<1>8. \A f \in Feeds!Feeds : 0 <= received[f] => r.feed[f] = g1 - received[f]
    BY <1>4
<1> QED BY <1>6, <1>7, <1>8 DEF r

LEMMA FeedsInvInit == Feeds!Init => FeedsInv
<1> SUFFICES ASSUME Feeds!Init PROVE FeedsInv
    OBVIOUS
<1>1. /\ g1 = 0 /\ g2 = "down" /\ g3 = 0 /\ g4 = 1 /\ g5 = 0
      /\ g6 = [f \in Feeds!Feeds |-> -1] /\ g7 = -1
      /\ g10 = [t \in Targets |-> Feeds!NoRow] /\ g11 = g10
      /\ g8 = [s \in Feeds!Sources |-> -1] /\ g9 = g8 /\ g12 = TRUE
    BY FeedNumbers DEF Feeds!Init, Feeds!Nothing
<1>2. TimesInv
    BY <1>1, FeedNumbers DEF TimesInv
<1>3. LinesInv
    BY <1>1, FeedNumbers DEF LinesInv
<1>4. \A t \in Targets : g10[t] = Feeds!NoRow /\ g11[t] = Feeds!NoRow
    BY <1>1
<1>5. RowsInv
    BY <1>1, <1>4 DEF RowsInv, Rowed
<1>6. AnswersInv
    BY <1>1, <1>4 DEF AnswersInv
<1> QED BY <1>2, <1>3, <1>5, <1>6 DEF FeedsInv

LEMMA StaleAge ==
    ASSUME NEW received \in Int, NEW at \in Int, received <= at, NEW limit \in Nat
    PROVE  Feeds!Stale(Feeds!Age(received, at), limit) <=> received = -1 \/ at - received > limit
<1>1. Feeds!None = -1
    BY FeedNumbers
<1> QED BY <1>1 DEF Feeds!Stale, Feeds!Age

\* Only the readers: what is written to the files and when it is let pass.
LEMMA FeedsHold == FeedsInv => Feeds!FreshnessHolds
<1> SUFFICES ASSUME FeedsInv PROVE Feeds!FreshnessHolds
    OBVIOUS
<1>1. Feeds!RowsFollowFeeds
    BY DEF FeedsInv, AnswersInv, Feeds!RowsFollowFeeds
<1>2. ASSUME g2 # "flush", NEW t \in Targets \ g13, Feeds!Passes(g11[t])
      PROVE  /\ Feeds!DecisionOk(FeedRowMaxAge)
             /\ \A f \in Feeds!Feeds : g11[t].feed[f] # Feeds!None =>
                    g9[f] >= g11[t].asOf - g11[t].feed[f]
  <2> DEFINE r == g11[t]
  <2>1. IsRow(r) /\ Covered(r, g9)
    <3>1. r # Feeds!NoRow
      BY <1>2 DEF Feeds!Passes
    <3> QED BY <1>2, <3>1 DEF FeedsInv, RowsInv, Rowed
  <2>2. /\ ~Feeds!Stale(Feeds!Age(r.asOf, g1), FeedRowMaxAge)
        /\ ~Feeds!Stale(r.book, BookMaxAge)
        /\ ~Feeds!UnderlyingStale(r.feed["coinbase"], r.feed["binance"])
    BY <1>2 DEF Feeds!Passes
  <2> HIDE DEF r
  <2>3. /\ r.asOf \in Nat /\ r.book \in Int
        /\ r.book = -1 \/ r.book \in 0 .. r.asOf
        /\ r.feed["coinbase"] \in Int /\ r.feed["binance"] \in Int
        /\ r.feed["coinbase"] = -1 \/ r.feed["coinbase"] \in 0 .. r.asOf
        /\ r.feed["binance"] = -1 \/ r.feed["binance"] \in 0 .. r.asOf
    BY <2>1, FeedNumbers DEF IsRow
  <2>4. /\ g1 \in Nat /\ g9["kalshi"] \in Int
        /\ g9["coinbase"] \in Int /\ g9["binance"] \in Int
        /\ g9["kalshi"] <= g1 /\ g9["coinbase"] <= g1 /\ g9["binance"] <= g1
    <3>1. \A s \in Feeds!Sources : g9[s] \in Int /\ g9[s] <= g8[s] /\ g8[s] <= g1 /\ g8[s] \in Int
      BY DEF FeedsInv, LinesInv
    <3>2. g1 \in Nat
      BY DEF FeedsInv, TimesInv
    <3>3. \A s \in Feeds!Sources : g9[s] \in Int /\ g9[s] <= g1
      BY <3>1, <3>2
    <3> QED BY <3>2, <3>3, FeedNumbers
  <2>5. g1 - r.asOf <= FeedRowMaxAge
    <3>1. FeedRowMaxAge \in Nat
      BY FeedNumbers
    <3>2. CASE r.asOf <= g1
      BY <2>2, <2>3, <2>4, <3>1, <3>2, StaleAge
    <3>3. CASE ~(r.asOf <= g1)
      BY <2>3, <2>4, <3>1, <3>3
    <3> QED BY <3>2, <3>3
  <2>6. r.book # -1 /\ r.book <= BookMaxAge
    BY <2>2, <2>3, FeedNumbers DEF Feeds!Stale
  <2>7. r.asOf - r.book <= g9["kalshi"]
    BY <2>1, <2>6 DEF Covered
  <2>8. ~Feeds!Stale(Feeds!DataAge("kalshi"), BookMaxAge + FeedRowMaxAge)
    <3>1. BookMaxAge \in Nat /\ FeedRowMaxAge \in Nat
      BY FeedNumbers
    <3>2. BookMaxAge + FeedRowMaxAge \in Nat
      BY <3>1
    <3>3. g9["kalshi"] # -1 /\ ~(g1 - g9["kalshi"] > BookMaxAge + FeedRowMaxAge)
      BY <2>3, <2>4, <2>5, <2>6, <2>7, <3>1
    <3> QED BY <2>4, <3>2, <3>3, StaleAge DEF Feeds!DataAge
  <2>9. ASSUME NEW f \in {"coinbase", "binance"}, ~Feeds!Stale(r.feed[f], FeedMaxAge)
        PROVE  ~Feeds!Stale(Feeds!DataAge(f), FeedMaxAge + FeedRowMaxAge)
    <3>1. r.feed[f] # -1 /\ r.feed[f] <= FeedMaxAge
      BY <2>3, <2>9, FeedNumbers DEF Feeds!Stale
    <3>2. r.asOf - r.feed[f] <= g9[f]
      BY <2>1, <3>1, FeedNumbers DEF Covered
    <3>3. FeedMaxAge \in Nat /\ FeedRowMaxAge \in Nat
      BY FeedNumbers
    <3>4. FeedMaxAge + FeedRowMaxAge \in Nat
      BY <3>3
    <3>5. /\ g9[f] \in Int /\ g9[f] <= g1 /\ r.feed[f] \in Int
          /\ r.feed[f] = -1 \/ r.feed[f] \in 0 .. r.asOf
      BY <2>3, <2>4
    <3>6. g9[f] # -1 /\ ~(g1 - g9[f] > FeedMaxAge + FeedRowMaxAge)
      BY <2>3, <2>4, <2>5, <3>1, <3>2, <3>3, <3>5
    <3> QED BY <2>4, <3>4, <3>5, <3>6, StaleAge DEF Feeds!DataAge
  <2>10. \/ ~Feeds!Stale(r.feed["coinbase"], FeedMaxAge)
         \/ /\ ~RequirePrimary /\ AllowFallback
            /\ ~Feeds!Stale(r.feed["binance"], FeedMaxAge)
    BY <2>2 DEF Feeds!UnderlyingStale
  <2>11. Feeds!DecisionOk(FeedRowMaxAge)
    BY <2>8, <2>9, <2>10 DEF Feeds!DecisionOk
  <2>12. \A f \in Feeds!Feeds : r.feed[f] # -1 => r.asOf - r.feed[f] <= g9[f]
    BY <2>1 DEF Covered
  <2> QED BY <2>11, <2>12, FeedNumbers DEF r
<1>3. Feeds!HealthKeepsUp
    BY <1>2 DEF Feeds!HealthKeepsUp
<1> QED BY <1>1, <1>3 DEF Feeds!FreshnessHolds

\* What a poll of a feed brings: the state of the feed is as new as its file's.
LEMMA ReceivedEffect ==
    ASSUME FeedsInv, NEW f \in Feeds!Feeds, NEW ok \in BOOLEAN, Feeds!Received(f, ok),
           g1' = g1, UNCHANGED g7
    PROVE  /\ g6' \in [Feeds!Feeds -> Int] /\ \A h \in Feeds!Feeds : g6'[h] \in -1 .. g1
           /\ g8' \in [Feeds!Sources -> Int]
           /\ \A s \in Feeds!Sources : g8[s] <= g8'[s] /\ g8'[s] <= g1
           /\ \A h \in Feeds!Feeds : g6'[h] <= g8'[h]
           /\ g7 <= g8'["kalshi"]
           /\ \A h \in Feeds!Feeds \ {f} : g6'[h] = g6[h]
           /\ g12' => g12 /\ g6'[f] = g1
<1>0. f \in Feeds!Sources /\ "kalshi" \in Feeds!Sources /\ f # "kalshi"
      /\ \A h \in Feeds!Feeds : h \in Feeds!Sources
    BY FeedNumbers
<1>1. /\ g1 \in Nat /\ g6 \in [Feeds!Feeds -> Int]
      /\ \A h \in Feeds!Feeds : g6[h] \in -1 .. g1
      /\ g8 \in [Feeds!Sources -> Int] /\ \A s \in Feeds!Sources : g8[s] <= g1
      /\ \A h \in Feeds!Feeds : g6[h] <= g8[h]
      /\ g7 \in -1 .. g1 /\ g7 <= g8["kalshi"]
    BY DEF FeedsInv, TimesInv, LinesInv
<1>2. CASE ok
  <2>1. g8' = [g8 EXCEPT ![f] = g1] /\ g6' = [g6 EXCEPT ![f] = g1]
    BY <1>2 DEF Feeds!Received, Feeds!Record
  <2>2. g12' = (g12 /\ ok)
    BY DEF Feeds!Received
  <2>3. g6' \in [Feeds!Feeds -> Int] /\ g8' \in [Feeds!Sources -> Int]
    BY <1>0, <1>1, <2>1
  <2>4. /\ \A h \in Feeds!Feeds : g6'[h] = IF h = f THEN g1 ELSE g6[h]
        /\ \A s \in Feeds!Sources : g8'[s] = IF s = f THEN g1 ELSE g8[s]
    BY <1>1, <2>1
  <2>5. \A s \in Feeds!Sources : g8[s] <= g8'[s] /\ g8'[s] <= g1
    BY <1>1, <2>4
  <2>6. \A h \in Feeds!Feeds : g6'[h] \in -1 .. g1 /\ g6'[h] <= g8'[h]
    BY <1>0, <1>1, <2>4
  <2> QED BY <1>0, <1>1, <2>2, <2>3, <2>4, <2>5, <2>6
<1>3. CASE ~ok
  <2>1. g8' = g8 /\ g6' = g6 /\ g12' = FALSE
    BY <1>3 DEF Feeds!Received
  <2> QED BY <1>1, <2>1
<1> QED BY <1>2, <1>3

\* What goes to a file was in its buffer.
LEMMA SpillEffect ==
    ASSUME FeedsInv, NEW s \in Feeds!Sources, NEW full, Feeds!Spill(s, full),
           g8' \in [Feeds!Sources -> Int],
           \A x \in Feeds!Sources : g8[x] <= g8'[x]
    PROVE  /\ g9' \in [Feeds!Sources -> Int]
           /\ \A x \in Feeds!Sources : g9[x] <= g9'[x] /\ g9'[x] <= g8'[x] /\ -1 <= g9'[x]
<1>1. /\ g8 \in [Feeds!Sources -> Int] /\ g9 \in [Feeds!Sources -> Int]
      /\ \A x \in Feeds!Sources : -1 <= g9[x] /\ g9[x] <= g8[x]
    BY DEF FeedsInv, LinesInv
<1>2. g9' = [g9 EXCEPT ![s] = g8'[s]] \/ g9' = g9
    BY DEF Feeds!Spill
<1>3. g9' \in [Feeds!Sources -> Int]
    BY <1>1, <1>2
<1>4. \A x \in Feeds!Sources : g9'[x] = g9[x] \/ g9'[x] = g8'[x]
    BY <1>1, <1>2
<1> QED BY <1>1, <1>3, <1>4

\* Rows that are there stay covered, wherever the iteration is.
LEMMA RowsStay ==
    ASSUME FeedsInv, g8' \in [Feeds!Sources -> Int], g9' \in [Feeds!Sources -> Int],
           \A s \in Feeds!Sources : g8[s] <= g8'[s] /\ g9[s] <= g9'[s],
           g11' = g11, g13' = g13
    PROVE  /\ \A t \in Targets : g10[t] # Feeds!NoRow => Covered(g10[t], g8')
           /\ g2 # "flush" => \A t \in Targets : g11[t] # Feeds!NoRow =>
                 t \in g13' \/ Covered(g11'[t], g9')
<1>1. g8 \in [Feeds!Sources -> Int] /\ g9 \in [Feeds!Sources -> Int]
    BY DEF FeedsInv, LinesInv
<1>2. ASSUME NEW t \in Targets, g10[t] # Feeds!NoRow PROVE Covered(g10[t], g8')
  <2>1. IsRow(g10[t]) /\ Covered(g10[t], g8)
    BY <1>2 DEF FeedsInv, RowsInv, Rowed
  <2> QED BY <1>1, <2>1, CoveredByNewer
<1>3. ASSUME g2 # "flush", NEW t \in Targets, g11[t] # Feeds!NoRow, t \notin g13
      PROVE  Covered(g11[t], g9')
  <2>1. IsRow(g11[t]) /\ Covered(g11[t], g9)
    BY <1>3 DEF FeedsInv, RowsInv, Rowed
  <2> QED BY <1>1, <2>1, CoveredByNewer
<1> QED BY <1>2, <1>3

\* The row of the target is built, and it goes on to the next or to the writing.
LEMMA BuildEffect ==
    ASSUME FeedsInv, NEW received, NEW b, NEW snapshot, Feeds!Build(received, snapshot),
           received \in [Feeds!Feeds -> Int],
           \A f \in Feeds!Feeds : received[f] \in -1 .. g1, b \in -1 .. g1,
           snapshot = [quoteAge |-> -1, bookAge |-> -1, sourceTs |-> -1, recv |-> b],
           g8' \in [Feeds!Sources -> Int], g9' \in [Feeds!Sources -> Int],
           \A s \in Feeds!Sources : g8[s] <= g8'[s] /\ g9[s] <= g9'[s],
           b <= g8'["kalshi"], \A f \in Feeds!Feeds : received[f] <= g8'[f],
           g2 # "flush", g11' = g11, g13' = g13
    PROVE  /\ RowsInv' /\ g2' \in {"book", "write"} /\ g3' = g1 /\ g4' \in Targets
           /\ \A t \in Targets : g10'[t] # Feeds!NoRow =>
                 \/ g10'[t] = g10[t]
                 \/ \A f \in Feeds!Feeds : 0 <= received[f] =>
                       g10'[t].feed[f] = g1 - received[f]
<1> DEFINE r == Feeds!Row(received, snapshot)
<1>1. /\ g10' = [g10 EXCEPT ![g4] = r] /\ g3' = g1
      /\ \/ g2' = "book" /\ g4' = g4 + 1 /\ g4 + 1 \in Targets
         \/ g2' = "write" /\ g4' = 1
    BY DEF Feeds!Build, Feeds!Call
<1>2. g4' \in Targets
    BY <1>1, FeedNumbers
<1>3. g1 \in Nat /\ DOMAIN g10 = Targets /\ Rowed(g10) /\ DOMAIN g11 = Targets /\ Rowed(g11)
    BY DEF FeedsInv, TimesInv, RowsInv
<1>4. /\ IsRow(r)
      /\ \A newest : (/\ b <= newest["kalshi"]
                      /\ \A f \in Feeds!Feeds : received[f] <= newest[f]) => Covered(r, newest)
      /\ \A f \in Feeds!Feeds : 0 <= received[f] => r.feed[f] = g1 - received[f]
    BY <1>3, RowOf
<1>5. Covered(r, g8')
    BY <1>4
<1> HIDE DEF r
<1>6. \A t \in Targets : g10'[t] = g10[t] \/ g10'[t] = r
    BY <1>1, <1>3
<1>7. /\ \A t \in Targets : g10[t] # Feeds!NoRow => Covered(g10[t], g8')
      /\ \A t \in Targets : g11[t] # Feeds!NoRow => t \in g13' \/ Covered(g11'[t], g9')
    BY RowsStay
<1>8. DOMAIN g10' = Targets
    BY <1>1, <1>3
<1>9. Rowed(g10) => Rowed(g10)'
    BY <1>4, <1>6 DEF Rowed, IsRow, Feeds!NoRow, Feeds!None, Feeds!Feeds
<1>10. Rowed(g11)'
    BY <1>3 DEF Rowed, IsRow, Feeds!NoRow, Feeds!None, Feeds!Feeds
<1>11. \A t \in Targets : g10'[t] # Feeds!NoRow => Covered(g10'[t], g8')
    BY <1>5, <1>6, <1>7
<1>12. RowsInv'
    BY <1>3, <1>7, <1>8, <1>9, <1>10, <1>11
       DEF RowsInv, Covered, Feeds!NoRow, Feeds!None, Feeds!Feeds
<1> QED BY <1>1, <1>2, <1>4, <1>6, <1>12

LEMMA TimesFacts ==
    FeedsInv =>
        /\ g1 \in Nat /\ g3 \in Nat /\ g3 <= g1 /\ g4 \in Targets
        /\ g5 \in Nat /\ g5 <= g1
        /\ g6 \in [Feeds!Feeds -> Int] /\ \A f \in Feeds!Feeds : g6[f] \in -1 .. g1
        /\ g7 \in -1 .. g1 /\ MaxCall \in Nat
        /\ g2 \notin {"down", "sleep"} => g1 - g3 <= MaxCall
BY FeedNumbers DEF FeedsInv, TimesInv

\* A call begins: what is known of the time.
LEMMA TimeAtCall ==
    ASSUME NEW instant \in Nat, NEW poll \in Nat, poll <= instant, NEW had \in -1 .. instant,
           NEW since, since = instant, NEW last \in {poll, instant}, NEW has \in {had, instant, -1}
    PROVE  /\ since \in Nat /\ since <= instant /\ \A max \in Nat : instant - since <= max
           /\ last \in Nat /\ last <= instant /\ has \in -1 .. instant
OBVIOUS

LEMMA TimesAtCall ==
    ASSUME FeedsInv, g1' = g1, g3' = g1, g4' \in Targets,
           g2' \in {"sleep", "coinbase", "coinbase again", "binance",
                   "binance again", "book", "write", "flush"},
           g5' \in {g5, g1}, g7' \in {g7, g1, -1},
           g6' \in [Feeds!Feeds -> Int], \A f \in Feeds!Feeds : g6'[f] \in -1 .. g1
    PROVE  TimesInv'
<1>1. g1 \in Nat /\ g5 \in Nat /\ g5 <= g1 /\ MaxCall \in Nat /\ g7 \in -1 .. g1
    BY TimesFacts
<1>2. /\ g3' \in Nat /\ g3' <= g1 /\ g1 - g3' <= MaxCall
      /\ g5' \in Nat /\ g5' <= g1 /\ g7' \in -1 .. g1
    BY <1>1, TimeAtCall
<1> QED BY <1>1, <1>2 DEF TimesInv, Feeds!Feeds

\* The rows as they are, while nothing is built, written or flushed.
LEMMA RowsKept ==
    ASSUME FeedsInv, UNCHANGED <<g10, g11, g13>>, g2 # "flush",
           g8' \in [Feeds!Sources -> Int], g9' \in [Feeds!Sources -> Int],
           \A s \in Feeds!Sources : g8[s] <= g8'[s] /\ g9[s] <= g9'[s]
    PROVE  RowsInv'
<1>1. /\ \A t \in Targets : g10[t] # Feeds!NoRow => Covered(g10[t], g8')
      /\ \A t \in Targets : g11[t] # Feeds!NoRow => t \in g13' \/ Covered(g11'[t], g9')
    BY RowsStay
<1>2. DOMAIN g10' = Targets /\ DOMAIN g11' = Targets /\ Rowed(g10)' /\ Rowed(g11)'
    BY DEF FeedsInv, RowsInv, Rowed, IsRow, Feeds!NoRow, Feeds!None, Feeds!Feeds
<1> QED BY <1>1, <1>2 DEF RowsInv, Covered, Feeds!NoRow, Feeds!None, Feeds!Feeds

LEMMA BeginStep == FeedsInv /\ Feeds!Begin => FeedsInv'
<1> SUFFICES ASSUME FeedsInv, Feeds!Begin PROVE FeedsInv'
    OBVIOUS
<1>1. /\ g2 \in {"down", "sleep"} /\ g2' = "coinbase" /\ g3' = g1 /\ g4' = 1
      /\ g10' = [t \in Targets |-> Feeds!NoRow]
      /\ UNCHANGED <<g1, g5, g6, g7, g8, g9, g11, g12, g13>>
    BY DEF Feeds!Begin, Feeds!Call, Feeds!history
<1>2. TimesInv'
    BY <1>1, TimesFacts, TimesAtCall, FeedNumbers
<1>3. LinesInv'
    BY <1>1 DEF FeedsInv, LinesInv, Feeds!Feeds, Feeds!Sources
<1>4. \A t \in Targets : g10'[t] = Feeds!NoRow
    BY <1>1
<1>5. DOMAIN g10' = Targets /\ DOMAIN g11' = Targets /\ Rowed(g10)' /\ Rowed(g11)'
    BY <1>1, <1>4 DEF FeedsInv, RowsInv, Rowed, IsRow, Feeds!NoRow, Feeds!None, Feeds!Feeds
<1>6. \A t \in Targets : g11[t] # Feeds!NoRow => t \in g13 \/ Covered(g11[t], g9)
    BY <1>1 DEF FeedsInv, RowsInv
<1>7. RowsInv'
    BY <1>1, <1>4, <1>5, <1>6 DEF RowsInv, Covered, Feeds!NoRow, Feeds!None, Feeds!Feeds
<1>8. AnswersInv'
    BY <1>1, <1>4 DEF FeedsInv, AnswersInv, Feeds!NoRow, Feeds!None, Feeds!Feeds
<1> QED BY <1>2, <1>3, <1>7, <1>8 DEF FeedsInv

LEMMA PollsStep ==
    ASSUME FeedsInv, NEW ok \in BOOLEAN, NEW full \in BOOLEAN,
           Feeds!PollCoinbase(ok, full) \/ Feeds!PollBinance(ok, full)
    PROVE  FeedsInv'
<1> DEFINE f == IF g2 = "binance" THEN "binance" ELSE "coinbase"
<1>1. /\ Feeds!Received(f, ok) /\ Feeds!Spill(f, full) /\ g3' = g1
      /\ UNCHANGED <<g1, g4, g7, g10, g11, g13>>
      /\ \/ g2 = "coinbase" /\ g2' = "binance" /\ UNCHANGED g5
         \/ g2 = "coinbase again" /\ g2' = "binance again" /\ UNCHANGED g5
         \/ g2 = "binance" /\ g2' = "book" /\ g5' = g1
    BY DEF Feeds!PollCoinbase, Feeds!PollBinance, Feeds!Call
<1>2. f \in Feeds!Feeds /\ f \in Feeds!Sources
    BY FeedNumbers
<1>3. /\ g6' \in [Feeds!Feeds -> Int] /\ \A h \in Feeds!Feeds : g6'[h] \in -1 .. g1
      /\ g8' \in [Feeds!Sources -> Int]
      /\ \A s \in Feeds!Sources : g8[s] <= g8'[s] /\ g8'[s] <= g1
      /\ \A h \in Feeds!Feeds : g6'[h] <= g8'[h]
      /\ g7 <= g8'["kalshi"]
      /\ \A h \in Feeds!Feeds \ {f} : g6'[h] = g6[h]
      /\ g12' => g12 /\ g6'[f] = g1
    BY <1>1, <1>2, ReceivedEffect
<1>4. /\ g9' \in [Feeds!Sources -> Int]
      /\ \A x \in Feeds!Sources : g9[x] <= g9'[x] /\ g9'[x] <= g8'[x] /\ -1 <= g9'[x]
    BY <1>1, <1>2, <1>3, SpillEffect
<1>5. TimesInv'
    BY <1>1, <1>3, TimesFacts, TimesAtCall
<1>6. LinesInv'
    BY <1>1, <1>3, <1>4 DEF FeedsInv, LinesInv, Feeds!Feeds, Feeds!Sources
<1>7. RowsInv'
    BY <1>1, <1>3, <1>4, RowsKept
<1>8. AnswersInv'
  <2>1. SUFFICES ASSUME g12'
                 PROVE  /\ g2' \in {"binance", "binance again"} => g6'["coinbase"] = g3'
                        /\ g2' = "binance again" => g5' <= g3'
                        /\ g2' = "book" => \A h \in {"coinbase", "binance"} :
                              0 <= g6'[h] /\ g5' - MaxCall <= g6'[h]
                        /\ \A t \in Targets : g10[t] # Feeds!NoRow =>
                              \A h \in Feeds!Feeds : g10[t].feed[h] \in 0 .. Interval - 1 + MaxCall
    BY <1>1, FeedNumbers DEF AnswersInv, Feeds!NoRow, Feeds!None, Feeds!Feeds
  <2>2. g12 /\ g6'[f] = g1
    BY <1>3, <2>1
  <2>3. g1 \in Nat /\ g5 <= g1 /\ g5 \in Nat /\ MaxCall \in Nat /\ g3 \in Nat
    BY FeedNumbers DEF FeedsInv, TimesInv
  <2>4. g2' \in {"binance", "binance again"} => g6'["coinbase"] = g3'
    BY <1>1, <2>2
  <2>5. g2' = "binance again" => g5' <= g3'
    BY <1>1, <2>3
  <2>6. ASSUME g2' = "book"
        PROVE  \A h \in {"coinbase", "binance"} : 0 <= g6'[h] /\ g5' - MaxCall <= g6'[h]
    <3>1. g2 = "binance" /\ g5' = g1 /\ g1 - g3 <= MaxCall
      BY <1>1, <2>6 DEF FeedsInv, TimesInv
    <3>2. g6'["binance"] = g1
      BY <2>2, <3>1
    <3>3. g6'["coinbase"] = g3
      <4>1. g6["coinbase"] = g3
        BY <2>2, <3>1 DEF FeedsInv, AnswersInv
      <4>2. g6'["coinbase"] = g6["coinbase"]
        BY <1>3, <3>1, FeedNumbers
      <4> QED BY <4>1, <4>2
    <3> QED BY <2>3, <3>1, <3>2, <3>3
  <2>7. \A t \in Targets : g10[t] # Feeds!NoRow =>
          \A h \in Feeds!Feeds : g10[t].feed[h] \in 0 .. Interval - 1 + MaxCall
    BY <2>2 DEF FeedsInv, AnswersInv
  <2> QED BY <2>4, <2>5, <2>6, <2>7
<1> QED BY <1>5, <1>6, <1>7, <1>8 DEF FeedsInv

LEMMA BookArrivesStep ==
    ASSUME FeedsInv, NEW full \in BOOLEAN, Feeds!BookArrives(full)
    PROVE  FeedsInv'
<1> DEFINE snapshot == [Feeds!Snapshot EXCEPT !.recv = g1]
<1>1. /\ g2 = "book" /\ g7' = g1 /\ g8' = [g8 EXCEPT !["kalshi"] = g1]
      /\ Feeds!Spill("kalshi", full)
      /\ UNCHANGED <<g1, g6, g11, g12, g13>>
      /\ \/ /\ g5' = g1 /\ g2' = "coinbase again" /\ g3' = g1
            /\ UNCHANGED <<g10, g4>>
         \/ ~Feeds!Due /\ Feeds!Build(g6, snapshot) /\ UNCHANGED g5
    BY DEF Feeds!BookArrives, Feeds!Record, Feeds!Call, Feeds!history
<1>2. snapshot = [quoteAge |-> -1, bookAge |-> -1, sourceTs |-> -1, recv |-> g1]
    BY FeedNumbers DEF Feeds!Snapshot
<1> HIDE DEF snapshot
<1>3. /\ g1 \in Nat /\ g1 \in -1 .. g1 /\ g6 \in [Feeds!Feeds -> Int]
      /\ \A f \in Feeds!Feeds : g6[f] \in -1 .. g1
      /\ g8 \in [Feeds!Sources -> Int] /\ \A s \in Feeds!Sources : g8[s] <= g1
      /\ \A f \in Feeds!Feeds : g6[f] <= g8[f]
    BY TimesFacts DEF FeedsInv, LinesInv
<1>4. /\ g8' \in [Feeds!Sources -> Int]
      /\ \A s \in Feeds!Sources : g8'[s] = IF s = "kalshi" THEN g1 ELSE g8[s]
  <2>1. g1 \in Int
    BY <1>3
  <2> QED BY <1>1, <1>3, <2>1
<1>5. /\ \A s \in Feeds!Sources : g8[s] <= g8'[s] /\ g8'[s] <= g1
      /\ g1 <= g8'["kalshi"]
      /\ \A f \in Feeds!Feeds : g6[f] <= g8'[f]
    BY <1>3, <1>4, FeedNumbers
<1>6. /\ g9' \in [Feeds!Sources -> Int]
      /\ \A x \in Feeds!Sources : g9[x] <= g9'[x] /\ g9'[x] <= g8'[x] /\ -1 <= g9'[x]
    BY <1>1, <1>4, <1>5, SpillEffect, FeedNumbers
<1>7. LinesInv'
    BY <1>1, <1>3, <1>4, <1>5, <1>6 DEF LinesInv, Feeds!Feeds, Feeds!Sources
<1>8. CASE g5' = g1 /\ g2' = "coinbase again" /\ g3' = g1 /\ UNCHANGED <<g10, g4>>
  <2>1. TimesInv'
    BY <1>1, <1>3, <1>8, TimesFacts, TimesAtCall
  <2>2. RowsInv'
    BY <1>1, <1>4, <1>5, <1>6, <1>8, RowsKept
  <2>3. AnswersInv'
    BY <1>1, <1>8 DEF FeedsInv, AnswersInv, Feeds!NoRow, Feeds!None, Feeds!Feeds
  <2> QED BY <1>7, <2>1, <2>2, <2>3 DEF FeedsInv
<1>9. CASE ~Feeds!Due /\ Feeds!Build(g6, snapshot) /\ UNCHANGED g5
  <2>1. /\ RowsInv' /\ g2' \in {"book", "write"} /\ g3' = g1 /\ g4' \in Targets
        /\ \A t \in Targets : g10'[t] # Feeds!NoRow =>
              \/ g10'[t] = g10[t]
              \/ \A f \in Feeds!Feeds : 0 <= g6[f] => g10'[t].feed[f] = g1 - g6[f]
    BY <1>1, <1>2, <1>3, <1>4, <1>5, <1>6, <1>9, BuildEffect
  <2>2. TimesInv'
    BY <1>1, <1>3, <1>9, <2>1, TimesFacts, TimesAtCall
  <2>3. AnswersInv'
    <3> SUFFICES ASSUME g12
                 PROVE  /\ \A f \in Feeds!Feeds : 0 <= g6[f] /\ g5 - MaxCall <= g6[f]
                        /\ \A t \in Targets : g10'[t] # Feeds!NoRow =>
                              \A f \in Feeds!Feeds :
                                 g10'[t].feed[f] \in 0 .. Interval - 1 + MaxCall
      BY <1>1, <1>9, <2>1 DEF AnswersInv, Feeds!NoRow, Feeds!None, Feeds!Feeds
    <3>1. \A f \in Feeds!Feeds : 0 <= g6[f] /\ g5 - MaxCall <= g6[f]
      BY <1>1 DEF FeedsInv, AnswersInv
    <3>2. g1 \in Nat /\ g5 \in Nat /\ MaxCall \in Nat /\ Interval \in Nat /\ ~(g1 - g5 >= Interval)
      BY <1>3, <1>9, FeedNumbers DEF FeedsInv, TimesInv, Feeds!Due
    <3>3. \A f \in Feeds!Feeds : g1 - g6[f] \in 0 .. Interval - 1 + MaxCall
      BY <1>3, <3>1, <3>2
    <3>4. \A t \in Targets : g10[t] # Feeds!NoRow =>
            \A f \in Feeds!Feeds : g10[t].feed[f] \in 0 .. Interval - 1 + MaxCall
      BY DEF FeedsInv, AnswersInv
    <3> QED BY <2>1, <3>1, <3>3, <3>4
  <2> QED BY <1>7, <2>1, <2>2, <2>3 DEF FeedsInv
<1> QED BY <1>1, <1>8, <1>9

LEMMA BookFailsStep == FeedsInv /\ Feeds!BookFails => FeedsInv'
<1> SUFFICES ASSUME FeedsInv, Feeds!BookFails PROVE FeedsInv'
    OBVIOUS
<1>1. /\ g2 = "book" /\ g3' = g1 /\ g2' \in {"book", "write"} /\ g4' \in Targets
      /\ UNCHANGED <<g1, g5, g6, g7, g8, g9, g10, g11, g12, g13>>
    BY FeedNumbers DEF Feeds!BookFails, Feeds!Call
<1>2. TimesInv'
    BY <1>1, TimesFacts, TimesAtCall
<1>3. LinesInv'
    BY <1>1 DEF FeedsInv, LinesInv, Feeds!Feeds, Feeds!Sources
<1>4. g8 \in [Feeds!Sources -> Int] /\ g9 \in [Feeds!Sources -> Int]
    BY DEF FeedsInv, LinesInv
<1>5. \A s \in Feeds!Sources : g8[s] <= g8'[s] /\ g9[s] <= g9'[s]
    BY <1>1, <1>4
<1>6. RowsInv'
    BY <1>1, <1>4, <1>5, RowsKept
<1>7. AnswersInv'
    BY <1>1 DEF FeedsInv, AnswersInv, Feeds!NoRow, Feeds!None, Feeds!Feeds
<1> QED BY <1>2, <1>3, <1>6, <1>7 DEF FeedsInv

LEMMA PollAgainStep ==
    ASSUME FeedsInv, NEW ok \in BOOLEAN, Feeds!PollBinanceAgain(ok)
    PROVE  FeedsInv'
<1>1. /\ g2 = "binance again" /\ Feeds!Received("binance", ok) /\ g9' = g8'
      /\ Feeds!Build(g6', Feeds!Snapshot) /\ UNCHANGED <<g1, g5, g7, g11, g13>>
    BY DEF Feeds!PollBinanceAgain
<1>2. Feeds!Snapshot = [quoteAge |-> -1, bookAge |-> -1, sourceTs |-> -1, recv |-> g7]
    BY FeedNumbers DEF Feeds!Snapshot
<1>3. /\ g1 \in Nat /\ g7 \in -1 .. g1 /\ g8 \in [Feeds!Sources -> Int]
      /\ \A s \in Feeds!Sources : -1 <= g9[s] /\ g9[s] <= g8[s]
      /\ g9 \in [Feeds!Sources -> Int]
    BY DEF FeedsInv, TimesInv, LinesInv
<1>4. /\ g6' \in [Feeds!Feeds -> Int] /\ \A h \in Feeds!Feeds : g6'[h] \in -1 .. g1
      /\ g8' \in [Feeds!Sources -> Int]
      /\ \A s \in Feeds!Sources : g8[s] <= g8'[s] /\ g8'[s] <= g1
      /\ \A h \in Feeds!Feeds : g6'[h] <= g8'[h]
      /\ g7 <= g8'["kalshi"]
      /\ \A h \in Feeds!Feeds \ {"binance"} : g6'[h] = g6[h]
      /\ g12' => g12 /\ g6'["binance"] = g1
    BY <1>1, ReceivedEffect, FeedNumbers
<1>5. /\ g9' \in [Feeds!Sources -> Int]
      /\ \A s \in Feeds!Sources : g9[s] <= g9'[s] /\ -1 <= g9'[s] /\ g9'[s] <= g8'[s]
  <2>1. \A s \in Feeds!Sources : g8[s] \in Int /\ g9[s] \in Int /\ g8'[s] \in Int
    BY <1>3, <1>4
  <2>2. \A s \in Feeds!Sources : g9[s] <= g8[s] /\ g8[s] <= g8'[s] /\ -1 <= g9[s]
    BY <1>3, <1>4
  <2>3. \A s \in Feeds!Sources : g9[s] <= g8'[s] /\ -1 <= g8'[s] /\ g8'[s] <= g8'[s]
    BY <2>1, <2>2
  <2> QED BY <1>1, <1>4, <2>3
<1>6. /\ RowsInv' /\ g2' \in {"book", "write"} /\ g3' = g1 /\ g4' \in Targets
      /\ \A t \in Targets : g10'[t] # Feeds!NoRow =>
            \/ g10'[t] = g10[t]
            \/ \A f \in Feeds!Feeds : 0 <= g6'[f] => g10'[t].feed[f] = g1 - g6'[f]
    BY <1>1, <1>2, <1>3, <1>4, <1>5, BuildEffect
<1>7. LinesInv'
    BY <1>1, <1>4, <1>5 DEF LinesInv, Feeds!Feeds, Feeds!Sources
<1>8. TimesInv'
    BY <1>1, <1>3, <1>4, <1>6, TimesFacts, TimesAtCall
<1>9. AnswersInv'
  <2> SUFFICES ASSUME g12'
               PROVE  /\ \A f \in Feeds!Feeds : 0 <= g6'[f] /\ g5 - MaxCall <= g6'[f]
                      /\ \A t \in Targets : g10'[t] # Feeds!NoRow =>
                            \A f \in Feeds!Feeds :
                               g10'[t].feed[f] \in 0 .. Interval - 1 + MaxCall
    BY <1>1, <1>6 DEF AnswersInv, Feeds!NoRow, Feeds!None, Feeds!Feeds
  <2>1. g12 /\ g6'["binance"] = g1
    BY <1>4
  <2>2. g6'["coinbase"] = g3 /\ g5 <= g3
    <3>1. g6["coinbase"] = g3 /\ g5 <= g3
      BY <1>1, <2>1 DEF FeedsInv, AnswersInv
    <3>2. g6'["coinbase"] = g6["coinbase"]
      BY <1>4, FeedNumbers
    <3> QED BY <3>1, <3>2
  <2>3. /\ g3 \in Nat /\ g3 <= g1 /\ g5 \in Nat /\ g1 - g3 <= MaxCall
        /\ MaxCall \in Nat /\ Interval \in Nat /\ Interval > 0
    BY <1>1, FeedNumbers DEF FeedsInv, TimesInv
  <2>4. \A f \in {"coinbase", "binance"} :
          0 <= g6'[f] /\ g5 - MaxCall <= g6'[f] /\ g1 - g6'[f] \in 0 .. Interval - 1 + MaxCall
    BY <1>3, <2>1, <2>2, <2>3
  <2>5. \A t \in Targets : g10[t] # Feeds!NoRow =>
          \A f \in Feeds!Feeds : g10[t].feed[f] \in 0 .. Interval - 1 + MaxCall
    BY <2>1 DEF FeedsInv, AnswersInv
  <2>6. \A f \in Feeds!Feeds :
          0 <= g6'[f] /\ g5 - MaxCall <= g6'[f] /\ g1 - g6'[f] \in 0 .. Interval - 1 + MaxCall
    BY <2>4, FeedNumbers
  <2> QED BY <1>6, <2>5, <2>6
<1> QED BY <1>6, <1>7, <1>8, <1>9 DEF FeedsInv

LEMMA WriteStep == FeedsInv /\ Feeds!WriteFeatures => FeedsInv'
<1> SUFFICES ASSUME FeedsInv, Feeds!WriteFeatures PROVE FeedsInv'
    OBVIOUS
<1>1. /\ g2 = "write" /\ g2' = "flush" /\ g3' = g1
      /\ g11' = [t \in Targets |-> IF g10[t] = Feeds!NoRow THEN g11[t] ELSE g10[t]]
      /\ g13' = {t \in g13 : g10[t] = Feeds!NoRow}
      /\ UNCHANGED <<g1, g4, g5, g6, g7, g8, g9, g10, g12>>
    BY DEF Feeds!WriteFeatures, Feeds!Call
<1>2. TimesInv'
    BY <1>1, TimesFacts, TimesAtCall
<1>3. LinesInv'
    BY <1>1 DEF FeedsInv, LinesInv, Feeds!Feeds, Feeds!Sources
<1>4. /\ \A t \in Targets : g10[t] # Feeds!NoRow => Covered(g10[t], g8)
      /\ \A t \in Targets : g11[t] # Feeds!NoRow => t \in g13 \/ Covered(g11[t], g9)
      /\ DOMAIN g10 = Targets /\ Rowed(g10) /\ Rowed(g11)
    BY <1>1 DEF FeedsInv, RowsInv
<1>5. \A t \in Targets : g11'[t] = IF g10[t] = Feeds!NoRow THEN g11[t] ELSE g10[t]
    BY <1>1
<1>6. DOMAIN g10' = Targets /\ DOMAIN g11' = Targets /\ Rowed(g10)' /\ Rowed(g11)'
    BY <1>1, <1>4, <1>5 DEF Rowed, IsRow, Feeds!NoRow, Feeds!None, Feeds!Feeds
<1>7. \A t \in Targets : g11'[t] # Feeds!NoRow =>
        \/ t \in g13' \/ Covered(g11'[t], g9)
        \/ g10[t] # Feeds!NoRow /\ Covered(g11'[t], g8)
    BY <1>1, <1>4, <1>5
<1>8. RowsInv'
    BY <1>1, <1>4, <1>6, <1>7 DEF RowsInv, Covered, Feeds!NoRow, Feeds!None, Feeds!Feeds
<1>9. AnswersInv'
    BY <1>1 DEF FeedsInv, AnswersInv, Feeds!NoRow, Feeds!None, Feeds!Feeds
<1> QED BY <1>2, <1>3, <1>8, <1>9 DEF FeedsInv

LEMMA FlushStep == FeedsInv /\ Feeds!Flush => FeedsInv'
<1> SUFFICES ASSUME FeedsInv, Feeds!Flush PROVE FeedsInv'
    OBVIOUS
<1>1. /\ g2 = "flush" /\ g2' = "sleep" /\ g3' = g1 /\ g9' = g8
      /\ g10' = [t \in Targets |-> Feeds!NoRow] /\ g7' = -1
      /\ UNCHANGED <<g1, g4, g5, g6, g8, g11, g12, g13>>
    BY FeedNumbers DEF Feeds!Flush, Feeds!Call, Feeds!history
<1>2. TimesInv'
    BY <1>1, TimesFacts, TimesAtCall
<1>3. /\ g8 \in [Feeds!Sources -> Int] /\ g9 \in [Feeds!Sources -> Int]
      /\ \A s \in Feeds!Sources : -1 <= g9[s] /\ g9[s] <= g8[s] /\ g8[s] <= g1
      /\ \A f \in Feeds!Feeds : g6[f] <= g8[f]
    BY DEF FeedsInv, LinesInv
<1>4. \A s \in Feeds!Sources : -1 <= g8[s] /\ g8[s] <= g8[s]
    BY <1>3
<1>5. LinesInv'
    BY <1>1, <1>3, <1>4, FeedNumbers DEF LinesInv, Feeds!Feeds, Feeds!Sources
<1>6. ASSUME NEW t \in Targets, g11[t] # Feeds!NoRow, t \notin g13
      PROVE  Covered(g11[t], g8)
  <2>1. IsRow(g11[t]) /\ (Covered(g11[t], g9) \/ Covered(g11[t], g8))
    BY <1>6 DEF FeedsInv, RowsInv, Rowed
  <2> QED BY <1>3, <2>1, CoveredByNewer
<1>7. \A t \in Targets : g10'[t] = Feeds!NoRow
    BY <1>1
<1>8. DOMAIN g10' = Targets /\ DOMAIN g11' = Targets /\ Rowed(g10)' /\ Rowed(g11)'
    BY <1>1, <1>7 DEF FeedsInv, RowsInv, Rowed, IsRow, Feeds!NoRow, Feeds!None, Feeds!Feeds
<1>9. RowsInv'
    BY <1>1, <1>6, <1>7, <1>8 DEF RowsInv, Covered, Feeds!NoRow, Feeds!None, Feeds!Feeds
<1>10. AnswersInv'
    BY <1>1, <1>7 DEF FeedsInv, AnswersInv, Feeds!NoRow, Feeds!None, Feeds!Feeds
<1> QED BY <1>2, <1>5, <1>9, <1>10 DEF FeedsInv

LEMMA CrashStep == FeedsInv /\ Feeds!Crash => FeedsInv'
<1> SUFFICES ASSUME FeedsInv, Feeds!Crash PROVE FeedsInv'
    OBVIOUS
<1>1. /\ g2' = "down" /\ g3' = g1 /\ g4' = 1 /\ g5' = 0
      /\ g6' = [f \in Feeds!Feeds |-> -1] /\ g7' = -1
      /\ g10' = [t \in Targets |-> Feeds!NoRow]
      /\ g8' = g9 /\ g13' = IF g2 = "flush"
                            THEN g13 \cup {t \in Targets : g10[t] # Feeds!NoRow} ELSE g13
      /\ UNCHANGED <<g1, g9, g11>>
    BY FeedNumbers DEF Feeds!Crash, Feeds!ForgetAll
<1>2. TimesInv'
  <2>1. /\ \A f \in Feeds!Feeds : g6'[f] \in -1 .. g1
        /\ g7' \in -1 .. g1 /\ g1 \in Nat /\ 0 <= g1 /\ g1 <= g1
    BY <1>1, TimesFacts
  <2>2. g6' \in [Feeds!Feeds -> Int] /\ 1 \in Targets
    BY <1>1, FeedNumbers
  <2> QED BY <1>1, <2>1, <2>2 DEF TimesInv, Feeds!Feeds
<1>3. /\ g8 \in [Feeds!Sources -> Int] /\ g9 \in [Feeds!Sources -> Int]
      /\ \A s \in Feeds!Sources : -1 <= g9[s] /\ g9[s] <= g8[s] /\ g8[s] <= g1
      /\ g1 \in Nat
    BY TimesFacts DEF FeedsInv, LinesInv
<1>4. \A s \in Feeds!Sources : -1 <= g9[s] /\ g9[s] <= g1 /\ g9[s] <= g9[s]
    BY <1>3
<1>5. LinesInv'
    BY <1>1, <1>3, <1>4, FeedNumbers DEF LinesInv, Feeds!Feeds, Feeds!Sources
<1>6. \A t \in Targets : g11[t] # Feeds!NoRow => t \in g13' \/ Covered(g11[t], g9)
    BY <1>1 DEF FeedsInv, RowsInv
<1>7. \A t \in Targets : g10'[t] = Feeds!NoRow
    BY <1>1
<1>8. DOMAIN g10' = Targets /\ DOMAIN g11' = Targets /\ Rowed(g10)' /\ Rowed(g11)'
    BY <1>1, <1>7 DEF FeedsInv, RowsInv, Rowed, IsRow, Feeds!NoRow, Feeds!None, Feeds!Feeds
<1>9. RowsInv'
    BY <1>1, <1>6, <1>7, <1>8 DEF RowsInv, Covered, Feeds!NoRow, Feeds!None, Feeds!Feeds
<1>10. AnswersInv'
    BY <1>1, <1>7 DEF AnswersInv, Feeds!NoRow, Feeds!None, Feeds!Feeds
<1> QED BY <1>2, <1>5, <1>9, <1>10 DEF FeedsInv

LEMMA FeedTickStep == FeedsInv /\ Feeds!Tick => FeedsInv'
<1> SUFFICES ASSUME FeedsInv, Feeds!Tick PROVE FeedsInv'
    OBVIOUS
<1>1. /\ g1' = g1 + 1
      /\ g2 \in {"down", "sleep"} \/ (g2 \notin {"write", "flush"} /\ g1 - g3 < MaxCall)
      /\ UNCHANGED <<g2, g3, g4, g5, g6, g7, g8, g9, g10, g11, g12, g13>>
    BY DEF Feeds!Tick, Feeds!history
<1>2. /\ g1 \in Nat /\ g3 \in Nat /\ g3 <= g1 /\ g4 \in Targets
      /\ g5 \in Nat /\ g5 <= g1
      /\ g6 \in [Feeds!Feeds -> Int] /\ \A f \in Feeds!Feeds : g6[f] \in -1 .. g1
      /\ g7 \in -1 .. g1 /\ MaxCall \in Nat
    BY TimesFacts
<1>3. TimesInv'
  <2>1. g1' \in Nat /\ g3' \in Nat /\ g3' <= g1' /\ g4' \in Targets
    BY <1>1, <1>2
  <2>2. g2' \notin {"down", "sleep"} => g1' - g3' <= MaxCall
    BY <1>1, <1>2
  <2>3. g5' \in Nat /\ g5' <= g1' /\ g7' \in -1 .. g1'
    BY <1>1, <1>2
  <2>4. \A f \in Feeds!Feeds : g6'[f] \in -1 .. g1'
    BY <1>1, <1>2
  <2>5. g2' \in {"down", "sleep", "coinbase", "coinbase again", "binance",
                 "binance again", "book", "write", "flush"}
    BY <1>1 DEF FeedsInv, TimesInv
  <2> QED BY <1>1, <1>2, <2>1, <2>2, <2>3, <2>4, <2>5 DEF TimesInv, Feeds!Feeds
<1>4. LinesInv'
  <2>1. \A s \in Feeds!Sources : g8[s] <= g1 /\ g8[s] \in Int
    BY DEF FeedsInv, LinesInv
  <2>2. \A s \in Feeds!Sources : g8[s] <= g1 + 1
    BY <1>2, <2>1
  <2> QED BY <1>1, <2>2 DEF FeedsInv, LinesInv, Feeds!Feeds, Feeds!Sources
<1>5. RowsInv'
    BY <1>1 DEF FeedsInv, RowsInv, Rowed, IsRow, Covered, Feeds!NoRow, Feeds!None, Feeds!Feeds
<1>6. AnswersInv'
    BY <1>1 DEF FeedsInv, AnswersInv, Feeds!NoRow, Feeds!None, Feeds!Feeds
<1> QED BY <1>3, <1>4, <1>5, <1>6 DEF FeedsInv

LEMMA FeedsInvStep == FeedsInv /\ [Feeds!Next]_feedVars => FeedsInv'
<1> SUFFICES ASSUME FeedsInv, [Feeds!Next]_feedVars PROVE FeedsInv'
    OBVIOUS
<1>1. CASE UNCHANGED feedVars
  <2>1. UNCHANGED <<g1, g2, g3, g4, g5, g6, g7, g8, g9, g10, g11, g12, g13>>
    BY <1>1 DEF feedVars
  <2>2. TimesInv'
    BY <2>1 DEF FeedsInv, TimesInv, Feeds!Feeds
  <2>3. LinesInv'
    BY <2>1 DEF FeedsInv, LinesInv, Feeds!Feeds, Feeds!Sources
  <2>4. RowsInv'
    BY <2>1 DEF FeedsInv, RowsInv, Rowed, IsRow, Covered, Feeds!NoRow, Feeds!None, Feeds!Feeds
  <2>5. AnswersInv'
    BY <2>1 DEF FeedsInv, AnswersInv, Feeds!NoRow, Feeds!None, Feeds!Feeds
  <2> QED BY <2>2, <2>3, <2>4, <2>5 DEF FeedsInv
<1>2. CASE Feeds!Next
  <2>1. CASE \E ok, full \in BOOLEAN : Feeds!PollCoinbase(ok, full) \/ Feeds!PollBinance(ok, full)
    BY <2>1, PollsStep
  <2>2. CASE \E full \in BOOLEAN : Feeds!BookArrives(full)
    BY <2>2, BookArrivesStep
  <2>3. CASE \E ok \in BOOLEAN : Feeds!PollBinanceAgain(ok)
    BY <2>3, PollAgainStep
  <2> QED BY <1>2, <2>1, <2>2, <2>3, BeginStep, BookFailsStep, WriteStep, FlushStep,
             CrashStep, FeedTickStep DEF Feeds!Next
<1> QED BY <1>1, <1>2
-----------------------------------------------------------------------------
(* Feature rows and the decisions on them (FeatureRows).                    *)

rowVars == <<g1, g2, g3, g4, g5, g6, g7, g8, g9, g10, g11, g12, g13>>

\* In a list of what was received: the polls of Deribit by a time, and the last.
PollsBy(list, t) == {i \in DOMAIN list : list[i].feed = "deribit" /\ list[i].at <= t}
IsLastBy(list, k, t) == k \in PollsBy(list, t) /\ \A i \in PollsBy(list, t) : i <= k
\* The newest of the snapshots is that of the last poll, and no other is as new.
PollInv ==
    /\ g1 \in Nat /\ g3 \in BOOLEAN
    /\ g13 \in Seq(ToSet(g13)) /\ g6 \in Seq(ToSet(g6))
    /\ \A i \in DOMAIN g13 : g13[i].at \in 0 .. g1
    /\ g7 = -1 => g6 = <<>>
    /\ g7 # -1 =>
          /\ g7 \in 0 .. g1 /\ g6 # <<>> /\ g6[Len(g6)].at = g7
          /\ \A i \in 1 .. Len(g6) - 1 : g6[i].at \in Int /\ g6[i].at < g7
          /\ \E k \in DOMAIN g13 : IsLastBy(g13, k, g1) /\ g13[k] = g6[Len(g6)]
\* The row is of this time only if the iteration of this time was made, and its
\* context is of the last poll before it.
ContextInv ==
    g10 # RowPart!NoRow =>
        /\ g10.asOf \in 0 .. g1 /\ (g3 => g10.asOf < g1)
        /\ g10.deribit.used /\ g10.deribit.age \in 0 .. Rows.deribitEvery - 1
        /\ \E k \in DOMAIN g13 :
              /\ IsLastBy(g13, k, g10.asOf) /\ g13[k].at = g10.asOf - g10.deribit.age
              /\ g10.deribit.missing = "none" <=> g13[k].got # {}
\* A decision is of the row it was made on; one to act is made before the close,
\* and for as much as is offered.
Decisive(d, row) ==
    /\ d.at = row.asOf
    /\ d.side \in {"none", "YES", "NO"}
    /\ d.side # "none" => d.fill <= RowPart!Depths(row.book)[d.side]
    /\ d.state \in {"MANUAL_REVIEW", "PAPER_CANDIDATE"} =>
          /\ d.side # "none" /\ d.at < Rows.closes
          /\ RowPart!Edge(row.book, IF d.side = "YES" THEN "NO" ELSE "YES", d.chance) < 0
    /\ d.state = "PAPER_CANDIDATE" =>
          d.fill > 0 \/ RowPart!Depths(row.book)[d.side] = 0
DecidedInv ==
    /\ g11 \in Seq(ToSet(g11))
    /\ g11 # <<>> => g10 # RowPart!NoRow /\ Decisive(g11[Len(g11)], g10)
\* What the end of a cycle leaves stands until another begins.
ClosingInv ==
    /\ g2.kind # "down" => g12 = RowPart!NoClosing
    /\ RowPart!LedgerTellsTheEnd
RowPartInv == PollInv /\ ContextInv /\ DecidedInv /\ ClosingInv

LEMMA RowNumbers ==
    /\ Rows.deribitEvery \in Nat /\ Rows.deribitEvery > 0 /\ Rows.maxSnapshots \in Nat
    /\ Rows.maxSnapshots > 0 /\ Rows.minEdge \in Nat /\ Rows.minEdge > 0
    /\ Rows.orderSize \in Nat /\ Rows.orderSize > 0 /\ Rows.closes \in Nat
    /\ Rows.deribitLimit \in Nat /\ Rows.deribitEvery <= Rows.deribitLimit
    /\ RowPart!None = -1 /\ RowPart!NoRow = [asOf |-> -1]
BY RowsConstants DEF RowPart!None, RowPart!NoRow

LEMMA RowIsNone == ASSUME NEW r, r.asOf \in Nat PROVE r # RowPart!NoRow
BY RowNumbers

\* It begins with nothing polled, and a process with nothing in memory.
LEMMA RowPartBegins ==
    ASSUME g1 \in Nat, g3 \in BOOLEAN, g13 = <<>>, g6 = <<>>, g7 = -1,
           g10 = RowPart!NoRow, g11 = <<>>, g12 = RowPart!NoClosing
    PROVE  RowPartInv
<1>1. DOMAIN g13 = {}
    OBVIOUS
<1>2. <<>> \in Seq(ToSet(<<>>))
    OBVIOUS
<1>3. PollInv
    BY <1>1, <1>2 DEF PollInv
<1>4. ContextInv
    BY DEF ContextInv
<1>5. DecidedInv
    BY <1>2 DEF DecidedInv
<1>6. ClosingInv
    BY DEF ClosingInv, RowPart!LedgerTellsTheEnd
<1> QED BY <1>3, <1>4, <1>5, <1>6 DEF RowPartInv

LEMMA RowPartInvInit == ASSUME NEW play, RowPart!Init(play) PROVE RowPartInv
BY RowPartBegins, RowNumbers DEF RowPart!Init

\* The invariant says what is checked.
LEMMA NewestPoll ==
    ASSUME NEW list, NEW t, NEW k, IsLastBy(list, k, t), DOMAIN list \subseteq Nat
    PROVE  RowPart!Max(PollsBy(list, t)) = k
<1>1. k \in PollsBy(list, t) /\ \A i \in PollsBy(list, t) : k >= i
    BY DEF IsLastBy, PollsBy
<1>2. \A j \in PollsBy(list, t) : (\A i \in PollsBy(list, t) : j >= i) => j = k
    BY <1>1 DEF PollsBy
<1> QED BY <1>1, <1>2 DEF RowPart!Max

LEMMA RowsAreSound == RowPartInv => RowPart!RowsHold
<1> SUFFICES ASSUME RowPartInv PROVE RowPart!RowsHold
    OBVIOUS
<1>1. ASSUME g10 # RowPart!NoRow PROVE RowPart!ContextIsCurrent
  <2>1. PICK k \in DOMAIN g13 :
              /\ IsLastBy(g13, k, g10.asOf) /\ g13[k].at = g10.asOf - g10.deribit.age
              /\ g10.deribit.missing = "none" <=> g13[k].got # {}
    BY <1>1 DEF RowPartInv, ContextInv
  <2>2. DOMAIN g13 \subseteq Nat
    BY LenProperties DEF RowPartInv, PollInv
  <2>3. RowPart!Max(PollsBy(g13, g10.asOf)) = k
    BY <2>1, <2>2, NewestPoll
  <2>4. g10.deribit.used /\ g10.deribit.age \in 0 .. Rows.deribitEvery - 1
    BY <1>1 DEF RowPartInv, ContextInv
  <2> QED BY <2>1, <2>3, <2>4 DEF RowPart!ContextIsCurrent, PollsBy
<1>2. RowPart!ContextIsCurrent
    BY <1>1 DEF RowPart!ContextIsCurrent
<1>3. RowPart!DecisionsAreSound
    BY DEF RowPartInv, DecidedInv, Decisive, RowPart!DecisionsAreSound, RowPart!Last
<1> QED BY <1>2, <1>3 DEF RowPartInv, ClosingInv, RowPart!RowsHold

LEMMA FeeIsNoGain == ASSUME NEW ask \in Int PROVE RowPart!Fee(ask) \in Nat
<1>1. CASE ask \in 1 .. 99
  <2>1. ask \in Nat /\ 100 - ask \in Nat
    BY <1>1
  <2>2. ask * (100 - ask) \in Nat
    BY <2>1
  <2>3. 7 * ask * (100 - ask) = 7 * (ask * (100 - ask))
    OBVIOUS
  <2>4. 7 * ask * (100 - ask) + 9999 \in Nat
    BY <2>2, <2>3
  <2> DEFINE n == 7 * ask * (100 - ask) + 9999
  <2>5. RowPart!Fee(ask) = n \div 10000
    BY <1>1 DEF RowPart!Fee
  <2> HIDE DEF n
  <2> QED BY <2>4, <2>5 DEF n
<1>2. CASE ask \notin 1 .. 99
    BY <1>2 DEF RowPart!Fee
<1> QED BY <1>1, <1>2

\* Both sides together cost a dollar and the fees, if the book is not crossed: one
\* of them at most is worth buying.
LEMMA OneSidePays ==
    ASSUME NEW q \in [yesBid : -1 .. 100, noBid : -1 .. 100, yesSize : Nat, noSize : Nat],
           RowPart!BookOk(q), NEW chance \in Int
    PROVE  /\ RowPart!Edge(q, "YES", chance) \in Int /\ RowPart!Edge(q, "NO", chance) \in Int
           /\ RowPart!Edge(q, "YES", chance) + RowPart!Edge(q, "NO", chance) <= 0
<1>1. q.yesBid \in 0 .. 100 /\ q.noBid \in 0 .. 100 /\ q.yesBid + q.noBid <= 100
    BY RowNumbers DEF RowPart!BookOk
<1>2. RowPart!Asks(q)["YES"] = 100 - q.noBid /\ RowPart!Asks(q)["NO"] = 100 - q.yesBid
    BY <1>1, RowNumbers DEF RowPart!Asks
<1>3. RowPart!Fee(100 - q.noBid) \in Nat /\ RowPart!Fee(100 - q.yesBid) \in Nat
    BY <1>1, FeeIsNoGain
<1>4. /\ RowPart!Edge(q, "YES", chance) = chance - (100 - q.noBid) - RowPart!Fee(100 - q.noBid)
      /\ RowPart!Edge(q, "NO", chance)
            = (100 - chance) - (100 - q.yesBid) - RowPart!Fee(100 - q.yesBid)
    BY <1>2 DEF RowPart!Edge
<1> QED BY <1>1, <1>3, <1>4

LEMMA SmallerOfTwo ==
    ASSUME NEW a \in Int, NEW b \in Int
    PROVE  RowPart!Min({a, b}) = IF a <= b THEN a ELSE b
<1> DEFINE m == IF a <= b THEN a ELSE b
<1>1. m \in {a, b} /\ \A y \in {a, b} : m <= y
    OBVIOUS
<1>2. \A x \in {a, b} : (\A y \in {a, b} : x <= y) => x = m
    OBVIOUS
<1> HIDE DEF m
<1> QED BY <1>1, <1>2 DEF RowPart!Min, m

LEMMA DecisionsAreDecisive ==
    ASSUME NEW q \in [yesBid : -1 .. 100, noBid : -1 .. 100, yesSize : Nat, noSize : Nat],
           NEW chance \in Int, g1 \in Nat, NEW row, row.asOf = g1, row.book = q
    PROVE  Decisive(RowPart!Decide(q, chance), row)
<1> DEFINE side == IF RowPart!Edge(q, "YES", chance) >= RowPart!Edge(q, "NO", chance)
                   THEN "YES" ELSE "NO"
           best == RowPart!Edge(q, side, chance)
           d == RowPart!Decide(q, chance)
           depth == RowPart!Depths(q)[side]
           small == RowPart!Min({Rows.orderSize, depth})
<1>1. \/ \E state \in {"SKIPPED", "WATCH", "REJECTED"} :
             d = [at |-> g1, state |-> state, side |-> "none", chance |-> chance, fill |-> 0]
      \/ /\ ~RowPart!Skipped /\ RowPart!BookOk(q)
         /\ \/ \E state \in {"NO_ACTION", "WATCH"} :
                  d = [at |-> g1, state |-> state, side |-> side, chance |-> chance, fill |-> 0]
            \/ /\ ~(best < Rows.minEdge)
               /\ \/ d = [at |-> g1, state |-> "MANUAL_REVIEW", side |-> side,
                          chance |-> chance, fill |-> 0]
                  \/ d = [at |-> g1, state |-> "PAPER_CANDIDATE", side |-> side,
                          chance |-> chance, fill |-> small]
    BY DEF RowPart!Decide, RowPart!Decided
<1>2. depth \in Nat /\ side \in {"YES", "NO"} /\ depth = RowPart!Depths(row.book)[side]
    BY DEF RowPart!Depths
<1>3. small \in Int /\ small <= depth /\ (small > 0 \/ depth = 0)
    BY <1>2, SmallerOfTwo, RowNumbers
<1>4. RowPart!BookOk(q) /\ ~(best < Rows.minEdge)
        => RowPart!Edge(q, IF side = "YES" THEN "NO" ELSE "YES", chance) < 0
    BY OneSidePays, RowNumbers
<1>5. ~RowPart!Skipped => g1 < Rows.closes
    BY RowNumbers DEF RowPart!Skipped
<1> HIDE DEF side, best, depth, small, d
<1>6. CASE \E state \in {"SKIPPED", "WATCH", "REJECTED"} :
             d = [at |-> g1, state |-> state, side |-> "none", chance |-> chance, fill |-> 0]
    BY <1>6 DEF Decisive, d
<1>7. CASE \E state \in {"NO_ACTION", "WATCH"} :
             d = [at |-> g1, state |-> state, side |-> side, chance |-> chance, fill |-> 0]
    BY <1>2, <1>7 DEF Decisive, d
<1>8. ASSUME d = [at |-> g1, state |-> "MANUAL_REVIEW", side |-> side,
                  chance |-> chance, fill |-> 0],
             ~RowPart!Skipped, RowPart!BookOk(q), ~(best < Rows.minEdge)
      PROVE  Decisive(d, row)
    BY <1>2, <1>4, <1>5, <1>8 DEF Decisive
<1>9. ASSUME d = [at |-> g1, state |-> "PAPER_CANDIDATE", side |-> side,
                  chance |-> chance, fill |-> small],
             ~RowPart!Skipped, RowPart!BookOk(q), ~(best < Rows.minEdge)
      PROVE  Decisive(d, row)
    BY <1>2, <1>3, <1>4, <1>5, <1>9 DEF Decisive
<1> QED BY <1>1, <1>6, <1>7, <1>8, <1>9 DEF d

\* Lists that grow (Seq needs a set to be of: that of their elements will do).
LEMMA OwnElements == ASSUME NEW S, NEW s \in Seq(S) PROVE s \in Seq(ToSet(s))
<1>1. Len(s) \in Nat /\ DOMAIN s = 1 .. Len(s) /\ s = [i \in 1 .. Len(s) |-> s[i]]
    BY LenProperties
<1>2. \A i \in 1 .. Len(s) : s[i] \in ToSet(s)
    BY <1>1 DEF ToSet
<1> QED BY <1>1, <1>2, IsASeq

LEMMA JoinFacts ==
    ASSUME NEW a, NEW b, a \in Seq(ToSet(a)), b \in Seq(ToSet(b))
    PROVE  /\ a \o b \in Seq(ToSet(a \o b)) /\ Len(a) \in Nat /\ Len(b) \in Nat
           /\ Len(a \o b) = Len(a) + Len(b)
           /\ DOMAIN a = 1 .. Len(a) /\ DOMAIN b = 1 .. Len(b)
           /\ DOMAIN (a \o b) = 1 .. (Len(a) + Len(b))
           /\ \A i \in 1 .. Len(a) : (a \o b)[i] = a[i]
           /\ \A i \in 1 .. (Len(a) + Len(b)) :
                 i > Len(a) => i - Len(a) \in 1 .. Len(b) /\ (a \o b)[i] = b[i - Len(a)]
<1> DEFINE S == ToSet(a) \cup ToSet(b)
<1>1. a \in Seq(S) /\ b \in Seq(S)
  <2>1. ToSet(a) \subseteq S /\ ToSet(b) \subseteq S
    OBVIOUS
  <2> HIDE DEF S
  <2>2. \A i \in 1 .. Len(a) : a[i] \in S
    BY <2>1, ElementOfSeq
  <2>3. \A i \in 1 .. Len(b) : b[i] \in S
    BY <2>1, ElementOfSeq
  <2> QED BY <2>2, <2>3, LenProperties, IsASeq
<1> HIDE DEF S
<1>2. /\ a \o b \in Seq(S) /\ Len(a \o b) = Len(a) + Len(b)
      /\ \A i \in 1 .. (Len(a) + Len(b)) :
            (a \o b)[i] = IF i <= Len(a) THEN a[i] ELSE b[i - Len(a)]
    BY <1>1, ConcatProperties
<1>3. Len(a) \in Nat /\ Len(b) \in Nat /\ DOMAIN a = 1 .. Len(a) /\ DOMAIN b = 1 .. Len(b)
    BY LenProperties
<1>4. a \o b \in Seq(ToSet(a \o b)) /\ DOMAIN (a \o b) = 1 .. (Len(a) + Len(b))
    BY <1>2, OwnElements, LenProperties
<1>5. \A i \in 1 .. Len(a) : (a \o b)[i] = a[i]
    BY <1>2, <1>3
<1>6. \A i \in 1 .. (Len(a) + Len(b)) :
         i > Len(a) => i - Len(a) \in 1 .. Len(b) /\ (a \o b)[i] = b[i - Len(a)]
    BY <1>2, <1>3
<1> QED BY <1>2, <1>3, <1>4, <1>5, <1>6

\* What is no poll, or is later, changes no earlier poll.
LEMMA PollsStay ==
    ASSUME NEW a, NEW b, a \in Seq(ToSet(a)), b \in Seq(ToSet(b)), NEW t,
           \A i \in DOMAIN b : b[i].feed # "deribit" \/ ~(b[i].at <= t)
    PROVE  PollsBy(a \o b, t) = PollsBy(a, t)
<1>1. ASSUME NEW i \in PollsBy(a \o b, t) PROVE i \in PollsBy(a, t)
  <2>1. i \in 1 .. (Len(a) + Len(b)) /\ (a \o b)[i].feed = "deribit" /\ (a \o b)[i].at <= t
    BY <1>1, JoinFacts DEF PollsBy
  <2>2. ~(i > Len(a))
    BY <2>1, JoinFacts
  <2>3. i \in 1 .. Len(a) /\ (a \o b)[i] = a[i]
    BY <2>1, <2>2, JoinFacts
  <2> QED BY <2>1, <2>3, JoinFacts DEF PollsBy
<1>2. ASSUME NEW i \in PollsBy(a, t) PROVE i \in PollsBy(a \o b, t)
  <2>1. i \in 1 .. Len(a) /\ a[i].feed = "deribit" /\ a[i].at <= t
    BY <1>2, JoinFacts DEF PollsBy
  <2>2. i \in 1 .. (Len(a) + Len(b)) /\ (a \o b)[i] = a[i]
    BY <2>1, JoinFacts
  <2> QED BY <2>1, <2>2, JoinFacts DEF PollsBy
<1> QED BY <1>1, <1>2

\* A poll of now is the last.
LEMMA PollIsLast ==
    ASSUME NEW a, a \in Seq(ToSet(a)), NEW s, s.feed = "deribit", NEW t \in Nat, s.at = t
    PROVE  /\ a \o <<s>> \in Seq(ToSet(a \o <<s>>))
           /\ IsLastBy(a \o <<s>>, Len(a) + 1, t)
           /\ Len(a) + 1 \in DOMAIN (a \o <<s>>) /\ (a \o <<s>>)[Len(a) + 1] = s
<1>1. <<s>> \in Seq(ToSet(<<s>>)) /\ Len(<<s>>) = 1 /\ <<s>>[1] = s
  <2>1. <<s>> \in Seq({s})
    OBVIOUS
  <2> QED BY <2>1, OwnElements
<1>2. /\ a \o <<s>> \in Seq(ToSet(a \o <<s>>)) /\ Len(a) \in Nat
      /\ DOMAIN (a \o <<s>>) = 1 .. (Len(a) + 1)
    BY <1>1, JoinFacts
<1>3. (a \o <<s>>)[Len(a) + 1] = s
  <2> DEFINE n == Len(a) + 1
  <2>1. n \in 1 .. (Len(a) + Len(<<s>>)) /\ n > Len(a) /\ n - Len(a) = 1
    BY <1>1, <1>2
  <2>2. (a \o <<s>>)[n] = <<s>>[n - Len(a)]
    BY <1>1, <2>1, JoinFacts
  <2> QED BY <1>1, <2>1, <2>2
<1>4. Len(a) + 1 \in PollsBy(a \o <<s>>, t)
    BY <1>2, <1>3 DEF PollsBy
<1>5. \A i \in PollsBy(a \o <<s>>, t) : i <= Len(a) + 1
    BY <1>2 DEF PollsBy
<1> QED BY <1>2, <1>3, <1>4, <1>5 DEF IsLastBy

\* What a poll of the feeds received.
LEMMA EventsAreOfFeeds ==
    ASSUME NEW answers, answers.spot \in Seq(ToSet(answers.spot)),
           answers.perp \in Seq(ToSet(answers.perp))
    PROVE  /\ RowPart!Stamped(answers) \in Seq(ToSet(RowPart!Stamped(answers)))
           /\ \A i \in DOMAIN RowPart!Stamped(answers) :
                 /\ RowPart!Stamped(answers)[i].feed # "deribit"
                 /\ RowPart!Stamped(answers)[i].at = g1
<1> DEFINE of(f) == [i \in DOMAIN answers[f] |->
                       [feed |-> f, at |-> g1, type |-> answers[f][i].type,
                        value |-> answers[f][i].value]]
           a == of("spot")
           b == of("perp")
<1>1. ASSUME NEW f \in {"spot", "perp"}
      PROVE  /\ of(f) \in Seq(ToSet(of(f)))
             /\ \A i \in DOMAIN of(f) : of(f)[i].feed # "deribit" /\ of(f)[i].at = g1
  <2>1. Len(answers[f]) \in Nat /\ DOMAIN answers[f] = 1 .. Len(answers[f])
    BY <1>1, LenProperties
  <2>2. \A i \in DOMAIN of(f) : of(f)[i].feed # "deribit" /\ of(f)[i].at = g1
    BY <1>1
  <2> DEFINE e(i) == [feed |-> f, at |-> g1, type |-> answers[f][i].type,
                      value |-> answers[f][i].value]
             S == {e(i) : i \in DOMAIN answers[f]}
             n == Len(answers[f])
  <2>3. of(f) = [i \in 1 .. n |-> e(i)] /\ \A i \in 1 .. n : e(i) \in S
    BY <2>1
  <2> HIDE DEF e, S
  <2>4. of(f) \in Seq(S)
    BY <2>1, <2>3, IsASeq
  <2> QED BY <2>2, <2>4, OwnElements
<1>2. RowPart!Stamped(answers) = a \o b
    BY DEF RowPart!Stamped
<1>3. /\ a \in Seq(ToSet(a)) /\ b \in Seq(ToSet(b))
      /\ \A i \in DOMAIN a : a[i].feed # "deribit" /\ a[i].at = g1
      /\ \A i \in DOMAIN b : b[i].feed # "deribit" /\ b[i].at = g1
    BY <1>1
<1> HIDE DEF a, b
<1>4. ASSUME NEW i \in DOMAIN (a \o b)
      PROVE  (a \o b)[i].feed # "deribit" /\ (a \o b)[i].at = g1
  <2>1. i \in 1 .. (Len(a) + Len(b)) /\ Len(a) \in Nat
    BY <1>3, <1>4, JoinFacts
  <2>2. CASE i > Len(a)
    BY <1>3, <2>1, <2>2, JoinFacts
  <2>3. CASE ~(i > Len(a))
    BY <1>3, <2>1, <2>3, JoinFacts
  <2> QED BY <2>2, <2>3
<1> QED BY <1>2, <1>3, <1>4, JoinFacts

\* The snapshots (DeribitState): the one ingested is the last, and those before it
\* were there.
LEMMA HeardIsLast ==
    ASSUME NEW list, list \in Seq(ToSet(list)), NEW s, NEW h, h = RowPart!Heard(list, s)
    PROVE  /\ h \in Seq(ToSet(h)) /\ h # <<>> /\ h[Len(h)] = s
           /\ \A i \in 1 .. Len(h) - 1 : \E j \in 1 .. Len(list) : h[i] = list[j]
<1> DEFINE S == ToSet(list) \cup {s}
           grown == Append(list, s)
           n == Len(list)
<1>1. list \in Seq(S) /\ s \in S
  <2>1. ToSet(list) \subseteq S /\ s \in S
    OBVIOUS
  <2> HIDE DEF S
  <2>2. \A i \in 1 .. Len(list) : list[i] \in S
    BY <2>1, ElementOfSeq
  <2> QED BY <2>1, <2>2, LenProperties, IsASeq
<1> HIDE DEF S
<1>2. /\ grown \in Seq(S) /\ n \in Nat /\ Len(grown) = n + 1
      /\ \A i \in 1 .. n : grown[i] = list[i]
      /\ grown[n + 1] = s
    BY <1>1, AppendFacts
<1> HIDE DEF grown, n
<1>3. CASE ~(Len(grown) > Rows.maxSnapshots)
  <2>1. h = grown
    BY <1>3 DEF RowPart!Heard, grown
  <2>2. grown \in Seq(ToSet(grown)) /\ grown # <<>>
    BY <1>2, OwnElements
  <2> QED BY <1>2, <2>1, <2>2 DEF n
<1>4. CASE Len(grown) > Rows.maxSnapshots
  <2>1. h = Tail(grown)
    BY <1>4 DEF RowPart!Heard, grown
  <2>2. n > 0
    BY <1>2, <1>4, RowNumbers
  <2>3. grown # <<>>
    BY <1>2
  <2>4. /\ Tail(grown) \in Seq(S) /\ Len(Tail(grown)) = n
        /\ \A i \in 1 .. n : Tail(grown)[i] = grown[i + 1]
    BY <1>2, <2>3, TailFacts
  <2>5. Tail(grown) \in Seq(ToSet(Tail(grown))) /\ Tail(grown) # <<>>
    <3>1. Tail(grown) \in Seq(ToSet(Tail(grown)))
      BY <2>4, OwnElements
    <3>2. Tail(grown) # <<>>
      BY <1>2, <2>2, <2>4
    <3> QED BY <3>1, <3>2
  <2>6. Tail(grown)[n] = s
    BY <1>2, <2>2, <2>4
  <2>7. \A i \in 1 .. n - 1 : Tail(grown)[i] = list[i + 1] /\ i + 1 \in 1 .. n
    BY <1>2, <2>4
  <2> QED BY <2>1, <2>4, <2>5, <2>6, <2>7 DEF n
<1> QED BY <1>3, <1>4

\* A row's context is of the snapshot that is newer than the others.
LEMMA ContextOfNewest ==
    ASSUME NEW list, list \in Seq(ToSet(list)), list # <<>>, NEW t \in Nat,
           list[Len(list)].at \in 0 .. t,
           \A i \in 1 .. Len(list) - 1 :
              list[i].at \in Int /\ list[i].at < list[Len(list)].at
    PROVE  LET c == RowPart!Context(list, t)
               s == list[Len(list)]
           IN  /\ c.age = t - s.at /\ c.used = (t - s.at <= Rows.deribitLimit)
               /\ c.used => (c.missing = "none" <=> s.got # {})
<1> DEFINE n == Len(list)
           s == list[n]
           known == {i \in DOMAIN list : list[i].at <= t}
           newest == {i \in known : \A j \in known : list[j].at <= list[i].at}
<1>1. n \in Nat \ {0} /\ DOMAIN list = 1 .. n
    BY LenProperties, EmptySeq
<1>2. n \in known
    BY <1>1
<1>3. \A i \in known : i # n => list[i].at < s.at /\ list[i].at \in Int
  <2>0. \A m \in Nat : \A i \in 1 .. m : i # m => i \in 1 .. m - 1
    OBVIOUS
  <2>1. \A i \in 1 .. n : i # n => i \in 1 .. n - 1
    BY <1>1, <2>0
  <2> QED BY <1>1, <2>1
<1>4. s.at \in Int
    OBVIOUS
<1>5. newest = {n}
  <2>1. n \in newest
    BY <1>2, <1>3, <1>4
  <2>2. ASSUME NEW i \in newest, i # n PROVE FALSE
    BY <1>2, <1>3, <1>4, <2>2
  <2> QED BY <2>1, <2>2
<1>6. \A m \in Nat : RowPart!Max({m}) = m
  <2> SUFFICES ASSUME NEW m \in Nat PROVE RowPart!Max({m}) = m
    OBVIOUS
  <2>1. m >= m
    OBVIOUS
  <2> QED BY <2>1 DEF RowPart!Max
<1>7. RowPart!LatestAtOrBefore(list, t) = <<s>>
    BY <1>1, <1>5, <1>6 DEF RowPart!LatestAtOrBefore
<1> HIDE DEF s
<1>8. RowPart!Last(<<s>>) = s /\ <<s>> # <<>>
    BY DEF RowPart!Last
<1>9. /\ RowPart!Context(list, t).age = t - s.at
      /\ RowPart!Context(list, t).used = (t - s.at <= Rows.deribitLimit)
      /\ RowPart!Context(list, t).missing =
            IF t - s.at > Rows.deribitLimit THEN "stale"
            ELSE IF s.got = {} THEN "nothing parsed" ELSE "none"
    BY <1>7, <1>8 DEF RowPart!Context
<1>10. t - s.at \in Int
    BY <1>4 DEF s
<1>11. RowPart!Context(list, t).used => ~(t - s.at > Rows.deribitLimit)
  <2>1. RowPart!Context(list, t).used => t - s.at <= Rows.deribitLimit
    BY <1>9, Zenon
  <2>2. t - s.at <= Rows.deribitLimit => ~(t - s.at > Rows.deribitLimit)
    BY <1>10, RowNumbers
  <2> QED BY <2>1, <2>2
<1>12. RowPart!Context(list, t).used
        => (RowPart!Context(list, t).missing = "none" <=> s.got # {})
    BY <1>9, <1>11
<1> QED BY <1>9, <1>12 DEF s

IsQuote(q) == q \in [yesBid : -1 .. 100, noBid : -1 .. 100, yesSize : Nat, noSize : Nat]
LEMMA ChanceIsNumber ==
    ASSUME g1 \in Nat, NEW price, NEW sigma PROVE RowPart!Chance(price, sigma) \in Int
<1>1. g1 >= Rows.closes \/ g1 < Rows.closes
    BY RowNumbers
<1> QED BY <1>1 DEF RowPart!Chance

\* After an iteration the newest snapshot is that of the last poll, which is
\* younger than the interval: Deribit was polled if it was due.
LEMMA IterateKeepsPolls ==
    ASSUME PollInv, NEW price, NEW answers, answers.spot \in Seq(ToSet(answers.spot)),
           answers.perp \in Seq(ToSet(answers.perp)), NEW got, NEW book,
           RowPart!Iterate(price, answers, got, book)
    PROVE  /\ PollInv' /\ g7' \in Int /\ g7' # -1 /\ g1 - g7' < Rows.deribitEvery
           /\ \A t \in Int : t < g1 => PollsBy(g13', t) = PollsBy(g13, t)
           /\ DOMAIN g13 \subseteq DOMAIN g13' /\ \A i \in DOMAIN g13 : g13'[i] = g13[i]
<1> DEFINE ev == RowPart!Stamped(answers)
           s == RowPart!Polled(got)
           mid == g13 \o ev
<1>1. /\ UNCHANGED g1 /\ g3' = FALSE
      /\ g6' = IF RowPart!Due THEN RowPart!Heard(g6, s) ELSE g6
      /\ g7' = IF RowPart!Due THEN g1 ELSE g7
      /\ g13' = mid \o IF RowPart!Due THEN <<s>> ELSE <<>>
    BY DEF RowPart!Iterate
<1>2. /\ g1 \in Nat /\ g13 \in Seq(ToSet(g13)) /\ g6 \in Seq(ToSet(g6))
      /\ \A i \in DOMAIN g13 : g13[i].at \in 0 .. g1
      /\ g7 = -1 => g6 = <<>>
      /\ g7 # -1 =>
            /\ g7 \in 0 .. g1 /\ g6 # <<>> /\ g6[Len(g6)].at = g7
            /\ \A i \in 1 .. Len(g6) - 1 : g6[i].at \in Int /\ g6[i].at < g7
            /\ \E k \in DOMAIN g13 : IsLastBy(g13, k, g1) /\ g13[k] = g6[Len(g6)]
    BY DEF PollInv
<1>3. s.feed = "deribit" /\ s.at = g1
    BY DEF RowPart!Polled
<1>4. /\ ev \in Seq(ToSet(ev))
      /\ \A i \in DOMAIN ev : ev[i].feed # "deribit" /\ ev[i].at = g1
    BY EventsAreOfFeeds
<1> HIDE DEF ev, s
<1>5. /\ mid \in Seq(ToSet(mid)) /\ DOMAIN mid = 1 .. (Len(g13) + Len(ev))
      /\ DOMAIN g13 = 1 .. Len(g13) /\ Len(g13) \in Nat /\ Len(ev) \in Nat
      /\ Len(mid) = Len(g13) + Len(ev)
      /\ \A i \in 1 .. Len(g13) : mid[i] = g13[i]
    BY <1>2, <1>4, JoinFacts
<1>6. \A i \in DOMAIN mid : mid[i].at \in 0 .. g1
  <2> SUFFICES ASSUME NEW i \in DOMAIN mid PROVE mid[i].at \in 0 .. g1
    OBVIOUS
  <2>1. CASE i > Len(g13)
    <3>1. i - Len(g13) \in DOMAIN ev /\ mid[i] = ev[i - Len(g13)]
      BY <1>2, <1>4, <1>5, <2>1, JoinFacts
    <3> QED BY <1>2, <1>4, <3>1
  <2>2. CASE ~(i > Len(g13))
    BY <1>2, <1>5, <2>2
  <2> QED BY <2>1, <2>2
<1>7. \A t \in Int : PollsBy(mid, t) = PollsBy(g13, t)
    BY <1>2, <1>4, PollsStay
<1> HIDE DEF mid
<1>8. CASE ~RowPart!Due
  <2>1. g7 # -1 /\ g1 - g7 < Rows.deribitEvery /\ g7 \in Int
    BY <1>2, <1>8, RowNumbers DEF RowPart!Due
  <2>2. g13' = mid /\ g6' = g6 /\ g7' = g7
    <3>1. g13' = mid \o <<>> /\ g6' = g6 /\ g7' = g7
      BY <1>1, <1>8
    <3>2. mid \o <<>> = mid
      BY <1>5, ConcatEmptySeq
    <3> QED BY <3>1, <3>2
  <2>3. PICK k \in DOMAIN g13 : IsLastBy(g13, k, g1) /\ g13[k] = g6[Len(g6)]
    BY <1>2, <2>1
  <2>4. k \in DOMAIN mid /\ mid[k] = g13[k] /\ IsLastBy(mid, k, g1)
    BY <1>2, <1>5, <1>7, <2>3 DEF IsLastBy
  <2>5. PollInv'
    BY <1>1, <1>2, <1>5, <1>6, <2>1, <2>2, <2>3, <2>4 DEF PollInv
  <2> QED BY <1>5, <1>7, <2>1, <2>2, <2>5
<1>9. CASE RowPart!Due
  <2>1. g6' = RowPart!Heard(g6, s) /\ g7' = g1 /\ g13' = mid \o <<s>>
    BY <1>1, <1>9
  <2>2. /\ g13' \in Seq(ToSet(g13')) /\ IsLastBy(g13', Len(mid) + 1, g1)
        /\ Len(mid) + 1 \in DOMAIN g13' /\ g13'[Len(mid) + 1] = s
    BY <1>2, <1>3, <1>5, <2>1, PollIsLast
  <2>3. /\ g6' \in Seq(ToSet(g6')) /\ g6' # <<>> /\ g6'[Len(g6')] = s
        /\ \A i \in 1 .. Len(g6') - 1 : \E j \in 1 .. Len(g6) : g6'[i] = g6[j]
    <3>1. g6 \in Seq(ToSet(g6))
      BY <1>2
    <3>2. \A x : \A h : h = RowPart!Heard(g6, x)
            => /\ h \in Seq(ToSet(h)) /\ h # <<>> /\ h[Len(h)] = x
               /\ \A i \in 1 .. Len(h) - 1 : \E j \in 1 .. Len(g6) : h[i] = g6[j]
      BY <3>1, HeardIsLast
    <3>3. g6' = RowPart!Heard(g6, s)
      BY <2>1
    <3> QED BY <3>2, <3>3
  <2>4. \A j \in 1 .. Len(g6) : g6[j].at \in Int /\ g6[j].at < g1
    <3>1. CASE g7 = -1
      <4>1. Len(g6) = 0
        BY <1>2, <3>1
      <4> QED BY <4>1
    <3>2. CASE g7 # -1
      <4>1. g7 \in 0 .. g1 /\ g7 < g1
        BY <1>2, <1>9, <3>2, RowNumbers DEF RowPart!Due
      <4>2. \A m \in Nat : \A i \in 1 .. m : i # m => i \in 1 .. m - 1
        OBVIOUS
      <4>3. Len(g6) \in Nat
        BY <1>2, LenProperties
      <4>4. \A j \in 1 .. Len(g6) : j # Len(g6) => j \in 1 .. Len(g6) - 1
        BY <4>2, <4>3
      <4> QED BY <1>2, <3>2, <4>1, <4>4
    <3> QED BY <3>1, <3>2
  <2>5. \A i \in 1 .. Len(g6') - 1 : g6'[i].at \in Int /\ g6'[i].at < g1
    BY <2>3, <2>4
  <2>6. /\ DOMAIN g13' = 1 .. (Len(mid) + 1)
        /\ \A i \in 1 .. Len(mid) : g13'[i] = mid[i]
    <3>1. <<s>> \in Seq({s}) /\ Len(<<s>>) = 1
      OBVIOUS
    <3>2. <<s>> \in Seq(ToSet(<<s>>))
      BY <3>1, OwnElements
    <3> QED BY <1>5, <2>1, <3>1, <3>2, JoinFacts
  <2>7. \A i \in DOMAIN g13' : g13'[i].at \in 0 .. g1
    <3> SUFFICES ASSUME NEW i \in DOMAIN g13' PROVE g13'[i].at \in 0 .. g1
      OBVIOUS
    <3>1. i = Len(mid) + 1 \/ i \in 1 .. Len(mid)
      BY <1>5, <2>6
    <3>2. DOMAIN mid = 1 .. Len(mid)
      BY <1>5
    <3> QED BY <1>2, <1>3, <1>6, <2>2, <2>6, <3>1, <3>2
  <2>8. PollInv'
    <3>1. g1' \in Nat /\ g3' \in BOOLEAN /\ g7' \in 0 .. g1' /\ g7' # -1
      <4>1. g1' = g1 /\ g1 \in Nat /\ g7' = g1 /\ g3' = FALSE
        BY <1>1, <1>2, <2>1
      <4>2. g3' \in BOOLEAN
        BY <4>1
      <4>3. g1' \in Nat /\ g7' \in Nat /\ g7' <= g1'
        BY <4>1
      <4> QED BY <4>2, <4>3
    <3>2. \A i \in DOMAIN g13' : g13'[i].at \in 0 .. g1'
      BY <1>1, <2>7
    <3>3. g6'[Len(g6')].at = g7'
      BY <1>3, <2>1, <2>3
    <3>4. \E k \in DOMAIN g13' : IsLastBy(g13', k, g1') /\ g13'[k] = g6'[Len(g6')]
      BY <1>1, <2>2, <2>3
    <3> QED BY <2>1, <2>2, <2>3, <2>5, <3>1, <3>2, <3>3, <3>4 DEF PollInv
  <2>9. ASSUME NEW t \in Int, t < g1 PROVE PollsBy(g13', t) = PollsBy(g13, t)
    <3>1. <<s>> \in Seq({s}) /\ DOMAIN <<s>> = {1} /\ <<s>>[1] = s
      OBVIOUS
    <3>2. <<s>> \in Seq(ToSet(<<s>>))
      BY <3>1, OwnElements
    <3>3. ~(s.at <= t)
      BY <1>2, <1>3, <2>9
    <3>4. PollsBy(mid \o <<s>>, t) = PollsBy(mid, t)
      BY <1>5, <3>1, <3>2, <3>3, PollsStay
    <3> QED BY <1>7, <2>1, <3>4
  <2>10. DOMAIN g13 \subseteq DOMAIN g13' /\ \A i \in DOMAIN g13 : g13'[i] = g13[i]
    BY <1>5, <2>6
  <2>11. g7' \in Int /\ g7' # -1 /\ g1 - g7' < Rows.deribitEvery
    BY <1>2, <2>1, RowNumbers
  <2> QED BY <2>8, <2>9, <2>10, <2>11
<1> QED BY <1>8, <1>9

LEMMA GrownIsLast ==
    ASSUME NEW s, s \in Seq(ToSet(s)), NEW x, NEW t, t = Append(s, x)
    PROVE  t \in Seq(ToSet(t)) /\ t # <<>> /\ t[Len(t)] = x
<1> DEFINE S == ToSet(s) \cup {x}
<1>1. s \in Seq(S) /\ x \in S
  <2>1. ToSet(s) \subseteq S /\ x \in S
    OBVIOUS
  <2> HIDE DEF S
  <2>2. \A i \in 1 .. Len(s) : s[i] \in S
    BY <2>1, ElementOfSeq
  <2> QED BY <2>1, <2>2, LenProperties, IsASeq
<1> HIDE DEF S
<1>2. t \in Seq(S) /\ Len(t) = Len(s) + 1 /\ t[Len(s) + 1] = x /\ Len(s) \in Nat
    BY <1>1, AppendFacts
<1>3. t \in Seq(ToSet(t)) 
    BY <1>2, OwnElements
<1> QED BY <1>2, <1>3

LEMMA IterateKeeps ==
    ASSUME RowPartInv, NEW price, NEW answers, answers.spot \in Seq(ToSet(answers.spot)),
           answers.perp \in Seq(ToSet(answers.perp)), NEW got, NEW book,
           \A q \in book : IsQuote(q), RowPart!Iterate(price, answers, got, book)
    PROVE  RowPartInv'
<1>1. /\ g2.kind # "down" /\ g3 /\ UNCHANGED <<g1, g2, g12>> /\ g3' = FALSE
    BY DEF RowPart!Iterate
<1>2. g1 \in Nat /\ PollInv /\ DOMAIN g13 \subseteq DOMAIN g13'
      /\ PollInv' /\ g7' \in Int /\ g7' # -1 /\ g1 - g7' < Rows.deribitEvery
      /\ (\A t \in Int : t < g1 => PollsBy(g13', t) = PollsBy(g13, t))
      /\ \A i \in DOMAIN g13 : g13'[i] = g13[i]
  <2>1. g1 \in Nat /\ PollInv
    BY DEF RowPartInv, PollInv
  <2> QED BY <2>1, IterateKeepsPolls
<1>3. ClosingInv'
  <2>1. g12' = RowPart!NoClosing' /\ RowPart!NoClosing' = RowPart!NoClosing
    BY <1>1 DEF RowPartInv, ClosingInv, RowPart!NoClosing
  <2> QED BY <2>1 DEF ClosingInv, RowPart!LedgerTellsTheEnd
<1>4. CASE book = {}
  <2>1. UNCHANGED <<g10, g11>>
    BY <1>4 DEF RowPart!Iterate
  <2>2. ContextInv'
    <3> SUFFICES ASSUME g10 # RowPart!NoRow PROVE ContextInv'
      BY <2>1 DEF ContextInv, RowPart!NoRow
    <3>1. /\ g10.asOf \in 0 .. g1 /\ g10.asOf < g1
          /\ g10.deribit.used /\ g10.deribit.age \in 0 .. Rows.deribitEvery - 1
      BY <1>1 DEF RowPartInv, ContextInv
    <3>2. PICK k \in DOMAIN g13 :
              /\ IsLastBy(g13, k, g10.asOf) /\ g13[k].at = g10.asOf - g10.deribit.age
              /\ g10.deribit.missing = "none" <=> g13[k].got # {}
      BY DEF RowPartInv, ContextInv
    <3>3. IsLastBy(g13', k, g10.asOf) /\ k \in DOMAIN g13' /\ g13'[k] = g13[k]
      <4>1. PollsBy(g13', g10.asOf) = PollsBy(g13, g10.asOf)
        BY <1>2, <3>1
      <4> QED BY <1>2, <3>2, <4>1 DEF IsLastBy
    <3> QED BY <1>1, <2>1, <3>1, <3>2, <3>3 DEF ContextInv
  <2>3. DecidedInv'
    BY <2>1 DEF RowPartInv, DecidedInv, RowPart!NoRow
  <2> QED BY <1>2, <1>3, <2>2, <2>3 DEF RowPartInv
<1>5. CASE book # {}
  <2> DEFINE chance == IF RowPart!Skipped /\ g2.kind = "collector" THEN RowPart!None
                       ELSE IF g9 = RowPart!None /\ g2.kind = "pipeline" THEN RowPart!None
                       ELSE RowPart!Chance(price, RowPart!Sigma(g8'))
             under == RowPart!Features(g4', g5', g1)
             c == RowPart!Context(g6', g1)
  <2>1. PICK q \in book :
          /\ g10' = [asOf |-> g1, price |-> price, book |-> q, under |-> under, deribit |-> c]
          /\ g11' = Append(g11, RowPart!Decide(q, chance))
    BY <1>5 DEF RowPart!Iterate
  <2>2. chance \in Int
    BY <1>2, ChanceIsNumber, RowNumbers
  <2>3. IsQuote(q)
    BY <2>1
  <2> HIDE DEF chance, under
  <2>4. g10'.asOf = g1 /\ g10'.book = q /\ g10'.deribit = c /\ g10' # RowPart!NoRow
    <3>1. g10'.asOf = g1 /\ g10'.book = q /\ g10'.deribit = c
      BY <2>1
    <3> QED BY <1>2, <3>1, RowIsNone
  <2> HIDE DEF c
  <2>5. Decisive(RowPart!Decide(q, chance), g10')
    BY <1>2, <2>2, <2>3, <2>4, DecisionsAreDecisive DEF IsQuote
  <2>6. DecidedInv'
    <3> DEFINE d == RowPart!Decide(q, chance)
    <3>1. g11 \in Seq(ToSet(g11))
      BY DEF RowPartInv, DecidedInv
    <3> HIDE DEF d
    <3>2. g11' = Append(g11, d)
      BY <2>1 DEF d
    <3>3. g11' \in Seq(ToSet(g11')) /\ g11' # <<>> /\ g11'[Len(g11')] = d
      BY <3>1, <3>2, GrownIsLast
    <3>4. Decisive(g11'[Len(g11')], g10')
      BY <2>5, <3>3 DEF d
    <3>5. RowPart!NoRow' = RowPart!NoRow
      BY DEF RowPart!NoRow
    <3> QED BY <2>4, <3>3, <3>4, <3>5 DEF DecidedInv, Decisive, RowPart!Depths, RowPart!Edge,
                                            RowPart!Asks, RowPart!Fee
  <2>7. PICK k \in DOMAIN g13' : IsLastBy(g13', k, g1) /\ g13'[k] = g6'[Len(g6')]
    BY <1>1, <1>2 DEF PollInv
  <2>8. /\ g6' \in Seq(ToSet(g6')) /\ g6' # <<>> /\ g6'[Len(g6')].at = g7' /\ g7' \in 0 .. g1
        /\ \A i \in 1 .. Len(g6') - 1 : g6'[i].at \in Int /\ g6'[i].at < g7'
    BY <1>1, <1>2 DEF PollInv
  <2>9. /\ c.age = g1 - g7' /\ c.used = (g1 - g7' <= Rows.deribitLimit)
        /\ c.used => (c.missing = "none" <=> g6'[Len(g6')].got # {})
    BY <1>2, <2>8, ContextOfNewest DEF c
  <2>10. g1 - g7' \in 0 .. Rows.deribitEvery - 1 /\ g1 - g7' <= Rows.deribitLimit
    BY <1>2, <2>8, RowNumbers
  <2>11. c.used /\ c.age \in 0 .. Rows.deribitEvery - 1
    <3>1. c.used
      BY <2>9, <2>10, Zenon
    <3> QED BY <2>9, <2>10, <3>1
  <2>12. g13'[k].at = g1 - c.age
    BY <1>2, <2>7, <2>8, <2>9
  <2>13. ContextInv'
    <3>1. /\ g10'.asOf \in 0 .. g1' /\ ~g3' /\ g10'.asOf = g1
      BY <1>1, <1>2, <2>4
    <3> QED BY <2>4, <2>7, <2>9, <2>11, <2>12, <3>1 DEF ContextInv
  <2> QED BY <1>2, <1>3, <2>6, <2>13 DEF RowPartInv
<1> QED BY <1>4, <1>5

LEMMA StartForgets ==
    ASSUME RowPartInv, NEW kind, NEW allows, RowPart!Start(kind, allows)
    PROVE  RowPartInv'
<1>1. /\ g1' = g1 /\ g1 \in Nat /\ g3' = TRUE /\ g13' = <<>> /\ g6' = <<>> /\ g7' = -1
      /\ g10' = RowPart!NoRow /\ g11' = <<>> /\ g12' = RowPart!NoClosing
    BY RowNumbers DEF RowPartInv, PollInv, RowPart!Start
<1>2. DOMAIN g13' = {} /\ <<>> \in Seq(ToSet(<<>>))
    BY <1>1
<1>3. PollInv'
    BY <1>1, <1>2 DEF PollInv
<1>4. ContextInv'
    BY <1>1 DEF ContextInv, RowPart!NoRow
<1>5. DecidedInv'
    BY <1>1, <1>2 DEF DecidedInv
<1>6. ClosingInv'
    BY <1>1 DEF ClosingInv, RowPart!LedgerTellsTheEnd, RowPart!NoClosing
<1> QED BY <1>3, <1>4, <1>5, <1>6 DEF RowPartInv

\* What is told at the end was decided last, on the row that is left.
LEMMA EndCycleTells == ASSUME RowPartInv, RowPart!EndCycle PROVE RowPartInv'
<1> DEFINE n == Len(g11)
           d == g11[n]
           chosen == {i \in DOMAIN g11 : g11[i].state = "PAPER_CANDIDATE"}
<1>1. /\ UNCHANGED <<g1, g3, g6, g7, g10, g11, g13>> /\ g2' = RowPart!Down(g2.count)
      /\ g12' = [ledger |-> IF g11 = <<>> THEN <<>> ELSE <<d>>,
                 counted |-> RowPart!Cardinality(chosen),
                 notified |-> g11 # <<>> /\ d.state = "PAPER_CANDIDATE"]
    BY DEF RowPart!EndCycle, RowPart!Last
<1>2. g2'.kind = "down"
    BY <1>1 DEF RowPart!Down
<1>3. n \in Nat /\ DOMAIN g11 = 1 .. n /\ (g11 # <<>> => n \in 1 .. n)
    BY LenProperties, EmptySeq DEF RowPartInv, DecidedInv
<1> HIDE DEF d, n
<1>4. g11 # <<>> /\ d.state = "PAPER_CANDIDATE" => RowPart!Cardinality(chosen) > 0
  <2> SUFFICES ASSUME g11 # <<>>, d.state = "PAPER_CANDIDATE"
               PROVE  RowPart!Cardinality(chosen) > 0
    OBVIOUS
  <2>1. n \in chosen
    BY <1>3 DEF d
  <2>2. IsFiniteSet(1 .. n) /\ chosen \subseteq 1 .. n
    BY <1>3, FS_Interval
  <2> HIDE DEF chosen
  <2>3. IsFiniteSet(chosen)
    BY <2>2, FS_Subset
  <2>4. Cardinality(chosen) \in Nat /\ Cardinality(chosen) # 0
    BY <2>1, <2>3, FS_CardinalityType, FS_EmptySet
  <2>5. RowPart!Cardinality(chosen) = Cardinality(chosen)
    BY DEF RowPart!Cardinality, Cardinality
  <2> QED BY <2>4, <2>5
<1>5. g11 # <<>> => g10 # RowPart!NoRow /\ Decisive(d, g10)
    BY DEF RowPartInv, DecidedInv, d, n
<1> HIDE DEF chosen
<1>6. RowPart!LedgerTellsTheEnd'
  <2>1. CASE g11 = <<>>
    <3>1. g12'.ledger = <<>> /\ ~g12'.notified
      BY <1>1, <2>1
    <3> QED BY <3>1 DEF RowPart!LedgerTellsTheEnd
  <2>2. CASE g11 # <<>>
    <3>1. /\ g12'.ledger = <<d>> /\ g12'.ledger[1] = d
          /\ g12'.notified => d.state = "PAPER_CANDIDATE"
          /\ g12'.counted = RowPart!Cardinality(chosen)
      BY <1>1, <2>2
    <3>2. Decisive(d, g10) /\ g10.asOf \in Int
      BY <1>5, <2>2 DEF RowPartInv, ContextInv
    <3>3. g12'.notified => g12'.counted > 0
      BY <1>4, <2>2, <3>1
    <3>4. g12'.notified => d.fill > 0 \/ RowPart!Depths(g10.book)[d.side] = 0
      BY <3>1, <3>2 DEF Decisive
    <3>5. d.at = g10.asOf /\ (g12'.notified => ~(g10.asOf >= Rows.closes))
      BY <3>1, <3>2, RowNumbers DEF Decisive
    <3> QED BY <1>1, <3>1, <3>3, <3>4, <3>5 DEF RowPart!LedgerTellsTheEnd, RowPart!Depths
  <2> QED BY <2>1, <2>2
<1>7. ClosingInv'
    BY <1>2, <1>6 DEF ClosingInv
<1>8. PollInv' /\ ContextInv' /\ DecidedInv'
    BY <1>1 DEF RowPartInv, PollInv, ContextInv, DecidedInv, Decisive, RowPart!NoRow,
                RowPart!Depths, RowPart!Edge, RowPart!Asks, RowPart!Fee
<1> QED BY <1>7, <1>8 DEF RowPartInv
-----------------------------------------------------------------------------
(* The low-latency loop (HotPath).                                          *)

\* What is on the way was shown by the venue since it was asked for, a target
\* price that is known is of a market that has begun, and the row is sound.
HotInv ==
    /\ g1 \in Nat /\ g2 = [step |-> g2.step, n |-> g2.n]
    /\ g2.step \in {"ask", "await"} => g2.n \in 1 .. Len(Hot.targets)
    /\ g3 \in Int /\ g3 <= g1
    /\ \A q \in DOMAIN g4 : g4[q] \in Int /\ g3 <= g4[q]
    /\ g2.step # "await" => g3 = -1 /\ g4 = <<>>
    /\ \A m \in g7 \cap Nat : HotPart!OpenOf(m) <= g1
    /\ HotPart!DecidesOnTheMarket

LEMMA HotNumbers ==
    /\ Hot.length \in Nat /\ Hot.bookAge \in Nat /\ Hot.minSecs \in Nat
    /\ Hot.tolerance \in Nat /\ Hot.minDepth \in Nat /\ Hot.underlyingAge \in Nat
    /\ Len(Hot.targets) \in Nat \ {0} /\ DOMAIN Hot.targets = 1 .. Len(Hot.targets)
    /\ \A n \in 1 .. Len(Hot.targets) : Hot.targets[n] \in Nat
<1>1. Hot.targets \in Seq(Nat) /\ Hot.targets # <<>>
    BY HotConstants
<1>2. Len(Hot.targets) \in Nat \ {0} /\ DOMAIN Hot.targets = 1 .. Len(Hot.targets)
    BY <1>1, LenProperties, EmptySeq
<1>3. \A n \in 1 .. Len(Hot.targets) : Hot.targets[n] \in Nat
    BY <1>1, <1>2, ElementOfSeq
<1> QED BY <1>2, <1>3, HotConstants

LEMMA HotTimes ==
    ASSUME NEW m \in Nat
    PROVE  /\ HotPart!OpenOf(m) \in Int /\ HotPart!CloseOf(m) \in Int
           /\ HotPart!OpenOf(m) = (m - 1) * Hot.length
           /\ HotPart!CloseOf(m) = m * Hot.length
BY HotNumbers DEF HotPart!OpenOf, HotPart!CloseOf

LEMMA HotInvInit == HotPart!Init => HotInv
<1> SUFFICES ASSUME HotPart!Init PROVE HotInv
    OBVIOUS
<1>1. /\ g1 \in 0 .. 1 /\ g2 = [step |-> "poll", n |-> 1] /\ g3 = -1 /\ g4 = <<>>
      /\ \A m \in g7 : HotPart!OpenOf(m) <= g1
      /\ g8 = [market |-> -1, at |-> 0, wasTrue |-> 0, state |-> "none"]
    BY DEF HotPart!Init, HotPart!None
<1>2. HotPart!DecidesOnTheMarket
    BY <1>1 DEF HotPart!DecidesOnTheMarket, HotPart!ActsOnFreshBooks,
                HotPart!ActsWhileOpen, HotPart!Acts
<1>3. g2.step = "poll" /\ g2.n = 1 /\ DOMAIN g4 = {}
    BY <1>1
<1> QED BY <1>1, <1>2, <1>3 DEF HotInv

\* A decision to act was made on a book that was not too old and a market that
\* had begun and was not about to end.
LEMMA HotDecides ==
    ASSUME HotInv, NEW quote \in DOMAIN g4, NEW chance, HotPart!Decide(quote, chance)
    PROVE  HotPart!DecidesOnTheMarket'
<1> DEFINE m == Hot.targets[g2.n]
<1>1. /\ g2.step = "await"
      /\ g8' = [market |-> m, at |-> g1, wasTrue |-> g4[quote],
                state |-> HotPart!EvaluateEv(m, quote, HotPart!BookAge, chance)]
    BY DEF HotPart!Decide
<1>2. m \in Nat /\ g1 \in Nat /\ g3 \in Int /\ g4[quote] \in Int /\ g3 <= g4[quote]
      /\ (m \in g7 => HotPart!OpenOf(m) <= g1)
    BY <1>1, HotNumbers DEF HotInv
<1> HIDE DEF m
<1> SUFFICES ASSUME HotPart!Acts'
             PROVE  /\ g1 - g4[quote] <= Hot.bookAge
                    /\ HotPart!OpenOf(m) <= g1 /\ g1 + Hot.minSecs <= HotPart!CloseOf(m)
    BY <1>1 DEF HotPart!DecidesOnTheMarket, HotPart!ActsOnFreshBooks,
                HotPart!ActsWhileOpen, HotPart!OpenOf, HotPart!CloseOf
<1>3. HotPart!EvaluateEv(m, quote, HotPart!BookAge, chance) = "MANUAL_REVIEW"
    BY <1>1 DEF HotPart!Acts
<1>4. ~HotPart!Rejected(m, quote, HotPart!BookAge)
    BY <1>3 DEF HotPart!EvaluateEv
<1>5. /\ ~(HotPart!CloseOf(m) - g1 < Hot.minSecs)
      /\ ~(g1 - g3 > Hot.bookAge)
      /\ HotPart!HasReference(m)
    BY <1>4 DEF HotPart!Rejected, HotPart!BookAge
<1>6. HotPart!OpenOf(m) <= g1
    BY <1>2, <1>5, HotTimes DEF HotPart!HasReference
<1>7. HotPart!CloseOf(m) \in Int
    BY <1>2, HotTimes
<1>8. g1 - g4[quote] <= Hot.bookAge
    BY <1>2, <1>5, HotNumbers
<1>9. g1 + Hot.minSecs <= HotPart!CloseOf(m)
    BY <1>2, <1>5, <1>7, HotNumbers
<1> QED BY <1>6, <1>8, <1>9

LEMMA HotInvStep == HotInv /\ [HotPart!Next]_<<g1, g2, g3, g4, g5, g6, g7, g8>> => HotInv'
<1> SUFFICES ASSUME HotInv, [HotPart!Next]_<<g1, g2, g3, g4, g5, g6, g7, g8>> PROVE HotInv'
    OBVIOUS
<1> USE DEF HotPart!memory, HotPart!request, HotPart!None
<1>0. /\ g1 \in Nat /\ g2 = [step |-> g2.step, n |-> g2.n]
      /\ g3 \in Int /\ g3 <= g1
    BY DEF HotInv
<1>1. UNCHANGED g8 => HotPart!DecidesOnTheMarket'
    BY DEF HotInv, HotPart!DecidesOnTheMarket, HotPart!ActsOnFreshBooks,
           HotPart!ActsWhileOpen, HotPart!Acts, HotPart!OpenOf, HotPart!CloseOf
<1>2. UNCHANGED g7 /\ g1' \in Nat /\ g1 <= g1'
        => \A m \in g7' \cap Nat : HotPart!OpenOf(m)' <= g1'
    BY HotTimes, <1>0 DEF HotInv, HotPart!OpenOf
<1>3. CASE UNCHANGED <<g1, g2, g3, g4, g5, g6, g7, g8>>
    BY <1>0, <1>1, <1>2, <1>3 DEF HotInv
<1>4. CASE \E answered \in BOOLEAN : HotPart!Poll(answered)
  <2>1. /\ g2.step = "poll" /\ UNCHANGED <<g1, g3, g4, g7, g8>>
        /\ g2' = [g2 EXCEPT !.n = @ + 1] \/ g2' = [step |-> "ask", n |-> 1]
    BY <1>4 DEF HotPart!Poll
  <2>2. /\ g2' = [step |-> g2'.step, n |-> g2'.n]
        /\ g2'.step # "await" /\ (g2'.step = "ask" => g2'.n = 1)
    BY <1>0, <2>1
  <2> QED BY <1>0, <1>1, <1>2, <2>1, <2>2, HotNumbers DEF HotInv
<1>5. CASE \E quote \in Hot.quotes : HotPart!Ask(quote)
  <2>1. PICK quote \in Hot.quotes : HotPart!Ask(quote)
    BY <1>5
  <2>2. /\ g2.step = "ask" /\ UNCHANGED <<g1, g7, g8>>
        /\ g3' = g1 /\ g4' = [q \in {quote} |-> g1] /\ g2' = [g2 EXCEPT !.step = "await"]
    BY <2>1 DEF HotPart!Ask
  <2>3. g2' = [step |-> g2'.step, n |-> g2'.n] /\ g2'.step = "await" /\ g2'.n = g2.n
    BY <1>0, <2>2
  <2> QED BY <1>0, <1>1, <1>2, <2>2, <2>3 DEF HotInv
<1>6. CASE \E quote \in Hot.quotes : HotPart!ChangeQuote(quote)
  <2>1. PICK quote \in Hot.quotes : HotPart!ChangeQuote(quote)
    BY <1>6
  <2>2. /\ g2.step = "await" /\ UNCHANGED <<g1, g2, g3, g7, g8>>
        /\ g4' = [q \in DOMAIN g4 \cup {quote} |-> IF q = quote THEN g1 ELSE g4[q]]
    BY <2>1 DEF HotPart!ChangeQuote
  <2>3. \A q \in DOMAIN g4' : g4'[q] \in Int /\ g3 <= g4'[q]
    BY <1>0, <2>2 DEF HotInv
  <2> QED BY <1>0, <1>1, <1>2, <2>2, <2>3 DEF HotInv
<1>7. CASE \E quote \in DOMAIN g4 :
              \E chance \in HotPart!Scores(Hot.targets[g2.n]) : HotPart!Decide(quote, chance)
  <2>1. PICK quote \in DOMAIN g4, chance \in HotPart!Scores(Hot.targets[g2.n]) :
          HotPart!Decide(quote, chance)
    BY <1>7
  <2>2. g3' = -1 /\ g4' = <<>> /\ UNCHANGED <<g1, g7>> /\ g2' = HotPart!AfterTarget
        /\ g2.step = "await"
    BY <2>1 DEF HotPart!Decide
  <2>3. /\ g2' = [step |-> g2'.step, n |-> g2'.n] /\ g2'.step # "await"
        /\ g2'.step = "ask" => g2'.n \in 1 .. Len(Hot.targets)
    BY <2>2, HotNumbers, SMTT(30) DEF HotPart!AfterTarget, HotInv
  <2>4. HotPart!DecidesOnTheMarket'
    BY <2>1, HotDecides
  <2>5. DOMAIN g4' = {}
    BY <2>2
  <2> QED BY <1>0, <1>2, <2>2, <2>3, <2>4, <2>5 DEF HotInv
<1>8. CASE HotPart!NoBook
  <2>2. g3' = -1 /\ g4' = <<>> /\ UNCHANGED <<g1, g7, g8>> /\ g2' = HotPart!AfterTarget
        /\ g2.step = "await"
    BY <1>8 DEF HotPart!NoBook
  <2>3. /\ g2' = [step |-> g2'.step, n |-> g2'.n] /\ g2'.step # "await"
        /\ g2'.step = "ask" => g2'.n \in 1 .. Len(Hot.targets)
    BY <2>2, HotNumbers DEF HotPart!AfterTarget, HotInv
  <2>5. DOMAIN g4' = {}
    BY <2>2
  <2> QED BY <1>0, <1>1, <1>2, <2>2, <2>3, <2>5 DEF HotInv
<1>9. CASE HotPart!Wake
  <2>1. /\ g2.step = "sleep" /\ UNCHANGED <<g1, g3, g4, g7, g8>>
        /\ g2' = [step |-> g2'.step, n |-> g2'.n] /\ g2'.step \in {"poll", "done"}
    BY <1>9 DEF HotPart!Wake
  <2> QED BY <1>0, <1>1, <1>2, <2>1 DEF HotInv
<1>10. CASE HotPart!Tick
  <2>1. /\ g1' = g1 + 1 /\ UNCHANGED <<g2, g3, g7, g8>>
        /\ \/ g4 = <<>> /\ g4' = g4
           \/ g4 # <<>> /\ \E quote \in DOMAIN g4 :
                g4[quote] = g1 /\ g4' = [g4 EXCEPT ![quote] = g1 + 1]
    BY <1>10 DEF HotPart!Tick
  <2>2. \A q \in DOMAIN g4' : g4'[q] \in Int /\ g3 <= g4'[q]
    BY <1>0, <2>1 DEF HotInv
  <2>3. g2.step # "await" => g4' = <<>>
    BY <2>1 DEF HotInv
  <2> QED BY <1>0, <1>1, <1>2, <2>1, <2>2, <2>3 DEF HotInv
<1> QED BY <1>3, <1>4, <1>5, <1>6, <1>7, <1>8, <1>9, <1>10 DEF HotPart!Next

LEMMA RowPartInvStep ==
    ASSUME RowPartInv, NEW play \in {"rows", "cycle"},
           [RowPart!Next(Rows.plays[play])]_rowVars
    PROVE  RowPartInv'
<1> DEFINE p == Rows.plays[play]
<1>1. CASE UNCHANGED <<g1, g3, g6, g7, g10, g11, g12, g13>> /\ (g2' = g2 \/ g2'.kind = "down")
  <2>1. PollInv' /\ ContextInv' /\ DecidedInv'
    BY <1>1 DEF RowPartInv, PollInv, ContextInv, DecidedInv, Decisive, RowPart!NoRow,
                RowPart!Depths, RowPart!Edge, RowPart!Asks, RowPart!Fee
  <2>2. ClosingInv'
    BY <1>1 DEF RowPartInv, ClosingInv, RowPart!LedgerTellsTheEnd, RowPart!NoClosing,
                RowPart!Depths
  <2> QED BY <2>1, <2>2 DEF RowPartInv
<1>2. CASE UNCHANGED rowVars
    BY <1>1, <1>2 DEF rowVars
<1>3. CASE RowPart!Interrupt
    BY <1>1, <1>3 DEF RowPart!Interrupt, RowPart!Down
<1>4. CASE RowPart!Tick
  <2>1. /\ g1' = g1 + 1 /\ g3' = TRUE /\ g1 \in Nat
        /\ UNCHANGED <<g2, g6, g7, g10, g11, g12, g13>>
    BY <1>4 DEF RowPart!Tick, RowPartInv, PollInv
  <2>2. \A i \in DOMAIN g13 : g13[i].at \in 0 .. g1
    BY DEF RowPartInv, PollInv
  <2>3. PollsBy(g13, g1 + 1) = PollsBy(g13, g1)
      BY <2>1, <2>2 DEF PollsBy
  <2>4. PollInv'
    BY <2>1, <2>2, <2>3 DEF RowPartInv, PollInv, IsLastBy
  <2>5. ContextInv'
    BY <2>1 DEF RowPartInv, ContextInv, RowPart!NoRow
  <2>6. DecidedInv' /\ ClosingInv'
    BY <2>1 DEF RowPartInv, DecidedInv, Decisive, ClosingInv, RowPart!LedgerTellsTheEnd,
                RowPart!NoRow, RowPart!NoClosing, RowPart!Depths, RowPart!Edge, RowPart!Asks,
                RowPart!Fee
  <2> QED BY <2>4, <2>5, <2>6 DEF RowPartInv
<1>5. CASE RowPart!EndCycle
    BY <1>5, EndCycleTells
<1>6. CASE \E kind \in p.kinds, allows \in BOOLEAN :
              g2.count < p.maxRuns /\ RowPart!Start(kind, allows)
    BY <1>6, StartForgets
<1>7. CASE \E price \in p.prices, got \in p.answering,
              book \in {{q} : q \in p.quotes} \cup {{}},
              answers \in p.answers : RowPart!Iterate(price, answers, got, book)
  <2>1. PICK price \in p.prices, got \in p.answering,
             book \in {{q} : q \in p.quotes} \cup {{}},
             answers \in p.answers : RowPart!Iterate(price, answers, got, book)
    BY <1>7
  <2>2. /\ answers.spot \in Seq(ToSet(answers.spot))
        /\ answers.perp \in Seq(ToSet(answers.perp))
    BY <2>1, RowsConstants
  <2>3. \A q \in book : IsQuote(q)
    BY <2>1, RowsConstants DEF IsQuote
  <2> QED BY <2>1, <2>2, <2>3, IterateKeeps
<1>8. RowPart!Next(p) \/ UNCHANGED rowVars
    OBVIOUS
<1> HIDE DEF p
<1> QED BY <1>2, <1>3, <1>4, <1>5, <1>6, <1>7, <1>8 DEF RowPart!Next
-----------------------------------------------------------------------------
(* Together.                                                                *)

\* Each part keeps its own.
DecisionInv ==
    /\ part \in {"gates", "session"} => GateInv
    /\ part = "feeds" => FeedsInv
    /\ part \in {"rows", "cycle"} => RowPartInv
    /\ part = "hot" => HotInv

LEMMA DecisionInvInit == PartInit => DecisionInv
<1> SUFFICES ASSUME PartInit PROVE DecisionInv
    OBVIOUS
<1>1. part \in {"gates", "session"} => GateInv
    BY GateInvInit
<1>2. part = "feeds" => FeedsInv
    BY FeedsInvInit DEF PartInit
<1>3. part \in {"rows", "cycle"} => RowPartInv
    BY RowPartInvInit DEF PartInit
<1>4. part = "hot" => HotInv
    BY HotInvInit DEF PartInit
<1> QED BY <1>1, <1>2, <1>3, <1>4 DEF DecisionInv

LEMMA DecisionInvStep == DecisionInv /\ [PartNext]_allVars => DecisionInv'
<1> SUFFICES ASSUME DecisionInv, [PartNext]_allVars PROVE DecisionInv'
    OBVIOUS
<1>0. part' = part
    BY PartStep
<1>1. part \in {"gates", "session"} => GateInv'
    BY GateInvStep DEF DecisionInv
<1>2. part = "feeds" => [Feeds!Next]_feedVars
    BY DEF PartNext, Promotion, Decision, allVars, gs, from6, from9, feedVars
<1>3. \A play \in {"rows", "cycle"} : part = play => [RowPart!Next(Rows.plays[play])]_rowVars
    BY DEF PartNext, Promotion, Decision, allVars, gs, from6, from9, rowVars
<1>4. part = "hot" => [HotPart!Next]_<<g1, g2, g3, g4, g5, g6, g7, g8>>
    BY DEF PartNext, Promotion, Decision, allVars, gs, from6, from9
<1>5. part = "feeds" => FeedsInv'
    BY <1>2, FeedsInvStep DEF DecisionInv
<1>6. part \in {"rows", "cycle"} => RowPartInv'
    BY <1>3, RowPartInvStep DEF DecisionInv
<1>7. part = "hot" => HotInv'
    BY <1>4, HotInvStep DEF DecisionInv
<1> QED BY <1>0, <1>1, <1>5, <1>6, <1>7 DEF DecisionInv

\* Nothing that leads to an order is unsound: the gates, the risk manager's limits,
\* the age and the content of what is decided on, and what is told of it.
THEOREM NothingEverGoesLive == PartSpec => []NothingGoesLive
<1>1. DecisionInv => NothingGoesLive
    BY GatesKept, FeedsHold, RowsAreSound DEF DecisionInv, NothingGoesLive, HotInv
<1> QED BY <1>1, DecisionInvInit, DecisionInvStep, PTL DEF PartSpec
=============================================================================

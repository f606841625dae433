------------------------- MODULE RunnerPhasesProofs -------------------------
(***************************************************************************)
(* Proofs about RunnerPhases: whatever order the phases are called in,     *)
(* wherever they fail or are killed and whatever is changed between them,  *)
(* evidence stands for one chain of phases over the approved base, and it  *)
(* names the tree in the output directory; and what a phase leaves that    *)
(* failed or was killed (the second half of the module).                   *)
(*                                                                         *)
(* The argument: between two phases nothing is known of the directories,   *)
(* so the invariant speaks only of what was printed (Prints) and of what   *)
(* the phase under way has checked or made so far (Stage).  A phase finds  *)
(* in the directories what its digest says; the digest was printed; and    *)
(* what was printed is in order.                                           *)
(***************************************************************************)
EXTENDS RunnerPhases, TLAPS

Roots == {"original", "baseline", "candidate"}
Copies == {"baseline", "candidate"}

PreparedInOrder(d) == d.original = Base /\ d.baseline = Base /\ d.candidate \in Migrated(Base)

\* The trees npm left for a prepared state, with the sources as prepared.
InstalledOver(trees, installed, prepared) ==
    \A n \in Copies : trees[n] = [installed[n] EXCEPT !.src = prepared[n].src]

Linked(prepared, installed) ==
    /\ prepared \in Printed("prepared") /\ installed \in Printed("installed")
    /\ installed.prepared = prepared

DependenciesInOrder(s) ==
    /\ Linked(s.prepared, s.installed)
    /\ s.original = Base
    /\ InstalledOver(s, s.installed, s.prepared)

EvidenceInOrder(e) ==
    /\ e.state \in Printed("dependency")
    /\ e.output = Identity(Base, Regular(e.state.candidate))

-----------------------------------------------------------------------------
Shapes ==
    /\ DOMAIN deps = {"original", "baseline", "candidate", "manifest", "prepared", "state"}
    /\ DOMAIN inst = {"baseline", "candidate", "prepared", "state"}
    /\ DOMAIN run = {"step", "index", "replay", "locks", "prepared", "installed"}
    /\ plan \in {None, Base}

Prints ==
    /\ \A d \in Printed("prepared") : PreparedInOrder(d)
    /\ \A i \in Printed("installed") : i.prepared \in Printed("prepared")
    /\ \A s \in Printed("dependency") : DependenciesInOrder(s)
    /\ \A e \in Printed("evidence") : EvidenceInOrder(e)

ExtractStage ==
    run.step = "extract" =>
        /\ plan = Base
        /\ deps.original \in {None, Base} /\ deps.baseline \in {None, Base} /\ deps.candidate = None
        /\ deps.baseline # None => deps.original # None

ConvertStage ==
    run.step = "convert" => deps.original = Base /\ deps.baseline = Base /\ deps.candidate = Base

ConvertedStage == run.step \in {"project", "seal_deps"} => PreparedInOrder(deps)

SealInstStage == run.step = "seal_inst" => PreparedInOrder(deps.prepared)

InstallStage == run.step \in InstallSteps => run.prepared \in Printed("prepared")

ImportStage ==
    run.step = "import" =>
        /\ Linked(run.prepared, run.installed)
        /\ deps.original = Base
        /\ \A n \in Copies : deps[n] = run.prepared[n] /\ inst[n] = run.installed[n]

SealStage ==
    run.step = "seal" =>
        /\ Linked(run.prepared, run.installed)
        /\ deps.original = Base
        /\ InstalledOver(deps, run.installed, run.prepared)

OutputStage == run.step \in {"extract_output", "convert_output"} => DependenciesInOrder(deps.state)

VerifyStage ==
    run.step \in VerifySteps =>
        /\ deps.state \in Printed("dependency")
        /\ deps.original = Base /\ deps.candidate = deps.state.candidate
        /\ output = Regular(deps.candidate)

EvidenceStage == run.step = "write_evidence" => run.replay = output

Stage ==
    /\ ExtractStage /\ ConvertStage /\ ConvertedStage /\ SealInstStage
    /\ InstallStage
    /\ ImportStage /\ SealStage /\ OutputStage
    /\ VerifyStage /\ EvidenceStage

(* The inductive invariant.                                                *)
IInv == Shapes /\ Prints /\ Stage

-----------------------------------------------------------------------------
(* What is printed is never taken back; a phase that passes adds its own.  *)
LEMMA PassAdds ==
    ASSUME NEW k, NEW d, known' = known \cup {[kind |-> k, digest |-> d]}
    PROVE  \A kind : Printed(kind)' = IF kind = k THEN Printed(kind) \cup {d} ELSE Printed(kind)
<1> TAKE kind
<1> DEFINE new == [kind |-> k, digest |-> d]
<1>1. new.kind = k /\ new.digest = d
  OBVIOUS
<1> HIDE DEF new
<1>2. known' = known \cup {new}
  BY DEF new
<1>3. \A x : x \in Printed(kind) <=> \E y \in known : y.kind = kind /\ x = y.digest
  BY DEF Printed
<1>4. \A x : x \in Printed(kind)' <=> \E y \in known \cup {new} : y.kind = kind /\ x = y.digest
  BY <1>2 DEF Printed
<1>5. CASE kind = k
  <2>1. \A x : x \in Printed(kind)' <=> x \in Printed(kind) \/ x = d
    BY <1>1, <1>3, <1>4, <1>5
  <2> QED
    BY <2>1, <1>5
<1>6. CASE kind # k
  <2>1. \A x : x \in Printed(kind)' <=> x \in Printed(kind)
    BY <1>1, <1>3, <1>4, <1>6
  <2> QED
    BY <2>1, <1>6
<1> QED
  BY <1>5, <1>6

LEMMA SamePrints ==
    ASSUME known' = known
    PROVE  \A kind : Printed(kind)' = Printed(kind)
  BY DEF Printed

(* Where nothing is printed, what is in order stays so.                    *)
LEMMA PrintsStay ==
    ASSUME Prints, known' = known
    PROVE  Prints'
<1>1. \A kind : Printed(kind)' = Printed(kind)
  BY SamePrints
<1> QED
  BY <1>1 DEF Prints, PreparedInOrder, DependenciesInOrder, Linked, EvidenceInOrder

(* Between two phases no stage binds anything.                             *)
LEMMA Rests ==
    ASSUME run' = NoRun
    PROVE  Stage' /\ DOMAIN run' = {"step", "index", "replay", "locks", "prepared", "installed"}
<1>1. run'.step = "idle"
  BY DEF NoRun
<1>2. DOMAIN run' = {"step", "index", "replay", "locks", "prepared", "installed"}
  BY DEF NoRun
<1> QED
  BY <1>1, <1>2 DEF Stage, ExtractStage, ConvertStage, ConvertedStage, SealInstStage, InstallStage, ImportStage,
         SealStage, OutputStage, VerifyStage, EvidenceStage, InstallSteps, VerifySteps

(* The end of a phase that printed nothing, whatever it left behind.       *)
LEMMA RestInv ==
    ASSUME IInv, run' = NoRun, known' = known, plan' = plan,
           DOMAIN deps' = DOMAIN deps, DOMAIN inst' = DOMAIN inst
    PROVE  IInv'
  BY PrintsStay, Rests DEF IInv, Shapes

LEMMA InitInv == Init => IInv
<1> SUFFICES ASSUME Init PROVE IInv
  OBVIOUS
<1> USE DEF Init
<1>1. Shapes
  BY DEF Shapes, NoDeps, NoInst, NoRun
<1>2. Prints
  BY DEF Prints, Printed
<1>3. Stage
  BY DEF NoRun, Stage, ExtractStage, ConvertStage, ConvertedStage, SealInstStage, InstallStage, ImportStage,
         SealStage, OutputStage, VerifyStage, EvidenceStage, InstallSteps, VerifySteps
<1> QED
  BY <1>1, <1>2, <1>3 DEF IInv

-----------------------------------------------------------------------------
(* The bundle: what is archived, and thereby the plan, is the base.        *)
LEMMA BundleInv ==
    ASSUME IInv, Bundle \/ CheckHead \/ ListIndex \/ ReadSource \/ ReadLock \/ Encode
    PROVE  IInv'
<1> USE DEF IInv, still, input, dirs
<1>1. CASE Encode
  <2>1. run' = NoRun /\ known' = known /\ deps' = deps /\ inst' = inst /\ plan' = Base
    BY <1>1 DEF Encode
  <2> QED
    BY <2>1, PrintsStay, Rests DEF Shapes
<1>2. CASE ~Encode
  <2>1. /\ known' = known /\ deps' = deps /\ inst' = inst /\ plan' = plan
        /\ run'.step \in BundleSteps
        /\ DOMAIN run' = {"step", "index", "replay", "locks", "prepared", "installed"}
    BY <1>2 DEF Bundle, CheckHead, ListIndex, ReadSource, ReadLock, ReadTracked, Step, BeginWith, NoRun,
                Shapes, BundleSteps
  <2>2. Stage'
    BY <2>1 DEF BundleSteps, Stage, ExtractStage, ConvertStage, ConvertedStage, SealInstStage, InstallStage, ImportStage,
         SealStage, OutputStage, VerifyStage, EvidenceStage, InstallSteps, VerifySteps
  <2> QED
    BY <2>1, <2>2, PrintsStay DEF Shapes
<1> QED
  BY <1>1, <1>2

-----------------------------------------------------------------------------
(* prepare: three copies of the base, of which one is migrated.            *)
LEMMA PrepareInv ==
    ASSUME IInv, Prepare
    PROVE  IInv'
<1>1. /\ run' = [NoRun EXCEPT !.step = "extract", !.prepared = None, !.installed = None]
      /\ known' = known /\ deps' = deps /\ inst' = inst /\ plan' = plan /\ output' = output
      /\ deps = NoDeps /\ plan # None
  BY DEF Prepare, Begin, BeginWith, PlanIsCurrent, dirs, input
<1>2. run'.step = "extract" /\ DOMAIN run' = {"step", "index", "replay", "locks", "prepared", "installed"}
  BY <1>1 DEF NoRun
<1>3. Shapes'
  BY <1>1, <1>2 DEF IInv, Shapes
<1>4. Stage'
  BY <1>1, <1>2 DEF IInv, Shapes, NoDeps, Stage, ExtractStage, ConvertStage, ConvertedStage, SealInstStage, InstallStage, ImportStage,
         SealStage, OutputStage, VerifyStage, EvidenceStage, InstallSteps, VerifySteps
<1> QED
  BY <1>1, <1>3, <1>4, PrintsStay DEF IInv

LEMMA ExtractInv ==
    ASSUME IInv, Extract
    PROVE  IInv'
<1> DEFINE
      Empty(m) == /\ deps[m] = None
                  /\ m = "baseline" => deps.original # None
                  /\ m = "candidate" => deps.baseline # None
      n == CHOOSE m \in {"original", "baseline", "candidate"} : Empty(m)
<1>1. /\ known' = known /\ inst' = inst /\ plan' = plan
      /\ run.step = "extract"
      /\ deps' = [deps EXCEPT ![n] = plan]
      /\ run' = [run EXCEPT !.step = IF n = "candidate" THEN "convert" ELSE "extract"]
  BY DEF Extract, Step, still, input
<1>2. /\ plan = Base
      /\ deps.original \in {None, Base} /\ deps.baseline \in {None, Base} /\ deps.candidate = None
      /\ deps.baseline # None => deps.original # None
  BY <1>1 DEF IInv, Stage, ExtractStage
<1>3. n \in {"original", "baseline", "candidate"} /\ Empty(n)
  <2>1. \E m \in {"original", "baseline", "candidate"} : Empty(m)
    BY <1>2
  <2> QED
    BY <2>1
<1> HIDE DEF n
<1>4. Shapes'
  BY <1>1 DEF IInv, Shapes
<1>5. ExtractStage'
  BY <1>1, <1>2, <1>3 DEF IInv, Shapes, ExtractStage
<1>6. ConvertStage'
  BY <1>1, <1>2, <1>3 DEF IInv, Shapes, ConvertStage
<1>7. run'.step \in {"extract", "convert"}
  BY <1>1 DEF IInv, Shapes
<1>8. Stage'
  BY <1>5, <1>6, <1>7 DEF Stage, ConvertedStage, SealInstStage, InstallStage, ImportStage,
         SealStage, OutputStage, VerifyStage, EvidenceStage, InstallSteps, VerifySteps
<1> QED
  BY <1>1, <1>4, <1>8, PrintsStay DEF IInv

LEMMA ConvertInv ==
    ASSUME IInv, Convert
    PROVE  IInv'
<1>1. PICK tree \in Migrated(deps.candidate) : deps' = [deps EXCEPT !.candidate = tree]
  BY DEF Convert
<1>2. /\ known' = known /\ inst' = inst /\ plan' = plan
      /\ run.step = "convert" /\ run' = [run EXCEPT !.step = "project"]
  BY DEF Convert, Step, still, input
<1>3. deps.original = Base /\ deps.baseline = Base /\ deps.candidate = Base
  BY <1>2 DEF IInv, Stage, ConvertStage
<1>4. Shapes'
  BY <1>1, <1>2 DEF IInv, Shapes
<1>5. PreparedInOrder(deps')
  BY <1>1, <1>3 DEF IInv, Shapes, PreparedInOrder
<1>6. run'.step = "project"
  BY <1>2 DEF IInv, Shapes
<1>7. Stage'
  BY <1>5, <1>6 DEF PreparedInOrder, Stage, ExtractStage, ConvertStage, ConvertedStage, SealInstStage, InstallStage, ImportStage,
         SealStage, OutputStage, VerifyStage, EvidenceStage, InstallSteps, VerifySteps
<1> QED
  BY <1>2, <1>4, <1>7, PrintsStay DEF IInv

LEMMA ProjectInv ==
    ASSUME IInv, Project
    PROVE  IInv'
<1>1. /\ known' = known /\ plan' = plan
      /\ run.step = "project" /\ run' = [run EXCEPT !.step = "seal_deps"]
      /\ deps' = [deps EXCEPT !.manifest = TRUE]
      /\ inst' = [inst EXCEPT !.baseline = deps.baseline, !.candidate = deps.candidate]
  BY DEF Project, Step, still, input
<1>2. PreparedInOrder(deps)
  BY <1>1 DEF IInv, Stage, ConvertedStage
<1>3. Shapes'
  BY <1>1 DEF IInv, Shapes
<1>4. deps'.original = deps.original /\ deps'.baseline = deps.baseline /\ deps'.candidate = deps.candidate
  BY <1>1 DEF IInv, Shapes
<1>5. run'.step = "seal_deps"
  BY <1>1 DEF IInv, Shapes
<1>6. Stage'
  BY <1>2, <1>4, <1>5 DEF PreparedInOrder, Stage, ExtractStage, ConvertStage, ConvertedStage, SealInstStage, InstallStage, ImportStage,
         SealStage, OutputStage, VerifyStage, EvidenceStage, InstallSteps, VerifySteps
<1> QED
  BY <1>1, <1>3, <1>6, PrintsStay DEF IInv

LEMMA SealDepsInv ==
    ASSUME IInv, SealDeps
    PROVE  IInv'
<1> DEFINE state == [original |-> deps.original, baseline |-> deps.baseline, candidate |-> deps.candidate]
<1>1. /\ known' = known /\ plan' = plan /\ inst' = inst
      /\ run.step = "seal_deps" /\ run' = [run EXCEPT !.step = "seal_inst"]
      /\ deps' = [deps EXCEPT !.prepared = state]
  BY DEF SealDeps, Step, still, input
<1>2. PreparedInOrder(deps)
  BY <1>1 DEF IInv, Stage, ConvertedStage
<1>3. PreparedInOrder(state)
  BY <1>2 DEF PreparedInOrder
<1> HIDE DEF state
<1>4. Shapes'
  BY <1>1 DEF IInv, Shapes
<1>5. deps'.prepared = state /\ run'.step = "seal_inst"
  BY <1>1 DEF IInv, Shapes
<1>6. Stage'
  BY <1>3, <1>5 DEF PreparedInOrder, Stage, ExtractStage, ConvertStage, ConvertedStage, SealInstStage, InstallStage, ImportStage,
         SealStage, OutputStage, VerifyStage, EvidenceStage, InstallSteps, VerifySteps
<1> QED
  BY <1>1, <1>4, <1>6, PrintsStay DEF IInv

LEMMA SealInstInv ==
    ASSUME IInv, SealInst
    PROVE  IInv'
<1>1. /\ known' = known \cup {[kind |-> "prepared", digest |-> deps.prepared]}
      /\ run.step = "seal_inst" /\ run' = NoRun
      /\ deps' = deps /\ plan' = plan
      /\ inst' = [inst EXCEPT !.prepared = deps.prepared]
  BY DEF SealInst, Pass, still, input
<1>2. PreparedInOrder(deps.prepared)
  BY <1>1 DEF IInv, Stage, SealInstStage
<1>3. \A k : Printed(k)' = IF k = "prepared" THEN Printed(k) \cup {deps.prepared} ELSE Printed(k)
  BY <1>1, PassAdds
<1>4. Prints'
  BY <1>2, <1>3 DEF IInv, Prints, PreparedInOrder, DependenciesInOrder, Linked, EvidenceInOrder
<1>5. DOMAIN inst' = DOMAIN inst
  BY <1>1
<1> QED
  BY <1>1, <1>4, <1>5, Rests DEF IInv, Shapes

-----------------------------------------------------------------------------
(* install: a printed preparation, and what npm makes of it.               *)
LEMMA InstallInv ==
    ASSUME IInv, NEW d \in Printed("prepared"), Install(d)
    PROVE  IInv'
<1>1. /\ run' = [NoRun EXCEPT !.step = "install_baseline", !.prepared = d, !.installed = None]
      /\ known' = known /\ deps' = deps /\ inst' = inst /\ plan' = plan
  BY DEF Install, Begin, BeginWith, dirs, input
<1>2. run'.step = "install_baseline" /\ run'.prepared = d
      /\ DOMAIN run' = {"step", "index", "replay", "locks", "prepared", "installed"}
  BY <1>1 DEF NoRun
<1>3. run'.prepared \in Printed("prepared")'
  BY <1>1, <1>2, SamePrints
<1>4. Stage'
  BY <1>2, <1>3 DEF Stage, ExtractStage, ConvertStage, ConvertedStage, SealInstStage, InstallStage, ImportStage,
         SealStage, OutputStage, VerifyStage, EvidenceStage, InstallSteps, VerifySteps
<1>5. Shapes'
  BY <1>1, <1>2 DEF IInv, Shapes
<1> QED
  BY <1>1, <1>4, <1>5, PrintsStay DEF IInv

LEMMA NpmInv ==
    ASSUME IInv, InstallBaseline \/ InstallCandidate
    PROVE  IInv'
<1>1. PICK name \in Copies, lock \in Locks, mods \in Modules :
        inst' = [inst EXCEPT ![name].lock = lock, ![name].mods = mods]
  BY DEF InstallBaseline, InstallCandidate, NpmInstall, Copies
<1>2. DOMAIN inst' = DOMAIN inst
  BY <1>1
<1>3. PICK next \in {"install_candidate", "seal_install"} : run' = [run EXCEPT !.step = next]
  BY DEF InstallBaseline, InstallCandidate, NpmInstall, Step
<1>4. known' = known /\ deps' = deps /\ plan' = plan /\ run.step \in InstallSteps
  BY DEF InstallBaseline, InstallCandidate, NpmInstall, still, input, InstallSteps
<1>5. run'.step \in {"install_candidate", "seal_install"} /\ run'.prepared = run.prepared
  BY <1>3 DEF IInv, Shapes
<1>6. run'.prepared \in Printed("prepared")'
  BY <1>4, <1>5, SamePrints DEF IInv, Stage, InstallStage
<1>7. Stage'
  BY <1>5, <1>6 DEF Stage, ExtractStage, ConvertStage, ConvertedStage, SealInstStage, InstallStage, ImportStage,
         SealStage, OutputStage, VerifyStage, EvidenceStage, InstallSteps, VerifySteps
<1>8. Shapes'
  BY <1>2, <1>3, <1>4 DEF IInv, Shapes
<1> QED
  BY <1>4, <1>7, <1>8, PrintsStay DEF IInv

LEMMA SealInstallInv ==
    ASSUME IInv, SealInstall
    PROVE  IInv'
<1> DEFINE state == [prepared |-> run.prepared, baseline |-> inst.baseline, candidate |-> inst.candidate]
<1>1. /\ known' = known \cup {[kind |-> "installed", digest |-> state]}
      /\ run.step = "seal_install" /\ run' = NoRun
      /\ deps' = deps /\ plan' = plan
      /\ inst' = [inst EXCEPT !.state = state]
  BY DEF SealInstall, Pass, still, input
<1>2. state.prepared = run.prepared
  OBVIOUS
<1> HIDE DEF state
<1>3. state.prepared \in Printed("prepared")
  BY <1>1, <1>2 DEF IInv, Stage, InstallStage, InstallSteps
<1>4. \A k : Printed(k)' = IF k = "installed" THEN Printed(k) \cup {state} ELSE Printed(k)
  BY <1>1, PassAdds
<1>5. Prints'
  BY <1>3, <1>4 DEF IInv, Prints, PreparedInOrder, DependenciesInOrder, Linked, EvidenceInOrder
<1>6. DOMAIN inst' = DOMAIN inst
  BY <1>1
<1> QED
  BY <1>1, <1>5, <1>6, Rests DEF IInv, Shapes

-----------------------------------------------------------------------------
(* migrate: the directories are those of two printed digests, and the      *)
(* dependency state is made of them.                                       *)
LEMMA MigrateInv ==
    ASSUME IInv, NEW d \in Printed("prepared"), NEW i \in Printed("installed"), Migrate(d, i)
    PROVE  IInv'
<1>1. /\ run' = [NoRun EXCEPT !.step = "import", !.prepared = d, !.installed = i, !.locks = Lockfiles]
      /\ known' = known /\ deps' = deps /\ inst' = inst /\ plan' = plan
  BY DEF Migrate, BeginWith, dirs, input
<1>2. /\ run'.step = "import" /\ run'.prepared = d /\ run'.installed = i
      /\ DOMAIN run' = {"step", "index", "replay", "locks", "prepared", "installed"}
  BY <1>1 DEF NoRun
<1>3. Linked(d, i)' /\ Linked(d, i)
  <2>1. i.prepared = d
    BY DEF Migrate, InstallSealed
  <2> QED
    BY <1>1, <2>1, SamePrints DEF Linked
<1>4. deps.original = Base /\ \A n \in Copies : deps[n] = d[n] /\ inst[n] = i[n]
  <2>1. deps.original = d.original /\ \A n \in Copies : deps[n] = d[n]
    BY DEF Migrate, Sealed, Copies
  <2>2. \A n \in Copies : inst[n] = i[n]
    BY DEF Migrate, InstallSealed, Copies
  <2>3. d.original = Base
    BY DEF IInv, Prints, PreparedInOrder
  <2> QED
    BY <2>1, <2>2, <2>3
<1>5. ImportStage'
  BY <1>1, <1>2, <1>3, <1>4 DEF ImportStage, Linked
<1>6. Stage'
  BY <1>2, <1>5 DEF Stage, ExtractStage, ConvertStage, ConvertedStage, SealInstStage, InstallStage,
         SealStage, OutputStage, VerifyStage, EvidenceStage, InstallSteps, VerifySteps
<1>7. Shapes'
  BY <1>1, <1>2 DEF IInv, Shapes
<1> QED
  BY <1>1, <1>6, <1>7, PrintsStay DEF IInv

LEMMA ImportInv ==
    ASSUME IInv, Import
    PROVE  IInv'
<1>1. /\ run.step = "import" /\ run' = [run EXCEPT !.step = "seal"]
      /\ known' = known /\ inst' = inst /\ plan' = plan
      /\ deps' = [deps EXCEPT !.baseline = [inst.baseline EXCEPT !.src = deps.baseline.src],
                              !.candidate = [inst.candidate EXCEPT !.src = deps.candidate.src]]
  BY DEF Import, Step, still, input
<1>2. /\ Linked(run.prepared, run.installed)
      /\ deps.original = Base
      /\ \A n \in Copies : deps[n] = run.prepared[n] /\ inst[n] = run.installed[n]
  BY <1>1 DEF IInv, Stage, ImportStage
<1>3. /\ run'.step = "seal" /\ run'.prepared = run.prepared /\ run'.installed = run.installed
  BY <1>1 DEF IInv, Shapes
<1>4. Linked(run.prepared, run.installed)'
  BY <1>1, <1>2, <1>3, SamePrints DEF Linked
<1>5. deps'.original = Base
  BY <1>1, <1>2 DEF IInv, Shapes
<1>6. InstalledOver(deps', run'.installed, run'.prepared)
  <2>1. deps'.baseline = [inst.baseline EXCEPT !.src = deps.baseline.src]
    BY <1>1 DEF IInv, Shapes
  <2>2. deps'.candidate = [inst.candidate EXCEPT !.src = deps.candidate.src]
    BY <1>1 DEF IInv, Shapes
  <2>3. /\ deps.baseline = run.prepared.baseline /\ inst.baseline = run.installed.baseline
        /\ deps.candidate = run.prepared.candidate /\ inst.candidate = run.installed.candidate
    BY <1>2 DEF Copies
  <2> QED
    BY <1>3, <2>1, <2>2, <2>3 DEF InstalledOver, Copies
<1>7. SealStage'
  BY <1>4, <1>5, <1>6 DEF SealStage, InstalledOver
<1>8. Stage'
  BY <1>3, <1>7 DEF Stage, ExtractStage, ConvertStage, ConvertedStage, SealInstStage, InstallStage,
         ImportStage, OutputStage, VerifyStage, EvidenceStage, InstallSteps, VerifySteps
<1>9. Shapes'
  BY <1>1 DEF IInv, Shapes
<1> QED
  BY <1>1, <1>8, <1>9, PrintsStay DEF IInv

LEMMA SealInv ==
    ASSUME IInv, Seal
    PROVE  IInv'
<1> DEFINE state == [prepared |-> run.prepared, installed |-> run.installed,
                     original |-> deps.original, baseline |-> deps.baseline, candidate |-> deps.candidate]
<1>1. /\ run.step = "seal" /\ run' = [run EXCEPT !.step = "extract_output"]
      /\ known' = known /\ inst' = inst /\ plan' = plan
      /\ deps' = [deps EXCEPT !.state = state]
  BY DEF Seal, Step, still, input
<1>2. /\ Linked(run.prepared, run.installed)
      /\ deps.original = Base
      /\ InstalledOver(deps, run.installed, run.prepared)
  BY <1>1 DEF IInv, Stage, SealStage
<1>3. DependenciesInOrder(state)
  BY <1>2 DEF DependenciesInOrder, InstalledOver, Copies
<1> HIDE DEF state
<1>4. deps'.state = state /\ run'.step = "extract_output"
  BY <1>1 DEF IInv, Shapes
<1>5. DependenciesInOrder(deps.state)'
  BY <1>1, <1>3, <1>4, SamePrints DEF DependenciesInOrder, InstalledOver, Linked
<1>6. Stage'
  BY <1>4, <1>5 DEF Stage, ExtractStage, ConvertStage, ConvertedStage, SealInstStage, InstallStage, ImportStage,
         SealStage, OutputStage, VerifyStage, EvidenceStage, InstallSteps, VerifySteps
<1>7. Shapes'
  BY <1>1 DEF IInv, Shapes
<1> QED
  BY <1>1, <1>6, <1>7, PrintsStay DEF IInv

LEMMA ExtractOutputInv ==
    ASSUME IInv, ExtractOutput
    PROVE  IInv'
<1>1. /\ run.step = "extract_output" /\ run' = [run EXCEPT !.step = "convert_output"]
      /\ known' = known /\ deps' = deps /\ inst' = inst /\ plan' = plan
  BY DEF ExtractOutput, Step, still, input
<1>2. run'.step = "convert_output"
  BY <1>1 DEF IInv, Shapes
<1>3. DependenciesInOrder(deps.state)
  BY <1>1 DEF IInv, Stage, OutputStage
<1>4. DependenciesInOrder(deps.state)'
  BY <1>1, <1>3, SamePrints DEF DependenciesInOrder, InstalledOver, Linked
<1>5. Stage'
  BY <1>2, <1>4 DEF Stage, ExtractStage, ConvertStage, ConvertedStage, SealInstStage, InstallStage, ImportStage,
         SealStage, OutputStage, VerifyStage, EvidenceStage, InstallSteps, VerifySteps
<1>6. Shapes'
  BY <1>1 DEF IInv, Shapes
<1> QED
  BY <1>1, <1>5, <1>6, PrintsStay DEF IInv

LEMMA ConvertOutputInv ==
    ASSUME IInv, ConvertOutput
    PROVE  IInv'
<1>1. /\ known' = known \cup {[kind |-> "dependency", digest |-> deps.state]}
      /\ run.step = "convert_output" /\ run' = NoRun
      /\ deps' = deps /\ inst' = inst /\ plan' = plan
  BY DEF ConvertOutput, Pass, still, input
<1>2. DependenciesInOrder(deps.state)
  BY <1>1 DEF IInv, Stage, OutputStage
<1>3. \A k : Printed(k)' = IF k = "dependency" THEN Printed(k) \cup {deps.state} ELSE Printed(k)
  BY <1>1, PassAdds
<1>4. Prints'
  BY <1>2, <1>3 DEF IInv, Prints, PreparedInOrder, DependenciesInOrder, Linked, InstalledOver, EvidenceInOrder
<1> QED
  BY <1>1, <1>4, Rests DEF IInv, Shapes

-----------------------------------------------------------------------------
(* verify: the trees are those of a printed dependency state, and the      *)
(* output is its candidate, until the evidence is written.                 *)
LEMMA VerifyInv ==
    ASSUME IInv, NEW s \in Printed("dependency"), Verify(s)
    PROVE  IInv'
<1>1. /\ run' = [NoRun EXCEPT !.step = "replay", !.prepared = None, !.installed = None]
      /\ known' = known /\ deps' = deps /\ inst' = inst /\ plan' = plan /\ output' = output
  BY DEF Verify, Begin, BeginWith, dirs, input
<1>2. run'.step = "replay" /\ DOMAIN run' = {"step", "index", "replay", "locks", "prepared", "installed"}
  BY <1>1 DEF NoRun
<1>3. deps.state = s /\ deps.original = s.original /\ deps.candidate = s.candidate
  BY DEF Verify, DependenciesSealed
<1>4. s.original = Base
  BY DEF IInv, Prints, DependenciesInOrder
<1>5. output = Regular(deps.candidate)
  BY DEF Verify
<1>6. VerifyStage'
  BY <1>1, <1>3, <1>4, <1>5, SamePrints DEF VerifyStage, Regular
<1>7. Stage'
  BY <1>2, <1>6 DEF Stage, ExtractStage, ConvertStage, ConvertedStage, SealInstStage, InstallStage,
         ImportStage, SealStage, OutputStage, EvidenceStage, InstallSteps
<1>8. Shapes'
  BY <1>1, <1>2 DEF IInv, Shapes
<1> QED
  BY <1>1, <1>7, <1>8, PrintsStay DEF IInv

LEMMA CheckInv ==
    ASSUME IInv, Replay \/ CheckBaseline \/ CheckReplay
    PROVE  IInv'
<1>1. /\ known' = known /\ deps' = deps /\ inst' = inst /\ plan' = plan /\ output' = output
      /\ run.step \in VerifySteps
      /\ DOMAIN run' = DOMAIN run
  BY DEF Replay, CheckBaseline, CheckReplay, Step, still, input, dirs, VerifySteps
<1>2. run'.step \in VerifySteps /\ (run'.step = "write_evidence" => run'.replay = output)
  <2>1. CASE Replay
    BY <2>1 DEF Replay, IInv, Shapes, VerifySteps
  <2>2. CASE CheckBaseline
    BY <2>2 DEF CheckBaseline, Step, IInv, Shapes, VerifySteps
  <2>3. CASE CheckReplay
    <3>1. PICK src \in Sources :
            /\ output = [run.replay EXCEPT !.src = src]
            /\ run' = [run EXCEPT !.step = "write_evidence", !.replay.src = src]
      BY <2>3 DEF CheckReplay
    <3>2. run'.step = "write_evidence" /\ run'.replay = [run.replay EXCEPT !.src = src]
      BY <3>1 DEF IInv, Shapes
    <3> QED
      BY <3>1, <3>2 DEF VerifySteps
  <2> QED
    BY <2>1, <2>2, <2>3
<1>3. VerifyStage'
  BY <1>1, SamePrints DEF IInv, Stage, VerifyStage, Regular
<1>4. EvidenceStage'
  BY <1>1, <1>2 DEF EvidenceStage
<1>5. Stage'
  BY <1>2, <1>3, <1>4 DEF Stage, ExtractStage, ConvertStage, ConvertedStage, SealInstStage, InstallStage,
         ImportStage, SealStage, OutputStage, InstallSteps, VerifySteps
<1>6. Shapes'
  BY <1>1 DEF IInv, Shapes
<1> QED
  BY <1>1, <1>5, <1>6, PrintsStay DEF IInv

LEMMA WriteEvidenceInv ==
    ASSUME IInv, WriteEvidence
    PROVE  IInv'
<1> DEFINE e == [state |-> deps.state, output |-> Identity(deps.original, output)]
<1>1. /\ result' = e /\ known' = known \cup {[kind |-> "evidence", digest |-> e]}
      /\ run.step = "write_evidence" /\ run' = NoRun
      /\ deps' = deps /\ inst' = inst /\ plan' = plan
  BY DEF WriteEvidence, Pass, still, input
<1>2. /\ deps.state \in Printed("dependency")
      /\ deps.original = Base /\ deps.candidate = deps.state.candidate
      /\ output = Regular(deps.candidate)
  BY <1>1 DEF IInv, Stage, VerifyStage, VerifySteps
<1>3. EvidenceInOrder(e)
  BY <1>2 DEF EvidenceInOrder
<1> HIDE DEF e
<1>4. \A k : Printed(k)' = IF k = "evidence" THEN Printed(k) \cup {e} ELSE Printed(k)
  BY <1>1, PassAdds
<1>5. Prints'
  BY <1>3, <1>4 DEF IInv, Prints, PreparedInOrder, DependenciesInOrder, Linked, InstalledOver, EvidenceInOrder
<1> QED
  BY <1>1, <1>5, Rests DEF IInv, Shapes

-----------------------------------------------------------------------------
(* A phase that fails or is killed leaves nothing that has to be in order. *)
LEMMA FailInv ==
    ASSUME IInv, Fail \/ Kill
    PROVE  IInv'
<1>1. run' = NoRun /\ known' = known /\ plan' = plan
  BY DEF Fail, Kill, still, input
<1>2. DOMAIN deps' = DOMAIN deps /\ DOMAIN inst' = DOMAIN inst
  <2>1. CASE Fail
    BY <2>1 DEF Fail, UndoPrepare, UndoInstall, UndoMigrate, dirs, IInv, Shapes, NoDeps
  <2>2. CASE Kill
    BY <2>2 DEF Kill, dirs
  <2> QED
    BY <2>1, <2>2
<1> QED
  BY <1>1, <1>2, RestInv

LEMMA TouchInv ==
    ASSUME IInv, Touch
    PROVE  IInv'
<1>1. run.step = "idle" /\ run' = run /\ known' = known /\ plan' = plan
  BY DEF Touch
<1>2. DOMAIN deps' = DOMAIN deps /\ DOMAIN inst' = DOMAIN inst
  BY DEF Touch
<1>3. Stage'
  BY <1>1 DEF Stage, ExtractStage, ConvertStage, ConvertedStage, SealInstStage, InstallStage, ImportStage,
         SealStage, OutputStage, VerifyStage, EvidenceStage, InstallSteps, VerifySteps
<1> QED
  BY <1>1, <1>2, <1>3, PrintsStay DEF IInv, Shapes

(* What the invariant does not speak of.                                   *)
LEMMA OthersInv ==
    ASSUME IInv, TouchCheckout \/ Tick \/ UNCHANGED vars
    PROVE  IInv'
<1>1. run' = run /\ known' = known /\ plan' = plan /\ deps' = deps /\ inst' = inst /\ output' = output
  BY DEF TouchCheckout, Tick, vars, input, dirs
<1>2. \A k : Printed(k)' = Printed(k)
  BY <1>1, SamePrints
<1>3. Stage'
  BY <1>1, <1>2 DEF IInv, PreparedInOrder, DependenciesInOrder, Linked, InstalledOver, Regular,
         Stage, ExtractStage, ConvertStage, ConvertedStage, SealInstStage, InstallStage, ImportStage,
         SealStage, OutputStage, VerifyStage, EvidenceStage, InstallSteps, VerifySteps
<1> QED
  BY <1>1, <1>3, PrintsStay DEF IInv, Shapes

LEMMA StepInv == IInv /\ [Next]_vars => IInv'
<1> SUFFICES ASSUME IInv, [Next]_vars PROVE IInv'
  OBVIOUS
<1>1. CASE Bundle \/ CheckHead \/ ListIndex \/ ReadSource \/ ReadLock \/ Encode
  BY <1>1, BundleInv
<1>2. CASE Prepare \/ Extract \/ Convert \/ Project \/ SealDeps \/ SealInst
  BY <1>2, PrepareInv, ExtractInv, ConvertInv, ProjectInv, SealDepsInv, SealInstInv
<1>3. CASE \E d \in Printed("prepared") :
              Install(d) \/ \E i \in Printed("installed") : Migrate(d, i)
  BY <1>3, InstallInv, MigrateInv
<1>4. CASE InstallBaseline \/ InstallCandidate \/ SealInstall
  BY <1>4, NpmInv, SealInstallInv
<1>5. CASE Import \/ Seal \/ ExtractOutput \/ ConvertOutput
  BY <1>5, ImportInv, SealInv, ExtractOutputInv, ConvertOutputInv
<1>6. CASE \E s \in Printed("dependency") : Verify(s)
  BY <1>6, VerifyInv
<1>7. CASE Replay \/ CheckBaseline \/ CheckReplay \/ WriteEvidence
  BY <1>7, CheckInv, WriteEvidenceInv
<1>8. CASE Fail \/ Kill \/ Touch
  BY <1>8, FailInv, TouchInv
<1>9. CASE TouchCheckout \/ Tick \/ UNCHANGED vars
  BY <1>9, OthersInv
<1> QED
  BY <1>1, <1>2, <1>3, <1>4, <1>5, <1>6, <1>7, <1>8, <1>9 DEF Next

LEMMA Invariant == Spec => []IInv
  BY InitInv, StepInv, PTL DEF Spec

-----------------------------------------------------------------------------
(* Whatever the order of the phases, their failures, kills and the changes *)
(* between them, and whatever happens to the checkout while the bundle is  *)
(* made, every evidence runVerifyPhase prints stands for one chain from    *)
(* the approved base through the printed states of prepare, install and    *)
(* migrate to the tree it names.                                           *)
THEOREM OneChain == Spec => []EvidenceIsOneChain
<1>1. IInv => EvidenceIsOneChain
  <2> SUFFICES ASSUME IInv, NEW e \in Printed("evidence")
               PROVE  /\ e.state \in Printed("dependency")
                      /\ e.state.installed \in Printed("installed")
                      /\ e.state.prepared \in Printed("prepared")
                      /\ e.state.installed.prepared = e.state.prepared
                      /\ e.state.original = Base
                      /\ e.state.prepared.baseline.src = "source"
                      /\ e.state.prepared.candidate.src \in Migrations
                      /\ \A n \in {"baseline", "candidate"} :
                            e.state[n] = [e.state.installed[n] EXCEPT !.src = e.state.prepared[n].src]
                      /\ e.output = Identity(Base, Regular(e.state.candidate))
    BY DEF EvidenceIsOneChain
  <2>1. e.state \in Printed("dependency") /\ e.output = Identity(Base, Regular(e.state.candidate))
    BY DEF IInv, Prints, EvidenceInOrder
  <2>2. DependenciesInOrder(e.state)
    BY <2>1 DEF IInv, Prints
  <2>3. PreparedInOrder(e.state.prepared)
    BY <2>2 DEF DependenciesInOrder, Linked, IInv, Prints
  <2>4. e.state.prepared.baseline.src = "source" /\ e.state.prepared.candidate.src \in Migrations
    BY <2>3 DEF PreparedInOrder, Base, Migrated
  <2> QED
    BY <2>1, <2>2, <2>4 DEF DependenciesInOrder, Linked, InstalledOver, Copies
<1> QED
  BY <1>1, Invariant, PTL

(* When the evidence is printed, the output directory holds the tree that  *)
(* the evidence names, which is the one the checks of runVerifyPhase left  *)
(* behind.                                                                 *)
THEOREM NamesOutput == Spec => EvidenceNamesOutput
<1> DEFINE
      Named == Printed("evidence")' # Printed("evidence") =>
                  /\ [kind |-> "evidence", digest |-> result'] \in known'
                  /\ result'.output.tree = output' /\ result'.output.tree = run.replay
<1>1. IInv /\ [Next]_vars => [Named]_vars
  <2> SUFFICES ASSUME IInv, Next, Printed("evidence")' # Printed("evidence")
               PROVE  /\ [kind |-> "evidence", digest |-> result'] \in known'
                      /\ result'.output.tree = output' /\ result'.output.tree = run.replay
    BY DEF vars
  <2>1. WriteEvidence
    <3>1. known' # known
      BY SamePrints
    <3>2. /\ \A d : known' # known \cup {[kind |-> "prepared", digest |-> d]}
          /\ \A d : known' # known \cup {[kind |-> "installed", digest |-> d]}
          /\ \A d : known' # known \cup {[kind |-> "dependency", digest |-> d]}
      BY PassAdds
    <3>3. CASE Bundle \/ CheckHead \/ ListIndex \/ ReadSource \/ ReadLock \/ Encode
      BY <3>1, <3>3 DEF Bundle, CheckHead, ListIndex, ReadSource, ReadLock, ReadTracked, Encode, BeginWith
    <3>4. CASE Prepare \/ Extract \/ Convert \/ Project \/ SealDeps \/ SealInst
      BY <3>1, <3>2, <3>4 DEF Prepare, Extract, Convert, Project, SealDeps, SealInst, Begin, BeginWith, Pass
    <3>5. CASE \E d \in Printed("prepared") :
                  Install(d) \/ \E i \in Printed("installed") : Migrate(d, i)
      BY <3>1, <3>5 DEF Install, Migrate, Begin, BeginWith
    <3>6. CASE InstallBaseline \/ InstallCandidate \/ SealInstall
      BY <3>1, <3>2, <3>6 DEF InstallBaseline, InstallCandidate, NpmInstall, SealInstall, Pass
    <3>7. CASE Import \/ Seal \/ ExtractOutput \/ ConvertOutput
      BY <3>1, <3>2, <3>7 DEF Import, Seal, ExtractOutput, ConvertOutput, Pass
    <3>8. CASE \E s \in Printed("dependency") : Verify(s)
      BY <3>1, <3>8 DEF Verify, Begin, BeginWith
    <3>9. CASE Replay \/ CheckBaseline \/ CheckReplay
      BY <3>1, <3>9 DEF Replay, CheckBaseline, CheckReplay
    <3>10. CASE Fail \/ Kill \/ Touch \/ TouchCheckout \/ Tick
      BY <3>1, <3>10 DEF Fail, Kill, Touch, TouchCheckout, Tick
    <3> QED
      BY <3>3, <3>4, <3>5, <3>6, <3>7, <3>8, <3>9, <3>10 DEF Next
  <2>2. /\ result' = [state |-> deps.state, output |-> Identity(deps.original, output)]
        /\ known' = known \cup {[kind |-> "evidence", digest |-> result']}
        /\ output' = output /\ run.step = "write_evidence"
    BY <2>1 DEF WriteEvidence, Pass
  <2>3. result'.output.tree = Regular(output)
    BY <2>2 DEF Identity
  <2>4. output = Regular(deps.candidate) /\ run.replay = output
    BY <2>2 DEF IInv, Stage, VerifyStage, EvidenceStage, VerifySteps
  <2>5. Regular(output) = output
    BY <2>4 DEF Regular
  <2> QED
    BY <2>2, <2>3, <2>4, <2>5
<1> QED
  BY <1>1, Invariant, PTL DEF Spec, EvidenceNamesOutput

-----------------------------------------------------------------------------
(***************************************************************************)
(* What a phase leaves when it fails, and when it is killed.               *)
(*                                                                         *)
(* The argument: every phase passes at most once, because passing it       *)
(* leaves something that the phase refuses to find (Shut): prepare a       *)
(* source, install and migrate the modules of npm in the baseline, verify  *)
(* a result.  The same thing is left by a phase that is killed after it    *)
(* began to write.  Its digest is then missing for good, and with it the   *)
(* digests of the later phases (Stuck).  The phase under way has changed   *)
(* nothing but what its catch block takes back (Working).                  *)
(***************************************************************************)

Typed ==
    /\ deps \in [original : Tree \cup {None}, baseline : Tree \cup {None}, candidate : Tree \cup {None},
                 manifest : BOOLEAN, prepared : PreparedState \cup {None, Foreign},
                 state : DependencyState \cup {None, Foreign}]
    /\ inst \in [baseline : Tree \cup {None}, candidate : Tree \cup {None},
                 prepared : PreparedState \cup {None, Foreign}, state : InstallState \cup {None, Foreign}]
    /\ output \in Tree \cup {None}
    /\ result \in Evidence \cup {None, Foreign}

\* npm has been at work in the tree.
Used(tree) == tree \in Tree /\ tree.mods # None

InPhase ==
    run.step \in {"idle"} \cup BundleSteps \cup PrepareSteps \cup InstallSteps \cup MigrateSteps \cup VerifySteps

Bundling == run.step \in BundleSteps => before = <<deps, inst, output, result>>

Preparing ==
    run.step \in PrepareSteps =>
        /\ Printed("prepared") = {}
        /\ before = <<NoDeps, NoInst, output, result>>
        /\ deps.state = None /\ inst.state = None
        /\ ~Used(deps.baseline) /\ ~Used(inst.baseline)
        /\ run.step = "extract" => deps.manifest = FALSE /\ deps.prepared = None
        /\ run.step \in {"extract", "convert", "project"} => inst = NoInst
        /\ run.step # "extract" => deps.original # None
        /\ run.step = "seal_inst" => deps.prepared \in PreparedState

Installing ==
    run.step \in InstallSteps =>
        /\ Printed("installed") = {}
        /\ run.prepared \in PreparedState
        /\ inst.baseline \in Tree /\ inst.candidate \in Tree
        /\ IF run.step = "install_baseline" THEN before = <<deps, inst, output, result>> ELSE Used(inst.baseline)

Undone(d, locks) ==
    [d EXCEPT !.baseline = [src |-> d.baseline.src, lock |-> locks.baseline, mods |-> None],
              !.candidate = [src |-> d.candidate.src, lock |-> locks.candidate, mods |-> None],
              !.state = None]

Migrating ==
    run.step \in MigrateSteps =>
        /\ Printed("dependency") = {}
        /\ run.prepared \in PreparedState /\ run.installed \in InstallState
        /\ run.locks \in [baseline : Locks, candidate : Locks]
        /\ {deps.original, deps.baseline, deps.candidate, inst.baseline, inst.candidate} \subseteq Tree
        /\ before = <<Undone(deps, run.locks), inst, None, result>>
        /\ IF run.step = "import" THEN before = <<deps, inst, output, result>> ELSE Used(deps.baseline)

Verifying ==
    run.step \in VerifySteps =>
        /\ Printed("evidence") = {}
        /\ deps.state \in DependencyState
        /\ before = <<deps, inst, output, None>>

Shut ==
    /\ Printed("prepared") # {} => deps.original # None
    /\ Printed("installed") # {} => Used(inst.baseline)
    /\ Printed("dependency") # {} => Used(deps.baseline)
    /\ Printed("evidence") # {} => result # None
    /\ deps.state # None => Used(deps.baseline)

Stuck ==
    killed =>
        \/ Printed("prepared") = {} /\ deps.original # None /\ run.step \notin PrepareSteps
        \/ Printed("installed") = {} /\ Used(inst.baseline) /\ run.step \notin InstallSteps
        \/ Printed("dependency") = {} /\ Used(deps.baseline) /\ run.step \notin MigrateSteps
        \/ Printed("evidence") = {} /\ result # None /\ run.step \notin VerifySteps

Working == InPhase /\ Bundling /\ Preparing /\ Installing /\ Migrating /\ Verifying

(* The inductive invariant of this part, given IInv.                       *)
Progress == Typed /\ Working /\ Shut /\ Stuck

(* Nothing is printed, and what would stop a phase is still there.         *)
Keeps ==
    /\ known' = known /\ killed' = killed
    /\ deps.original # None => deps'.original # None
    /\ Used(inst.baseline) => Used(inst'.baseline)
    /\ Used(deps.baseline) => Used(deps'.baseline)
    /\ result # None => result' # None
    /\ deps'.state # None => deps.state # None

(* A step that stays in its phase, ends it, or is made while none is under way. *)
SamePhase ==
    \A steps \in {PrepareSteps, InstallSteps, MigrateSteps, VerifySteps} :
        run'.step \in steps => run.step \in steps

-----------------------------------------------------------------------------
LEMMA KeepsShut ==
    ASSUME Shut, Keeps
    PROVE  Shut'
<1>1. \A k : Printed(k)' = Printed(k)
  BY SamePrints DEF Keeps
<1> QED
  BY <1>1 DEF Shut, Keeps

LEMMA KeepsStuck ==
    ASSUME Stuck, Keeps, SamePhase
    PROVE  Stuck'
<1>1. \A k : Printed(k)' = Printed(k)
  BY SamePrints DEF Keeps
<1>2. /\ run'.step \in PrepareSteps => run.step \in PrepareSteps
      /\ run'.step \in InstallSteps => run.step \in InstallSteps
      /\ run'.step \in MigrateSteps => run.step \in MigrateSteps
      /\ run'.step \in VerifySteps => run.step \in VerifySteps
  BY DEF SamePhase
<1> QED
  BY <1>1, <1>2 DEF Stuck, Keeps

(* The steps of a phase are its own.                                       *)
LEMMA Idle ==
    ASSUME run'.step = "idle"
    PROVE  Working' /\ SamePhase
  BY DEF Working, InPhase, Bundling, Preparing, Installing, Migrating, Verifying, SamePhase,
         BundleSteps, PrepareSteps, InstallSteps, MigrateSteps, VerifySteps

LEMMA OnlyBundling ==
    ASSUME run'.step \in BundleSteps
    PROVE  (Bundling' => Working') /\ SamePhase
  BY DEF Working, InPhase, Bundling, Preparing, Installing, Migrating, Verifying, SamePhase,
         BundleSteps, PrepareSteps, InstallSteps, MigrateSteps, VerifySteps

LEMMA OnlyPreparing ==
    ASSUME run'.step \in PrepareSteps
    PROVE  (Preparing' => Working') /\ (run.step \in PrepareSteps => SamePhase)
  BY DEF Working, InPhase, Bundling, Preparing, Installing, Migrating, Verifying, SamePhase,
         BundleSteps, PrepareSteps, InstallSteps, MigrateSteps, VerifySteps

LEMMA OnlyInstalling ==
    ASSUME run'.step \in InstallSteps
    PROVE  (Installing' => Working') /\ (run.step \in InstallSteps => SamePhase)
  BY DEF Working, InPhase, Bundling, Preparing, Installing, Migrating, Verifying, SamePhase,
         BundleSteps, PrepareSteps, InstallSteps, MigrateSteps, VerifySteps

LEMMA OnlyMigrating ==
    ASSUME run'.step \in MigrateSteps
    PROVE  (Migrating' => Working') /\ (run.step \in MigrateSteps => SamePhase)
  BY DEF Working, InPhase, Bundling, Preparing, Installing, Migrating, Verifying, SamePhase,
         BundleSteps, PrepareSteps, InstallSteps, MigrateSteps, VerifySteps

LEMMA OnlyVerifying ==
    ASSUME run'.step \in VerifySteps
    PROVE  (Verifying' => Working') /\ (run.step \in VerifySteps => SamePhase)
  BY DEF Working, InPhase, Bundling, Preparing, Installing, Migrating, Verifying, SamePhase,
         BundleSteps, PrepareSteps, InstallSteps, MigrateSteps, VerifySteps

(* No file is None, and a tree without its modules is not one npm used.    *)
LEMMA NoneIsNoFile ==
    /\ None \notin Tree /\ None \notin PreparedState /\ None \notin InstallState
    /\ None \notin DependencyState /\ None \notin Evidence /\ None # Foreign
    /\ Base \in Tree /\ Base.mods = None /\ ~Used(None)
  BY RunnerPhasesAssumption DEF Used, Base, Tree, Sources

LEMMA InitProgress == Init => Progress
<1> SUFFICES ASSUME Init PROVE Progress
  OBVIOUS
<1>1. Typed
  BY DEF Init, Typed, NoDeps, NoInst
<1>2. \A k : Printed(k) = {}
  BY DEF Init, Printed
<1>3. Working
  BY DEF Init, NoRun, Working, InPhase, Bundling, Preparing, Installing, Migrating, Verifying,
         BundleSteps, PrepareSteps, InstallSteps, MigrateSteps, VerifySteps
<1>4. Shut
  BY <1>2 DEF Init, Shut, NoDeps
<1>5. Stuck
  BY DEF Init, Stuck
<1> QED
  BY <1>1, <1>3, <1>4, <1>5 DEF Progress

-----------------------------------------------------------------------------
LEMMA BundleProgress ==
    ASSUME IInv, Progress, Bundle \/ CheckHead \/ ListIndex \/ ReadSource \/ ReadLock \/ Encode
    PROVE  Progress'
<1>1. /\ known' = known /\ killed' = killed
      /\ deps' = deps /\ inst' = inst /\ output' = output /\ result' = result
  BY DEF Bundle, CheckHead, ListIndex, ReadSource, ReadLock, ReadTracked, Encode, BeginWith, still, dirs
<1>2. Typed'
  BY <1>1 DEF Progress, Typed
<1>3. Keeps
  BY <1>1 DEF Keeps, Used
<1>4. Working' /\ SamePhase
  <2>1. CASE Encode
    <3>1. run'.step = "idle"
      BY <2>1 DEF Encode, NoRun
    <3> QED
      BY <3>1, Idle
  <2>2. CASE Bundle
    <3>1. before' = <<deps, inst, output, result>> /\ run'.step \in BundleSteps
      BY <2>2 DEF Bundle, BeginWith, NoRun, BundleSteps
    <3> QED
      BY <1>1, <3>1, OnlyBundling DEF Bundling
  <2>3. CASE CheckHead \/ ListIndex \/ ReadSource \/ ReadLock
    <3>1. before' = before /\ run.step \in BundleSteps /\ run'.step \in BundleSteps
      BY <2>3 DEF CheckHead, ListIndex, ReadSource, ReadLock, ReadTracked, Step, still, BundleSteps,
                  IInv, Shapes
    <3> QED
      BY <1>1, <3>1, OnlyBundling DEF Bundling, Progress, Working
  <2> QED
    BY <2>1, <2>2, <2>3
<1> QED
  BY <1>2, <1>3, <1>4, KeepsShut, KeepsStuck DEF Progress

LEMMA PrepareProgress ==
    ASSUME Progress, Prepare
    PROVE  Progress'
<1>1. /\ run' = [NoRun EXCEPT !.step = "extract", !.prepared = None, !.installed = None]
      /\ before' = <<deps, inst, output, result>>
      /\ known' = known /\ killed' = killed
      /\ deps' = deps /\ inst' = inst /\ output' = output /\ result' = result
      /\ deps = NoDeps /\ inst = NoInst
  BY DEF Prepare, Begin, BeginWith, dirs
<1>2. run'.step = "extract" /\ run'.step \in PrepareSteps
  BY <1>1 DEF NoRun, PrepareSteps
<1>3. \A k : Printed(k)' = Printed(k)
  BY <1>1, SamePrints
<1>4. /\ deps.original = None /\ deps.baseline = None /\ inst.baseline = None
      /\ deps.state = None /\ inst.state = None /\ deps.manifest = FALSE /\ deps.prepared = None
  BY <1>1 DEF NoDeps, NoInst
<1>5. Printed("prepared") = {}
  BY <1>4 DEF Progress, Shut
<1>6. Typed'
  BY <1>1 DEF Progress, Typed
<1>7. Preparing'
  <2>1. ~Used(inst.baseline) /\ ~Used(deps.baseline)
    BY <1>4, NoneIsNoFile
  <2> QED
    BY <1>1, <1>2, <1>3, <1>4, <1>5, <2>1 DEF Preparing, Used
<1>8. Keeps
  BY <1>1 DEF Keeps, Used
<1>9. Stuck'
  <2>1. ~Used(inst.baseline) /\ ~Used(deps.baseline)
    BY <1>4, NoneIsNoFile
  <2>2. run'.step \notin VerifySteps
    BY <1>2 DEF VerifySteps
  <2> QED
    BY <1>1, <1>3, <1>4, <2>1, <2>2 DEF Progress, Stuck
<1> QED
  BY <1>2, <1>6, <1>7, <1>8, <1>9, OnlyPreparing, KeepsShut DEF Progress

LEMMA ExtractProgress ==
    ASSUME IInv, IInv', Progress, Extract
    PROVE  Progress'
<1> DEFINE
      Empty(m) == /\ deps[m] = None
                  /\ m = "baseline" => deps.original # None
                  /\ m = "candidate" => deps.baseline # None
      n == CHOOSE m \in {"original", "baseline", "candidate"} : Empty(m)
<1>1. /\ known' = known /\ killed' = killed /\ before' = before
      /\ inst' = inst /\ output' = output /\ result' = result
      /\ run.step = "extract"
      /\ deps' = [deps EXCEPT ![n] = plan]
      /\ run' = [run EXCEPT !.step = IF n = "candidate" THEN "convert" ELSE "extract"]
  BY DEF Extract, Step, still
<1> HIDE DEF n
<1>2. plan = Base /\ deps.baseline \in {None, Base}
  BY <1>1 DEF IInv, Stage, ExtractStage
<1>3. run'.step \in {"extract", "convert"}
  BY <1>1 DEF IInv, Shapes
<1>4. run.step \in PrepareSteps /\ run'.step \in PrepareSteps
  BY <1>1, <1>3 DEF PrepareSteps
<1>5. n \in {"original", "baseline", "candidate"}
  <2>1. deps.original \in {None, Base} /\ deps.candidate = None
        /\ (deps.baseline # None => deps.original # None)
    BY <1>1 DEF IInv, Stage, ExtractStage
  <2>2. \E m \in {"original", "baseline", "candidate"} : Empty(m)
    BY <1>2, <2>1
  <2> QED
    BY <2>2 DEF n
<1>6. /\ deps'.original \in {deps.original, Base} /\ deps'.baseline \in {deps.baseline, Base}
      /\ deps'.candidate \in {deps.candidate, Base}
      /\ deps'.manifest = deps.manifest /\ deps'.prepared = deps.prepared /\ deps'.state = deps.state
  BY <1>1, <1>2, <1>5 DEF Progress, Typed
<1>7. Typed'
  BY <1>1, <1>2, <1>5, NoneIsNoFile DEF Progress, Typed
<1>8. Keeps
  BY <1>1, <1>2, <1>6, NoneIsNoFile DEF Keeps, Used
<1>9. Preparing'
  <2>1. run'.step = "convert" => deps'.original # None
    BY NoneIsNoFile DEF IInv, Stage, ConvertStage
  <2>2. \A k : Printed(k)' = Printed(k)
    BY <1>1, SamePrints
  <2>3. ~Used(deps'.baseline)
    BY <1>2, <1>6, NoneIsNoFile DEF Used
  <2> QED
    BY <1>1, <1>3, <1>4, <1>6, <2>1, <2>2, <2>3 DEF Preparing, Progress, Working, Used
<1> QED
  BY <1>4, <1>7, <1>8, <1>9, OnlyPreparing, KeepsShut, KeepsStuck DEF Progress

LEMMA ConvertProgress ==
    ASSUME IInv, IInv', Progress, Convert
    PROVE  Progress'
<1>1. PICK tree \in Migrated(deps.candidate) : deps' = [deps EXCEPT !.candidate = tree]
  BY DEF Convert
<1>2. /\ known' = known /\ killed' = killed /\ before' = before
      /\ inst' = inst /\ output' = output /\ result' = result
      /\ run.step = "convert" /\ run' = [run EXCEPT !.step = "project"]
  BY DEF Convert, Step, still
<1>3. deps.original = Base /\ deps.candidate = Base
  BY <1>2 DEF IInv, Stage, ConvertStage
<1>4. tree \in Tree
  BY <1>1, <1>3, NoneIsNoFile DEF Migrated, Tree, Sources
<1>5. /\ deps'.original = deps.original /\ deps'.baseline = deps.baseline /\ deps'.candidate = tree
      /\ deps'.state = deps.state
  BY <1>1 DEF Progress, Typed
<1>6. run'.step = "project" /\ run.step \in PrepareSteps /\ run'.step \in PrepareSteps
  BY <1>2 DEF IInv, Shapes, PrepareSteps
<1>7. Typed'
  BY <1>1, <1>2, <1>4 DEF Progress, Typed
<1>8. Keeps
  BY <1>2, <1>5 DEF Keeps, Used
<1>9. Preparing'
  <2>1. \A k : Printed(k)' = Printed(k)
    BY <1>2, SamePrints
  <2> QED
    BY <1>2, <1>3, <1>5, <1>6, <2>1, NoneIsNoFile DEF Preparing, Progress, Working, Used
<1> QED
  BY <1>6, <1>7, <1>8, <1>9, OnlyPreparing, KeepsShut, KeepsStuck DEF Progress

LEMMA ProjectProgress ==
    ASSUME IInv, Progress, Project
    PROVE  Progress'
<1>1. /\ known' = known /\ killed' = killed /\ before' = before
      /\ output' = output /\ result' = result
      /\ run.step = "project" /\ run' = [run EXCEPT !.step = "seal_deps"]
      /\ deps' = [deps EXCEPT !.manifest = TRUE]
      /\ inst' = [inst EXCEPT !.baseline = deps.baseline, !.candidate = deps.candidate]
  BY DEF Project, Step, still
<1>2. run'.step = "seal_deps" /\ run.step \in PrepareSteps /\ run'.step \in PrepareSteps
  BY <1>1 DEF IInv, Shapes, PrepareSteps
<1>3. /\ deps'.original = deps.original /\ deps'.baseline = deps.baseline /\ deps'.state = deps.state
      /\ inst'.state = inst.state /\ inst'.baseline = deps.baseline
  BY <1>1 DEF Progress, Typed
<1>4. inst = NoInst /\ ~Used(inst.baseline)
  BY <1>1, <1>2, NoneIsNoFile DEF Progress, Working, Preparing, NoInst
<1>5. Typed'
  BY <1>1 DEF Progress, Typed
<1>6. Keeps
  BY <1>1, <1>3, <1>4 DEF Keeps, Used
<1>7. Preparing'
  <2>1. \A k : Printed(k)' = Printed(k)
    BY <1>1, SamePrints
  <2> QED
    BY <1>1, <1>2, <1>3, <2>1 DEF Preparing, Progress, Working, Used
<1> QED
  BY <1>2, <1>5, <1>6, <1>7, OnlyPreparing, KeepsShut, KeepsStuck DEF Progress

LEMMA SealDepsProgress ==
    ASSUME IInv, Progress, SealDeps
    PROVE  Progress'
<1> DEFINE state == [original |-> deps.original, baseline |-> deps.baseline, candidate |-> deps.candidate]
<1>1. /\ known' = known /\ killed' = killed /\ before' = before
      /\ inst' = inst /\ output' = output /\ result' = result
      /\ run.step = "seal_deps" /\ run' = [run EXCEPT !.step = "seal_inst"]
      /\ deps' = [deps EXCEPT !.prepared = state]
  BY DEF SealDeps, Step, still
<1>2. deps.original # None /\ deps.baseline # None /\ deps.candidate # None
  BY DEF SealDeps, Pristine
<1>3. state \in PreparedState
  BY <1>2 DEF Progress, Typed, PreparedState
<1> HIDE DEF state
<1>4. run'.step = "seal_inst" /\ run.step \in PrepareSteps /\ run'.step \in PrepareSteps
  BY <1>1 DEF IInv, Shapes, PrepareSteps
<1>5. /\ deps'.original = deps.original /\ deps'.baseline = deps.baseline /\ deps'.state = deps.state
      /\ deps'.prepared = state
  BY <1>1 DEF Progress, Typed
<1>6. Typed'
  BY <1>1, <1>3 DEF Progress, Typed
<1>7. Keeps
  BY <1>1, <1>5 DEF Keeps, Used
<1>8. Preparing'
  <2>1. \A k : Printed(k)' = Printed(k)
    BY <1>1, SamePrints
  <2> QED
    BY <1>1, <1>2, <1>3, <1>4, <1>5, <2>1 DEF Preparing, Progress, Working, Used
<1> QED
  BY <1>4, <1>6, <1>7, <1>8, OnlyPreparing, KeepsShut, KeepsStuck DEF Progress

(* prepare passes; the source it leaves is what stops it from being run again. *)
LEMMA SealInstProgress ==
    ASSUME Progress, SealInst
    PROVE  Progress'
<1>1. /\ known' = known \cup {[kind |-> "prepared", digest |-> deps.prepared]}
      /\ killed' = killed /\ run.step = "seal_inst" /\ run' = NoRun
      /\ deps' = deps /\ output' = output /\ result' = result
      /\ inst' = [inst EXCEPT !.prepared = deps.prepared]
  BY DEF SealInst, Pass, still
<1>2. \A k : Printed(k)' = IF k = "prepared" THEN Printed(k) \cup {deps.prepared} ELSE Printed(k)
  BY <1>1, PassAdds
<1>3. run'.step = "idle" /\ run.step \in PrepareSteps
  BY <1>1 DEF NoRun, PrepareSteps
<1>4. deps.original # None /\ deps.prepared \in PreparedState
  BY <1>1, <1>3 DEF Progress, Working, Preparing
<1>5. inst'.baseline = inst.baseline
  BY <1>1 DEF Progress, Typed
<1>6. Typed'
  BY <1>1, <1>4 DEF Progress, Typed
<1>7. Shut'
  BY <1>1, <1>2, <1>4, <1>5 DEF Progress, Shut, Used
<1>8. Stuck'
  <2>1. SamePhase
    BY <1>3, Idle
  <2> QED
    BY <1>1, <1>2, <1>3, <1>5, <2>1 DEF Progress, Stuck, Used, SamePhase
<1> QED
  BY <1>3, <1>6, <1>7, <1>8, Idle DEF Progress

-----------------------------------------------------------------------------
(* Modules are not pristine: install and migrate do not start over what    *)
(* npm has used.                                                           *)
LEMMA SealedIsUnused ==
    ASSUME NEW file, NEW names, NEW trees, NEW digest, Sealed(file, names, trees, digest),
           NEW n \in names, n \in {"original", "baseline", "candidate"}
    PROVE  digest \in PreparedState /\ trees[n] \in Tree /\ trees[n].mods = None /\ ~Used(trees[n])
<1>1. digest \in PreparedState /\ trees[n] = digest[n] /\ trees[n].mods = None
  BY DEF Sealed, IsPrepared, Pristine
<1>2. digest[n] \in Tree
  BY <1>1 DEF PreparedState
<1> QED
  BY <1>1, <1>2 DEF Used

LEMMA InstallProgress ==
    ASSUME IInv, Progress, NEW d \in Printed("prepared"), Install(d)
    PROVE  Progress'
<1>1. /\ run' = [NoRun EXCEPT !.step = "install_baseline", !.prepared = d, !.installed = None]
      /\ before' = <<deps, inst, output, result>>
      /\ known' = known /\ killed' = killed
      /\ deps' = deps /\ inst' = inst /\ output' = output /\ result' = result
      /\ Sealed(inst.prepared, {"baseline", "candidate"}, inst, d)
  BY DEF Install, Begin, BeginWith, dirs
<1>2. run'.step = "install_baseline" /\ run'.prepared = d
  BY <1>1 DEF NoRun
<1>3. d \in PreparedState /\ inst.baseline \in Tree /\ inst.candidate \in Tree /\ ~Used(inst.baseline)
  BY <1>1, SealedIsUnused
<1>4. Printed("prepared") # {} /\ Printed("installed") = {}
  BY <1>3 DEF Progress, Shut
<1>5. \A k : Printed(k)' = Printed(k)
  BY <1>1, SamePrints
<1>6. Typed'
  BY <1>1 DEF Progress, Typed
<1>7. Installing'
  BY <1>1, <1>2, <1>3, <1>4, <1>5 DEF Installing
<1>8. Keeps
  BY <1>1 DEF Keeps, Used
<1>9. Stuck'
  BY <1>1, <1>2, <1>3, <1>4, <1>5 DEF Progress, Stuck, MigrateSteps, VerifySteps
<1>10. run'.step \in InstallSteps
  BY <1>2 DEF InstallSteps
<1> QED
  BY <1>6, <1>7, <1>8, <1>9, <1>10, OnlyInstalling, KeepsShut DEF Progress

LEMMA NpmProgress ==
    ASSUME IInv, Progress, InstallBaseline \/ InstallCandidate
    PROVE  Progress'
<1>1. PICK n \in {"baseline", "candidate"}, next \in {"install_candidate", "seal_install"} :
          /\ run.step = IF n = "baseline" THEN "install_baseline" ELSE "install_candidate"
          /\ NpmInstall(n, next)
  BY DEF InstallBaseline, InstallCandidate
<1>2. PICK lock \in Locks, mods \in Modules :
          inst' = [inst EXCEPT ![n].lock = lock, ![n].mods = mods]
  BY <1>1 DEF NpmInstall
<1>3. /\ known' = known /\ killed' = killed /\ before' = before
      /\ deps' = deps /\ output' = output /\ result' = result
      /\ run' = [run EXCEPT !.step = next]
  BY <1>1 DEF NpmInstall, Step, still
<1>4. run.step \in InstallSteps
  BY <1>1 DEF InstallSteps
<1>5. run'.step = next /\ run'.prepared = run.prepared
  BY <1>3 DEF IInv, Shapes
<1>6. /\ Printed("installed") = {} /\ run.prepared \in PreparedState
      /\ inst.baseline \in Tree /\ inst.candidate \in Tree
      /\ run.step # "install_baseline" => Used(inst.baseline)
  BY <1>4 DEF Progress, Working, Installing
<1> DEFINE tree == [src |-> inst[n].src, lock |-> lock, mods |-> mods]
<1>7. tree \in Tree /\ Used(tree)
  BY <1>6, RunnerPhasesAssumption DEF Tree, Used
<1>8. inst' = [inst EXCEPT ![n] = tree]
  <2> DEFINE relocked == [inst EXCEPT ![n] = [inst[n] EXCEPT !.lock = lock]]
  <2>1. inst' = [relocked EXCEPT ![n] = [relocked[n] EXCEPT !.mods = mods]]
    BY <1>2
  <2>2. n \in DOMAIN inst
    BY DEF IInv, Shapes
  <2>3. relocked[n] = [inst[n] EXCEPT !.lock = lock] /\ inst[n] \in Tree
    BY <1>6, <2>2
  <2>4. [relocked[n] EXCEPT !.mods = mods] = tree
    BY <2>3 DEF Tree
  <2> HIDE DEF tree
  <2>5. inst' = [relocked EXCEPT ![n] = tree]
    BY <2>1, <2>4
  <2> QED
    BY <2>5, <2>2
<1> HIDE DEF tree
<1>9. /\ inst'.baseline = IF n = "baseline" THEN tree ELSE inst.baseline
      /\ inst'.candidate = IF n = "candidate" THEN tree ELSE inst.candidate
  BY <1>8 DEF Progress, Typed
<1>10. Typed'
  BY <1>3, <1>7, <1>8 DEF Progress, Typed
<1>11. Used(inst'.baseline)
  BY <1>1, <1>6, <1>7, <1>9
<1>12. \A k : Printed(k)' = Printed(k)
  BY <1>3, SamePrints
<1>13. Installing'
  BY <1>1, <1>5, <1>6, <1>7, <1>9, <1>11, <1>12 DEF Installing, Used
<1>14. Keeps
  BY <1>3, <1>11 DEF Keeps, Used
<1>15. run'.step \in InstallSteps
  BY <1>5 DEF InstallSteps
<1> QED
  BY <1>4, <1>10, <1>13, <1>14, <1>15, OnlyInstalling, KeepsShut, KeepsStuck DEF Progress

(* install passes; the modules it leaves are what stops it from being run again. *)
LEMMA SealInstallProgress ==
    ASSUME Progress, SealInstall
    PROVE  Progress'
<1> DEFINE state == [prepared |-> run.prepared, baseline |-> inst.baseline, candidate |-> inst.candidate]
<1>1. /\ known' = known \cup {[kind |-> "installed", digest |-> state]}
      /\ killed' = killed /\ run.step = "seal_install" /\ run' = NoRun
      /\ deps' = deps /\ output' = output /\ result' = result
      /\ inst' = [inst EXCEPT !.state = state]
  BY DEF SealInstall, Pass, still
<1>2. run.step \in InstallSteps /\ run'.step = "idle"
  BY <1>1 DEF InstallSteps, NoRun
<1>3. state \in InstallState /\ Used(inst.baseline)
  BY <1>1, <1>2 DEF Progress, Working, Installing, InstallState
<1> HIDE DEF state
<1>4. \A k : Printed(k)' = IF k = "installed" THEN Printed(k) \cup {state} ELSE Printed(k)
  BY <1>1, PassAdds
<1>5. inst'.baseline = inst.baseline
  BY <1>1 DEF Progress, Typed
<1>6. Typed'
  BY <1>1, <1>3 DEF Progress, Typed
<1>7. Shut'
  BY <1>1, <1>3, <1>4, <1>5 DEF Progress, Shut, Used
<1>8. Stuck'
  <2>1. SamePhase
    BY <1>2, Idle
  <2> QED
    BY <1>1, <1>2, <1>4, <1>5, <2>1 DEF Progress, Stuck, Used, SamePhase
<1> QED
  BY <1>2, <1>6, <1>7, <1>8, Idle DEF Progress

-----------------------------------------------------------------------------
(* migrate starts over pristine sources, where nothing has to be undone.   *)
LEMMA MigrateProgress ==
    ASSUME IInv, Progress, NEW d \in Printed("prepared"), NEW i \in Printed("installed"), Migrate(d, i)
    PROVE  Progress'
<1>1. /\ run' = [NoRun EXCEPT !.step = "import", !.prepared = d, !.installed = i, !.locks = Lockfiles]
      /\ before' = <<deps, inst, output, result>>
      /\ known' = known /\ killed' = killed
      /\ deps' = deps /\ inst' = inst /\ output' = output /\ result' = result
      /\ output = None
  BY DEF Migrate, BeginWith, dirs
<1>2. run'.step = "import" /\ run'.prepared = d /\ run'.installed = i /\ run'.locks = Lockfiles
  BY <1>1 DEF NoRun
<1>3. /\ d \in PreparedState /\ deps.original \in Tree
      /\ deps.baseline \in Tree /\ deps.baseline.mods = None /\ ~Used(deps.baseline)
      /\ deps.candidate \in Tree /\ deps.candidate.mods = None
  BY SealedIsUnused DEF Migrate
<1>4. i \in InstallState /\ inst.baseline \in Tree /\ inst.candidate \in Tree
  BY DEF Migrate, InstallSealed, IsInstalled, InstallState
<1>5. Printed("dependency") = {} /\ deps.state = None
  BY <1>3 DEF Progress, Shut
<1>6. Lockfiles \in [baseline : Locks, candidate : Locks]
      /\ Lockfiles.baseline = deps.baseline.lock /\ Lockfiles.candidate = deps.candidate.lock
  BY <1>3 DEF Lockfiles, Tree
<1>7. Undone(deps, Lockfiles) = deps
  <2>1. /\ [src |-> deps.baseline.src, lock |-> Lockfiles.baseline, mods |-> None] = deps.baseline
        /\ [src |-> deps.candidate.src, lock |-> Lockfiles.candidate, mods |-> None] = deps.candidate
    BY <1>3, <1>6 DEF Tree
  <2> QED
    BY <1>5, <2>1 DEF Undone, Progress, Typed
<1>8. \A k : Printed(k)' = Printed(k)
  BY <1>1, SamePrints
<1>9. Typed'
  BY <1>1 DEF Progress, Typed
<1>10. Migrating'
  <2>1. Undone(deps', run'.locks) = deps
    BY <1>1, <1>2, <1>7
  <2>2. before' = <<Undone(deps', run'.locks), inst', None, result'>>
    BY <1>1, <2>1
  <2> QED
    BY <1>1, <1>2, <1>3, <1>4, <1>5, <1>6, <1>8, <2>2 DEF Migrating
<1>11. Keeps
  BY <1>1 DEF Keeps, Used
<1>12. Stuck'
  <2>1. Printed("prepared") # {} /\ Printed("installed") # {}
    OBVIOUS
  <2> QED
    BY <1>1, <1>2, <1>3, <1>8, <2>1 DEF Progress, Stuck, VerifySteps, InstallSteps
<1>13. run'.step \in MigrateSteps
  BY <1>2 DEF MigrateSteps
<1> QED
  BY <1>9, <1>10, <1>11, <1>12, <1>13, OnlyMigrating, KeepsShut DEF Progress

LEMMA ImportProgress ==
    ASSUME IInv, Progress, Import
    PROVE  Progress'
<1> DEFINE
      base == [inst.baseline EXCEPT !.src = deps.baseline.src]
      cand == [inst.candidate EXCEPT !.src = deps.candidate.src]
<1>1. /\ known' = known /\ killed' = killed /\ before' = before
      /\ inst' = inst /\ output' = output /\ result' = result
      /\ run.step = "import" /\ run' = [run EXCEPT !.step = "seal"]
      /\ deps' = [deps EXCEPT !.baseline = base, !.candidate = cand]
  BY DEF Import, Step, still
<1>2. inst.baseline.mods # None
  BY DEF Import, InstallProjected
<1>3. run.step \in MigrateSteps
  BY <1>1 DEF MigrateSteps
<1>4. /\ Printed("dependency") = {}
      /\ run.prepared \in PreparedState /\ run.installed \in InstallState
      /\ run.locks \in [baseline : Locks, candidate : Locks]
      /\ {deps.original, deps.baseline, deps.candidate, inst.baseline, inst.candidate} \subseteq Tree
      /\ before = <<Undone(deps, run.locks), inst, None, result>>
  BY <1>3 DEF Progress, Working, Migrating
<1>5. /\ base \in Tree /\ cand \in Tree /\ Used(base)
      /\ base.src = deps.baseline.src /\ cand.src = deps.candidate.src
  BY <1>2, <1>4 DEF Tree, Used
<1> HIDE DEF base, cand
<1>6. /\ run'.step = "seal" /\ run'.prepared = run.prepared /\ run'.installed = run.installed
      /\ run'.locks = run.locks
  BY <1>1 DEF IInv, Shapes
<1>7. /\ deps'.original = deps.original /\ deps'.baseline = base /\ deps'.candidate = cand
      /\ deps'.state = deps.state
  BY <1>1 DEF Progress, Typed
<1>8. Typed'
  BY <1>1, <1>5 DEF Progress, Typed
<1>9. Undone(deps', run'.locks) = Undone(deps, run.locks)
  BY <1>1, <1>5, <1>6, <1>7 DEF Undone, Progress, Typed
<1>10. \A k : Printed(k)' = Printed(k)
  BY <1>1, SamePrints
<1>11. Migrating'
  BY <1>1, <1>4, <1>5, <1>6, <1>7, <1>9, <1>10 DEF Migrating, Used
<1>12. Keeps
  BY <1>1, <1>5, <1>7 DEF Keeps, Used
<1>13. run'.step \in MigrateSteps
  BY <1>6 DEF MigrateSteps
<1> QED
  BY <1>3, <1>8, <1>11, <1>12, <1>13, OnlyMigrating, KeepsShut, KeepsStuck DEF Progress

LEMMA SealProgress ==
    ASSUME IInv, Progress, Seal
    PROVE  Progress'
<1> DEFINE
      state == [prepared |-> run.prepared, installed |-> run.installed,
                original |-> deps.original, baseline |-> deps.baseline, candidate |-> deps.candidate]
<1>1. /\ known' = known /\ killed' = killed /\ before' = before
      /\ inst' = inst /\ output' = output /\ result' = result
      /\ run.step = "seal" /\ run' = [run EXCEPT !.step = "extract_output"]
      /\ deps' = [deps EXCEPT !.state = state]
  BY DEF Seal, Step, still
<1>2. run.step \in MigrateSteps
  BY <1>1 DEF MigrateSteps
<1>3. /\ Printed("dependency") = {}
      /\ run.prepared \in PreparedState /\ run.installed \in InstallState
      /\ run.locks \in [baseline : Locks, candidate : Locks]
      /\ {deps.original, deps.baseline, deps.candidate, inst.baseline, inst.candidate} \subseteq Tree
      /\ before = <<Undone(deps, run.locks), inst, None, result>>
      /\ Used(deps.baseline)
  BY <1>1, <1>2 DEF Progress, Working, Migrating
<1>4. state \in DependencyState
  BY <1>3 DEF DependencyState
<1> HIDE DEF state
<1>5. /\ run'.step = "extract_output" /\ run'.prepared = run.prepared /\ run'.installed = run.installed
      /\ run'.locks = run.locks
  BY <1>1 DEF IInv, Shapes
<1>6. /\ deps'.original = deps.original /\ deps'.baseline = deps.baseline /\ deps'.candidate = deps.candidate
  BY <1>1 DEF Progress, Typed
<1>7. Typed'
  BY <1>1, <1>4 DEF Progress, Typed
<1>8. Undone(deps', run'.locks) = Undone(deps, run.locks)
  BY <1>1, <1>5, <1>6 DEF Undone, Progress, Typed
<1>9. \A k : Printed(k)' = Printed(k)
  BY <1>1, SamePrints
<1>10. Migrating'
  BY <1>1, <1>3, <1>5, <1>6, <1>8, <1>9 DEF Migrating, Used
<1>11. Shut'
  BY <1>1, <1>3, <1>6, <1>9 DEF Progress, Shut, Used
<1>12. run'.step \in MigrateSteps
  BY <1>5 DEF MigrateSteps
<1>13. Stuck'
  <2>1. SamePhase
    BY <1>2, <1>12, OnlyMigrating
  <2> QED
    BY <1>1, <1>6, <1>9, <2>1 DEF Progress, Stuck, Used, SamePhase
<1> QED
  BY <1>7, <1>10, <1>11, <1>12, <1>13, OnlyMigrating DEF Progress

LEMMA ExtractOutputProgress ==
    ASSUME IInv, Progress, ExtractOutput
    PROVE  Progress'
<1>1. /\ known' = known /\ killed' = killed /\ before' = before
      /\ deps' = deps /\ inst' = inst /\ output' = plan /\ result' = result
      /\ run.step = "extract_output" /\ run' = [run EXCEPT !.step = "convert_output"]
  BY DEF ExtractOutput, Step, still
<1>2. run.step \in MigrateSteps
  BY <1>1 DEF MigrateSteps
<1>3. /\ run'.step = "convert_output" /\ run'.prepared = run.prepared /\ run'.installed = run.installed
      /\ run'.locks = run.locks
  BY <1>1 DEF IInv, Shapes
<1>4. plan \in Tree \cup {None}
  BY NoneIsNoFile DEF IInv, Shapes
<1>5. Typed'
  BY <1>1, <1>4 DEF Progress, Typed
<1>6. \A k : Printed(k)' = Printed(k)
  BY <1>1, SamePrints
<1>7. Undone(deps', run'.locks) = Undone(deps, run.locks)
  BY <1>1, <1>3
<1>8. Migrating'
  BY <1>1, <1>2, <1>3, <1>6, <1>7 DEF Progress, Working, Migrating, Used
<1>9. Keeps
  BY <1>1 DEF Keeps, Used
<1>10. run'.step \in MigrateSteps
  BY <1>3 DEF MigrateSteps
<1> QED
  BY <1>2, <1>5, <1>8, <1>9, <1>10, OnlyMigrating, KeepsShut, KeepsStuck DEF Progress

(* migrate passes; the modules it leaves are what stops it from being run again. *)
LEMMA ConvertOutputProgress ==
    ASSUME Progress, ConvertOutput
    PROVE  Progress'
<1>1. /\ known' = known \cup {[kind |-> "dependency", digest |-> deps.state]}
      /\ killed' = killed /\ run.step = "convert_output" /\ run' = NoRun
      /\ deps' = deps /\ inst' = inst /\ result' = result
      /\ output' = Regular(deps.candidate)
  BY DEF ConvertOutput, Pass, still
<1>2. run.step \in MigrateSteps /\ run'.step = "idle"
  BY <1>1 DEF MigrateSteps, NoRun
<1>3. deps.candidate \in Tree /\ Used(deps.baseline)
  BY <1>1, <1>2 DEF Progress, Working, Migrating
<1>4. output' \in Tree
  BY <1>1, <1>3 DEF Regular, Tree
<1>5. \A k : Printed(k)' = IF k = "dependency" THEN Printed(k) \cup {deps.state} ELSE Printed(k)
  BY <1>1, PassAdds
<1>6. Typed'
  BY <1>1, <1>4 DEF Progress, Typed
<1>7. Shut'
  BY <1>1, <1>3, <1>5 DEF Progress, Shut, Used
<1>8. Stuck'
  <2>1. SamePhase
    BY <1>2, Idle
  <2> QED
    BY <1>1, <1>2, <1>5, <2>1 DEF Progress, Stuck, Used, SamePhase
<1> QED
  BY <1>2, <1>6, <1>7, <1>8, Idle DEF Progress

-----------------------------------------------------------------------------
(* verify rests on digests of all three earlier phases, and finds no result. *)
LEMMA VerifyProgress ==
    ASSUME IInv, Progress, NEW d \in Printed("dependency"), Verify(d)
    PROVE  Progress'
<1>1. /\ run' = [NoRun EXCEPT !.step = "replay", !.prepared = None, !.installed = None]
      /\ before' = <<deps, inst, output, result>>
      /\ known' = known /\ killed' = killed
      /\ deps' = deps /\ inst' = inst /\ output' = output /\ result' = result
      /\ result = None
      /\ deps.state \in DependencyState
  BY DEF Verify, Begin, BeginWith, dirs, DependenciesSealed, IsDependencies
<1>2. run'.step = "replay" /\ run'.step \in VerifySteps
  BY <1>1 DEF NoRun, VerifySteps
<1>3. Printed("prepared") # {} /\ Printed("installed") # {} /\ Printed("dependency") # {}
  BY DEF IInv, Prints, DependenciesInOrder, Linked
<1>4. Printed("evidence") = {}
  BY <1>1 DEF Progress, Shut
<1>5. \A k : Printed(k)' = Printed(k)
  BY <1>1, SamePrints
<1>6. Typed'
  BY <1>1 DEF Progress, Typed
<1>7. Verifying'
  BY <1>1, <1>4, <1>5 DEF Verifying
<1>8. Keeps
  BY <1>1 DEF Keeps, Used
<1>9. Stuck'
  <2>1. ~killed
    BY <1>1, <1>3 DEF Progress, Stuck
  <2> QED
    BY <1>1, <2>1 DEF Stuck
<1> QED
  BY <1>2, <1>6, <1>7, <1>8, <1>9, OnlyVerifying, KeepsShut DEF Progress

LEMMA CheckProgress ==
    ASSUME IInv, Progress, Replay \/ CheckBaseline \/ CheckReplay
    PROVE  Progress'
<1>1. /\ known' = known /\ killed' = killed /\ before' = before
      /\ deps' = deps /\ inst' = inst /\ output' = output /\ result' \in {result, Foreign}
  BY DEF Replay, CheckBaseline, CheckReplay, still, dirs
<1>2. run.step \in VerifySteps /\ run'.step \in VerifySteps
  <2>1. CASE Replay
    BY <2>1 DEF Replay, IInv, Shapes, VerifySteps
  <2>2. CASE CheckBaseline
    BY <2>2 DEF CheckBaseline, Step, IInv, Shapes, VerifySteps
  <2>3. CASE CheckReplay
    BY <2>3 DEF CheckReplay, IInv, Shapes, VerifySteps
  <2> QED
    BY <2>1, <2>2, <2>3
<1>3. Typed'
  BY <1>1 DEF Progress, Typed
<1>4. \A k : Printed(k)' = Printed(k)
  BY <1>1, SamePrints
<1>5. Verifying'
  BY <1>1, <1>2, <1>4 DEF Verifying, Progress, Working
<1>6. Keeps
  BY <1>1, NoneIsNoFile DEF Keeps, Used
<1> QED
  BY <1>2, <1>3, <1>5, <1>6, OnlyVerifying, KeepsShut, KeepsStuck DEF Progress

(* verify passes; the result it leaves is what stops it from being run again. *)
LEMMA WriteEvidenceProgress ==
    ASSUME IInv, Progress, WriteEvidence
    PROVE  Progress'
<1> DEFINE e == [state |-> deps.state, output |-> Identity(deps.original, output)]
<1>1. /\ known' = known \cup {[kind |-> "evidence", digest |-> e]}
      /\ killed' = killed /\ run.step = "write_evidence" /\ run' = NoRun
      /\ deps' = deps /\ inst' = inst /\ output' = output /\ result' = e
  BY DEF WriteEvidence, Pass, still
<1>2. run.step \in VerifySteps /\ run'.step = "idle"
  BY <1>1 DEF VerifySteps, NoRun
<1>3. /\ deps.state \in DependencyState
      /\ deps.original = Base /\ deps.candidate = deps.state.candidate /\ output = Regular(deps.candidate)
  BY <1>2 DEF Progress, Working, Verifying, IInv, Stage, VerifyStage
<1>4. deps.original \in Tree /\ output \in Tree /\ Regular(output) \in Tree
  BY <1>3, NoneIsNoFile DEF DependencyState, Regular, Tree
<1>5. Identity(deps.original, output) \in [artifact : Artifacts, tree : Tree]
  <2> DEFINE paths == {p \in {"src", "lock"} : deps.original[p] # output[p]}
  <2>1. paths \in SUBSET {"src", "lock"}
    OBVIOUS
  <2>2. \A p \in {"src", "lock"} : <<deps.original[p], output[p]>> \in (Sources \cup Locks) \X (Sources \cup Locks)
    BY <1>4 DEF Tree
  <2>3. Artifact(deps.original, output) = [p \in paths |-> <<deps.original[p], output[p]>>]
    BY DEF Artifact
  <2>4. Artifact(deps.original, output) \in [paths -> (Sources \cup Locks) \X (Sources \cup Locks)]
    BY <2>2, <2>3
  <2> HIDE DEF paths
  <2>5. Artifact(deps.original, output) \in Artifacts
    BY <2>1, <2>4 DEF Artifacts
  <2> QED
    BY <1>4, <2>5 DEF Identity
<1>6. e \in Evidence
  BY <1>3, <1>5 DEF Evidence
<1> HIDE DEF e
<1>7. e # None
  BY <1>6, NoneIsNoFile
<1>8. \A k : Printed(k)' = IF k = "evidence" THEN Printed(k) \cup {e} ELSE Printed(k)
  BY <1>1, PassAdds
<1>9. Typed'
  BY <1>1, <1>6 DEF Progress, Typed
<1>10. Shut'
  BY <1>1, <1>7, <1>8 DEF Progress, Shut, Used
<1>11. Stuck'
  <2>1. SamePhase
    BY <1>2, Idle
  <2> QED
    BY <1>1, <1>2, <1>8, <2>1 DEF Progress, Stuck, Used, SamePhase
<1> QED
  BY <1>2, <1>9, <1>10, <1>11, Idle DEF Progress

-----------------------------------------------------------------------------
(* The catch blocks.  Those of prepare and migrate take back everything.   *)
LEMMA PrepareTakenBack ==
    ASSUME Progress, Fail, run.step \in PrepareSteps
    PROVE  deps' = NoDeps /\ inst' = NoInst /\ output' = output /\ result' = result
           /\ <<deps', inst', output', result'>> = before
<1>1. UndoPrepare
  BY DEF Fail, PrepareSteps, InstallSteps, MigrateSteps, VerifySteps, BundleSteps
<1>2. inst.state = None /\ before = <<NoDeps, NoInst, output, result>>
  BY DEF Progress, Working, Preparing
<1>3. inst' = [baseline |-> None, candidate |-> None, prepared |-> None, state |-> inst.state]
  BY <1>1 DEF UndoPrepare, Progress, Typed
<1> QED
  BY <1>1, <1>2, <1>3 DEF UndoPrepare, NoInst

LEMMA MigrateTakenBack ==
    ASSUME Progress, Fail, run.step \in MigrateSteps
    PROVE  /\ deps' = Undone(deps, run.locks) /\ inst' = inst /\ output' = None /\ result' = result
           /\ <<deps', inst', output', result'>> = before
<1>1. UndoMigrate
  BY DEF Fail, PrepareSteps, InstallSteps, MigrateSteps, VerifySteps, BundleSteps
<1>2. /\ deps.baseline \in Tree /\ deps.candidate \in Tree
      /\ before = <<Undone(deps, run.locks), inst, None, result>>
  BY DEF Progress, Working, Migrating
<1> DEFINE
      base == [src |-> deps.baseline.src, lock |-> run.locks.baseline, mods |-> None]
      cand == [src |-> deps.candidate.src, lock |-> run.locks.candidate, mods |-> None]
<1>3. deps' = [deps EXCEPT !.baseline = base, !.candidate = cand, !.state = None]
  <2>1. deps' = [deps EXCEPT !.state = None,
                             !.baseline.mods = None, !.baseline.lock = run.locks.baseline,
                             !.candidate.mods = None, !.candidate.lock = run.locks.candidate]
    BY <1>1 DEF UndoMigrate
  <2>2. /\ deps'.baseline = [[deps.baseline EXCEPT !.mods = None] EXCEPT !.lock = run.locks.baseline]
        /\ deps'.candidate = [[deps.candidate EXCEPT !.mods = None] EXCEPT !.lock = run.locks.candidate]
        /\ deps'.original = deps.original /\ deps'.manifest = deps.manifest
        /\ deps'.prepared = deps.prepared /\ deps'.state = None
    BY <2>1 DEF Progress, Typed
  <2>3. deps'.baseline = base /\ deps'.candidate = cand
    BY <1>2, <2>2 DEF Tree
  <2> HIDE DEF base, cand
  <2> QED
    BY <2>1, <2>2, <2>3 DEF Progress, Typed
<1>4. deps' = Undone(deps, run.locks)
  BY <1>3 DEF Undone
<1> QED
  BY <1>1, <1>2, <1>4 DEF UndoMigrate

LEMMA InstallTakenBack ==
    ASSUME Progress, Fail, run.step \in InstallSteps
    PROVE  /\ deps' = deps /\ output' = output /\ result' = result
           /\ Typed'
<1>1. UndoInstall
  BY DEF Fail, PrepareSteps, InstallSteps, MigrateSteps, VerifySteps, BundleSteps
<1>2. inst.baseline \in Tree /\ inst.candidate \in Tree
  BY DEF Progress, Working, Installing
<1> DEFINE
      base == [inst.baseline EXCEPT !.mods = None]
      cand == [inst.candidate EXCEPT !.mods = None]
<1>3. inst' = [inst EXCEPT !.state = None, !.baseline = base, !.candidate = cand]
  BY <1>1 DEF UndoInstall, Progress, Typed
<1>4. base \in Tree /\ cand \in Tree
  BY <1>2 DEF Tree
<1> HIDE DEF base, cand
<1>5. deps' = deps /\ output' = output /\ result' = result
  BY <1>1 DEF UndoInstall
<1> QED
  BY <1>3, <1>4, <1>5 DEF Progress, Typed

(* Without the digest of a phase there is none of a later phase.           *)
LEMMA PhasesInOrder ==
    ASSUME IInv
    PROVE  /\ Printed("installed") # {} => Printed("prepared") # {}
           /\ Printed("dependency") # {} => Printed("installed") # {}
           /\ Printed("evidence") # {} => Printed("dependency") # {}
<1>1. \A i \in Printed("installed") : i.prepared \in Printed("prepared")
  BY DEF IInv, Prints
<1>2. \A s \in Printed("dependency") : s.installed \in Printed("installed")
  BY DEF IInv, Prints, DependenciesInOrder, Linked
<1>3. \A e \in Printed("evidence") : e.state \in Printed("dependency")
  BY DEF IInv, Prints, EvidenceInOrder
<1> QED
  BY <1>1, <1>2, <1>3

LEMMA FailProgress ==
    ASSUME IInv, Progress, Fail
    PROVE  Progress'
<1>1. known' = known /\ killed' = killed /\ run' = NoRun
  BY DEF Fail, still
<1>2. run'.step = "idle"
  BY <1>1 DEF NoRun
<1>3. \A k : Printed(k)' = Printed(k)
  BY <1>1, SamePrints
<1>4. Working' /\ SamePhase
  BY <1>2, Idle
<1>5. CASE run.step \in PrepareSteps
  <2>1. deps' = NoDeps /\ inst' = NoInst /\ output' = output /\ result' = result
    BY <1>5, PrepareTakenBack
  <2>2. Typed'
    BY <2>1 DEF Progress, Typed, NoDeps, NoInst
  <2>3. Printed("prepared") = {} /\ Printed("installed") = {} /\ Printed("dependency") = {}
        /\ Printed("evidence") = {}
    BY <1>5, PhasesInOrder DEF Progress, Working, Preparing
  <2>4. Shut'
    BY <1>3, <2>1, <2>3 DEF Shut, NoDeps
  <2>5. Stuck'
    <3>1. killed => Printed("evidence") = {} /\ result # None
      BY <1>5 DEF Progress, Working, Preparing, Stuck
    <3> QED
      BY <1>1, <1>2, <1>3, <2>1, <3>1 DEF Stuck, VerifySteps
  <2> QED
    BY <1>4, <2>2, <2>4, <2>5 DEF Progress
<1>6. CASE run.step \in InstallSteps
  <2>1. deps' = deps /\ output' = output /\ result' = result /\ Typed'
    BY <1>6, InstallTakenBack
  <2>2. Printed("installed") = {} /\ Printed("dependency") = {} /\ Printed("evidence") = {}
    BY <1>6, PhasesInOrder DEF Progress, Working, Installing
  <2>3. Shut'
    BY <1>3, <2>1, <2>2 DEF Progress, Shut, Used
  <2>4. Stuck'
    BY <1>1, <1>2, <1>3, <1>4, <1>6, <2>1, <2>2 DEF Progress, Stuck, Used, SamePhase
  <2> QED
    BY <1>4, <2>1, <2>3, <2>4 DEF Progress
<1>7. CASE run.step \in MigrateSteps
  <2>1. deps' = Undone(deps, run.locks) /\ inst' = inst /\ output' = None /\ result' = result
    BY <1>7, MigrateTakenBack
  <2>2. /\ Printed("dependency") = {} /\ run.locks \in [baseline : Locks, candidate : Locks]
        /\ deps.baseline \in Tree /\ deps.candidate \in Tree
    BY <1>7 DEF Progress, Working, Migrating
  <2>3. /\ [src |-> deps.baseline.src, lock |-> run.locks.baseline, mods |-> None] \in Tree
        /\ [src |-> deps.candidate.src, lock |-> run.locks.candidate, mods |-> None] \in Tree
    BY <2>2 DEF Tree
  <2>4. Typed'
    BY <2>1, <2>3 DEF Progress, Typed, Undone
  <2>5. deps'.original = deps.original /\ deps'.state = None
    BY <2>1 DEF Undone, Progress, Typed
  <2>6. Printed("evidence") = {}
    BY <2>2, PhasesInOrder
  <2>7. Shut'
    BY <1>3, <2>1, <2>2, <2>5, <2>6 DEF Progress, Shut, Used
  <2>8. Stuck'
    BY <1>1, <1>2, <1>3, <1>4, <1>7, <2>1, <2>5 DEF Progress, Stuck, Used, SamePhase
  <2> QED
    BY <1>4, <2>4, <2>7, <2>8 DEF Progress
<1>8. CASE run.step \in VerifySteps \cup BundleSteps
  <2>1. deps' = deps /\ inst' = inst /\ output' = output /\ result' = result
    BY <1>8 DEF Fail, dirs, PrepareSteps, InstallSteps, MigrateSteps, VerifySteps, BundleSteps
  <2>2. Typed' /\ Keeps
    BY <1>1, <2>1 DEF Progress, Typed, Keeps, Used
  <2> QED
    BY <1>4, <2>2, KeepsShut, KeepsStuck DEF Progress
<1> QED
  BY <1>5, <1>6, <1>7, <1>8 DEF Fail

(* A phase that is killed after it began to write leaves what stops it.    *)
LEMMA KillLeaves ==
    ASSUME IInv, Progress, Kill, <<deps', inst', output', result'>> # before
    PROVE  \/ Printed("prepared") = {} /\ deps'.original # None
           \/ Printed("installed") = {} /\ Used(inst'.baseline)
           \/ Printed("dependency") = {} /\ Used(deps'.baseline)
           \/ Printed("evidence") = {} /\ result' # None
<1>1. CASE run.step \in BundleSteps
  <2>1. UNCHANGED <<deps, inst, output, result>>
    BY <1>1 DEF Kill, dirs, BundleSteps
  <2> QED
    BY <1>1, <2>1 DEF Progress, Working, Bundling
<1>2. CASE run.step \in PrepareSteps
  <2>1. Printed("prepared") = {} /\ before = <<NoDeps, NoInst, output, result>>
    BY <1>2 DEF Progress, Working, Preparing
  <2>2. CASE run.step = "extract"
    <3>1. UNCHANGED <<deps, inst, output, result>>
      BY <2>2 DEF Kill, dirs
    <3>2. inst = NoInst /\ deps.manifest = FALSE /\ deps.prepared = None /\ deps.state = None
      BY <1>2, <2>2 DEF Progress, Working, Preparing
    <3>3. deps.candidate = None /\ (deps.baseline # None => deps.original # None)
      BY <2>2 DEF IInv, Stage, ExtractStage
    <3>4. deps.original = None => deps = NoDeps
      BY <3>2, <3>3 DEF Progress, Typed, NoDeps
    <3> QED
      BY <2>1, <3>1, <3>2, <3>4
  <2>3. CASE run.step # "extract"
    <3>1. deps.original # None
      BY <1>2, <2>3 DEF Progress, Working, Preparing
    <3>2. deps'.original = deps.original
      BY DEF Kill, dirs, Progress, Typed
    <3> QED
      BY <2>1, <3>1, <3>2
  <2> QED
    BY <2>2, <2>3
<1>3. CASE run.step \in InstallSteps
  <2>1. Printed("installed") = {}
    BY <1>3 DEF Progress, Working, Installing
  <2>2. CASE run.step = "install_baseline"
    <3>1. UNCHANGED <<deps, inst, output, result>>
      BY <2>2 DEF Kill, dirs
    <3> QED
      BY <1>3, <2>2, <3>1 DEF Progress, Working, Installing
  <2>3. CASE run.step # "install_baseline"
    <3>1. Used(inst.baseline)
      BY <1>3, <2>3 DEF Progress, Working, Installing
    <3>2. inst'.baseline = inst.baseline
      BY DEF Kill, dirs, Progress, Typed
    <3> QED
      BY <2>1, <3>1, <3>2
  <2> QED
    BY <2>2, <2>3
<1>4. CASE run.step \in MigrateSteps
  <2>1. Printed("dependency") = {}
    BY <1>4 DEF Progress, Working, Migrating
  <2>2. CASE run.step = "import"
    <3>1. UNCHANGED <<deps, inst, output, result>>
      BY <2>2 DEF Kill, dirs
    <3> QED
      BY <1>4, <2>2, <3>1 DEF Progress, Working, Migrating
  <2>3. CASE run.step # "import"
    <3>1. Used(deps.baseline)
      BY <1>4, <2>3 DEF Progress, Working, Migrating
    <3>2. deps'.baseline = deps.baseline
      BY DEF Kill, dirs, Progress, Typed
    <3> QED
      BY <2>1, <3>1, <3>2
  <2> QED
    BY <2>2, <2>3
<1>5. CASE run.step \in VerifySteps
  <2>1. Printed("evidence") = {} /\ before = <<deps, inst, output, None>>
    BY <1>5 DEF Progress, Working, Verifying
  <2>2. deps' = deps /\ inst' = inst /\ output' = output
    BY <1>5 DEF Kill, dirs, VerifySteps
  <2> QED
    BY <2>1, <2>2
<1> QED
  BY <1>1, <1>2, <1>3, <1>4, <1>5 DEF Kill, Progress, Working, InPhase

LEMMA KillProgress ==
    ASSUME IInv, Progress, Kill
    PROVE  Progress'
<1>1. known' = known /\ run' = NoRun /\ killed' = (killed \/ <<deps', inst', output', result'>> # before)
  BY DEF Kill
<1>2. run'.step = "idle"
  BY <1>1 DEF NoRun
<1>3. \A k : Printed(k)' = Printed(k)
  BY <1>1, SamePrints
<1>4. Working' /\ SamePhase
  BY <1>2, Idle
<1>5. /\ deps'.original = deps.original /\ deps'.baseline = deps.baseline
      /\ inst'.baseline = inst.baseline /\ result' \in {result, Foreign}
      /\ deps'.state # deps.state => run.step = "seal"
  BY DEF Kill, dirs, Progress, Typed
<1>6. Typed'
  BY DEF Kill, dirs, Progress, Typed
<1>7. Shut'
  <2>1. run.step = "seal" => Used(deps.baseline)
    BY DEF Progress, Working, Migrating, MigrateSteps
  <2> QED
    BY <1>3, <1>5, <2>1, NoneIsNoFile DEF Progress, Shut, Used
<1>8. Stuck'
  <2>1. CASE killed
    BY <1>3, <1>4, <1>5, <2>1, NoneIsNoFile DEF Progress, Stuck, Used, SamePhase
  <2>2. CASE <<deps', inst', output', result'>> # before
    BY <1>2, <1>3, <2>2, KillLeaves DEF Stuck, Used, PrepareSteps, InstallSteps, MigrateSteps, VerifySteps
  <2>3. killed' => killed \/ <<deps', inst', output', result'>> # before
    BY <1>1
  <2> QED
    BY <2>1, <2>2, <2>3 DEF Stuck
<1> QED
  BY <1>4, <1>6, <1>7, <1>8 DEF Progress

(* Between two phases something else changes a source or a lockfile, but   *)
(* it neither brings nor takes modules, and it makes no file go away.      *)
LEMMA TouchProgress ==
    ASSUME Progress, Touch
    PROVE  Progress'
<1>1. /\ run.step = "idle" /\ run' = run
      /\ known' = known /\ killed' = killed /\ result' = result
  BY DEF Touch
<1>2. PICK src \in Sources, lock \in Locks :
          \/ /\ \E n \in {"original", "baseline", "candidate"} :
                   /\ deps[n] \notin {None, Foreign}
                   /\ deps' = [deps EXCEPT ![n] = [deps[n] EXCEPT !.src = src, !.lock = lock]]
             /\ UNCHANGED <<inst, output>>
          \/ /\ \E n \in {"baseline", "candidate"} :
                   /\ inst[n] \notin {None, Foreign}
                   /\ inst' = [inst EXCEPT ![n] = [inst[n] EXCEPT !.src = src, !.lock = lock]]
             /\ UNCHANGED <<deps, output>>
          \/ /\ output \notin {None, Foreign}
             /\ output' = [output EXCEPT !.src = src, !.lock = lock]
             /\ UNCHANGED <<deps, inst>>
          \/ UNCHANGED <<deps, inst, output>>
          \/ /\ \E n \in {"prepared", "state"} : deps[n] # None /\ deps' = [deps EXCEPT ![n] = Foreign]
             /\ UNCHANGED <<inst, output>>
          \/ /\ \E n \in {"prepared", "state"} : inst[n] # None /\ inst' = [inst EXCEPT ![n] = Foreign]
             /\ UNCHANGED <<deps, output>>
  BY DEF Touch
<1> DEFINE To(tree) == [tree EXCEPT !.src = src, !.lock = lock]
<1>3. \A tree \in Tree : To(tree) \in Tree /\ To(tree).mods = tree.mods
  BY DEF Tree
<1> HIDE DEF To
<1>4. Typed' /\ Keeps
  <2>1. CASE \E n \in {"original", "baseline", "candidate"} :
                 deps[n] \notin {None, Foreign} /\ deps' = [deps EXCEPT ![n] = To(deps[n])]
                 /\ UNCHANGED <<inst, output>>
    <3>1. PICK n \in {"original", "baseline", "candidate"} :
              deps[n] \notin {None, Foreign} /\ deps' = [deps EXCEPT ![n] = To(deps[n])]
      BY <2>1
    <3>2. deps[n] \in Tree
      BY <3>1 DEF Progress, Typed
    <3>3. To(deps[n]) \in Tree /\ To(deps[n]).mods = deps[n].mods
      BY <1>3, <3>2
    <3>4. Typed'
      BY <1>1, <2>1, <3>1, <3>3 DEF Progress, Typed
    <3>5. /\ deps'.original \in {deps.original, To(deps[n])}
          /\ deps'.state = deps.state
          /\ deps'.baseline = IF n = "baseline" THEN To(deps[n]) ELSE deps.baseline
      BY <3>1 DEF Progress, Typed
    <3>6. Used(deps.baseline) => Used(deps'.baseline)
      BY <3>3, <3>5 DEF Used
    <3>7. To(deps[n]) # None
      BY <3>3, NoneIsNoFile
    <3> QED
      BY <1>1, <2>1, <3>4, <3>5, <3>6, <3>7 DEF Keeps, Used
  <2>2. CASE \E n \in {"baseline", "candidate"} :
                 inst[n] \notin {None, Foreign} /\ inst' = [inst EXCEPT ![n] = To(inst[n])]
                 /\ UNCHANGED <<deps, output>>
    <3>1. PICK n \in {"baseline", "candidate"} :
              inst[n] \notin {None, Foreign} /\ inst' = [inst EXCEPT ![n] = To(inst[n])]
      BY <2>2
    <3>2. inst[n] \in Tree
      BY <3>1 DEF Progress, Typed
    <3>3. To(inst[n]) \in Tree /\ To(inst[n]).mods = inst[n].mods
      BY <1>3, <3>2
    <3>4. Typed'
      BY <1>1, <2>2, <3>1, <3>3 DEF Progress, Typed
    <3>5. inst'.baseline = IF n = "baseline" THEN To(inst[n]) ELSE inst.baseline
      BY <3>1 DEF Progress, Typed
    <3>6. Used(inst.baseline) => Used(inst'.baseline)
      BY <3>3, <3>5 DEF Used
    <3> QED
      BY <1>1, <2>2, <3>4, <3>6 DEF Keeps, Used
  <2>3. CASE output \notin {None, Foreign} /\ output' = To(output) /\ UNCHANGED <<deps, inst>>
    <3>1. output' \in Tree
      BY <1>3, <2>3 DEF Progress, Typed
    <3> QED
      BY <1>1, <2>3, <3>1 DEF Progress, Typed, Keeps, Used
  <2>4. CASE UNCHANGED <<deps, inst, output>>
    BY <1>1, <2>4 DEF Progress, Typed, Keeps, Used
  <2>5. CASE \E n \in {"prepared", "state"} : deps[n] # None /\ deps' = [deps EXCEPT ![n] = Foreign]
                                              /\ UNCHANGED <<inst, output>>
    <3>1. Typed'
      BY <1>1, <2>5 DEF Progress, Typed
    <3>2. deps'.original = deps.original /\ deps'.baseline = deps.baseline
          /\ (deps'.state # None => deps.state # None)
      BY <2>5 DEF Progress, Typed
    <3> QED
      BY <1>1, <2>5, <3>1, <3>2 DEF Keeps, Used
  <2>6. CASE \E n \in {"prepared", "state"} : inst[n] # None /\ inst' = [inst EXCEPT ![n] = Foreign]
                                              /\ UNCHANGED <<deps, output>>
    <3>1. Typed'
      BY <1>1, <2>6 DEF Progress, Typed
    <3>2. inst'.baseline = inst.baseline
      BY <2>6 DEF Progress, Typed
    <3> QED
      BY <1>1, <2>6, <3>1, <3>2 DEF Keeps, Used
  <2> QED
    BY <1>2, <2>1, <2>2, <2>3, <2>4, <2>5, <2>6 DEF To
<1>5. run'.step = "idle"
  BY <1>1
<1> QED
  BY <1>4, <1>5, Idle, KeepsShut, KeepsStuck DEF Progress

LEMMA OthersProgress ==
    ASSUME Progress, TouchCheckout \/ Tick \/ UNCHANGED vars
    PROVE  Progress'
<1>1. /\ run' = run /\ known' = known /\ killed' = killed /\ before' = before
      /\ deps' = deps /\ inst' = inst /\ output' = output /\ result' = result
  BY DEF TouchCheckout, Tick, vars, dirs
<1>2. \A k : Printed(k)' = Printed(k)
  BY <1>1, SamePrints
<1>3. Typed' /\ Keeps /\ SamePhase
  BY <1>1 DEF Progress, Typed, Keeps, Used, SamePhase
<1>4. InPhase' /\ Bundling' /\ Preparing'
  BY <1>1, <1>2 DEF Progress, Working, InPhase, Bundling, Preparing, Used
<1>5. Installing' /\ Migrating' /\ Verifying'
  BY <1>1, <1>2 DEF Progress, Working, Installing, Migrating, Verifying, Used, Undone
<1> QED
  BY <1>3, <1>4, <1>5, KeepsShut, KeepsStuck DEF Progress, Working

-----------------------------------------------------------------------------
LEMMA StepProgress == IInv /\ Progress /\ [Next]_vars => Progress'
<1> SUFFICES ASSUME IInv, Progress, [Next]_vars PROVE Progress'
  OBVIOUS
<1>0. IInv'
  BY StepInv
<1>1. CASE Bundle \/ CheckHead \/ ListIndex \/ ReadSource \/ ReadLock \/ Encode
  BY <1>1, BundleProgress
<1>2. CASE Prepare \/ Extract \/ Convert \/ Project \/ SealDeps \/ SealInst
  BY <1>0, <1>2, PrepareProgress, ExtractProgress, ConvertProgress, ProjectProgress, SealDepsProgress,
     SealInstProgress
<1>3. CASE \E d \in Printed("prepared") :
              Install(d) \/ \E i \in Printed("installed") : Migrate(d, i)
  BY <1>3, InstallProgress, MigrateProgress
<1>4. CASE InstallBaseline \/ InstallCandidate \/ SealInstall
  BY <1>4, NpmProgress, SealInstallProgress
<1>5. CASE Import \/ Seal \/ ExtractOutput \/ ConvertOutput
  BY <1>5, ImportProgress, SealProgress, ExtractOutputProgress, ConvertOutputProgress
<1>6. CASE \E d \in Printed("dependency") : Verify(d)
  BY <1>6, VerifyProgress
<1>7. CASE Replay \/ CheckBaseline \/ CheckReplay \/ WriteEvidence
  BY <1>7, CheckProgress, WriteEvidenceProgress
<1>8. CASE Fail \/ Kill \/ Touch
  BY <1>8, FailProgress, KillProgress, TouchProgress
<1>9. CASE TouchCheckout \/ Tick \/ UNCHANGED vars
  BY <1>9, OthersProgress
<1> QED
  BY <1>1, <1>2, <1>3, <1>4, <1>5, <1>6, <1>7, <1>8, <1>9 DEF Next

(* What every phase finds and leaves: the shapes of the trees and of the   *)
(* state files, what stops a phase that has passed or was killed, and what *)
(* the phase under way has to take back.                                   *)
THEOREM ProgressInvariant == Spec => []Progress
  BY InitProgress, StepProgress, Invariant, PTL DEF Spec

(* A phase that was killed after it had begun to write, in whatever step   *)
(* and whatever is called afterwards, is never completed over what it      *)
(* left: runVerifyPhase prints no evidence for these directories.          *)
THEOREM KilledStaysFinal == Spec => []KilledIsFinal
<1>1. IInv /\ Progress => KilledIsFinal
  BY PhasesInOrder DEF Progress, Stuck, KilledIsFinal
<1> QED
  BY <1>1, Invariant, ProgressInvariant, PTL

(* The catch blocks of runPreparePhase and runMigratePhase take back all   *)
(* that the phase did, in whatever step it failed, so that it can be run   *)
(* again with the same digests.                                            *)
THEOREM FailuresRestore == Spec => FailureRestores
<1> DEFINE
      Restores == run.step \in PrepareSteps \cup MigrateSteps /\ run'.step = "idle" /\ ended' = "failed"
                     => <<deps', inst', output', result'>> = before
<1>1. IInv /\ Progress /\ [Next]_vars => [Restores]_vars
  <2> SUFFICES ASSUME IInv, Progress, Next, run.step \in PrepareSteps \cup MigrateSteps,
                      run'.step = "idle", ended' = "failed"
               PROVE  <<deps', inst', output', result'>> = before
    BY DEF vars
  <2>1. Fail
    <3>1. run.step # "idle"
      BY DEF PrepareSteps, MigrateSteps
    <3>2. CASE Bundle \/ CheckHead \/ ListIndex \/ ReadSource \/ ReadLock \/ Encode
      BY <3>2 DEF Bundle, BeginWith, CheckHead, ListIndex, ReadSource, ReadLock, Encode,
                  PrepareSteps, MigrateSteps
    <3>3. CASE Prepare \/ (\E d \in Printed("prepared") :
                  Install(d) \/ \E i \in Printed("installed") : Migrate(d, i))
               \/ \E d \in Printed("dependency") : Verify(d)
      BY <3>1, <3>3 DEF Prepare, Install, Migrate, Verify, Begin, BeginWith
    <3>4. CASE SealInst \/ SealInstall \/ ConvertOutput \/ WriteEvidence
      BY <3>4 DEF SealInst, SealInstall, ConvertOutput, WriteEvidence, Pass
    <3>5. CASE Extract \/ Convert \/ Project \/ SealDeps \/ Import \/ Seal \/ ExtractOutput
      <4>1. \E s : s # "idle" /\ run' = [run EXCEPT !.step = s]
        BY <3>5 DEF Extract, Convert, Project, SealDeps, Import, Seal, ExtractOutput, Step
      <4> QED
        BY <4>1 DEF IInv, Shapes
    <3>6. CASE InstallBaseline \/ InstallCandidate \/ Replay \/ CheckBaseline \/ CheckReplay
      BY <3>6 DEF InstallBaseline, InstallCandidate, Replay, CheckBaseline, CheckReplay,
                  PrepareSteps, MigrateSteps
    <3>7. CASE Kill
      BY <3>7 DEF Kill
    <3>8. CASE Touch \/ TouchCheckout \/ Tick
      BY <3>1, <3>8 DEF Touch, TouchCheckout, Tick
    <3> QED
      BY <3>2, <3>3, <3>4, <3>5, <3>6, <3>7, <3>8 DEF Next
  <2> QED
    BY <2>1, PrepareTakenBack, MigrateTakenBack
<1> QED
  BY <1>1, Invariant, ProgressInvariant, PTL DEF Spec, FailureRestores

=============================================================================

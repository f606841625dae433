-------------------------- MODULE MigrationProofs --------------------------
(***************************************************************************)
(* Proofs about Migration for any repository, options, lockfiles, type     *)
(* errors and number of edits by somebody else.                            *)
(*                                                                         *)
(* The argument: before the transaction the repository is untouched and a  *)
(* favourable verdict is about the present candidate, because every tool   *)
(* that changes it also spoils the verdict.  In the transaction a file     *)
(* that is not committed is as it was or somebody else's, what is staged   *)
(* or committed is still ahead of a rollback, and between the check of a   *)
(* file and its rename only a late edit can be in it.                      *)
(***************************************************************************)
EXTENDS Migration, FiniteSetTheorems, WellFoundedInduction, TLAPS

-----------------------------------------------------------------------------
(* Sequences of files.                                                     *)
LEMMA RangeEmpty == Range(<<>>) = {}
  BY DEF Range

LEMMA RangeOfReverse ==
    ASSUME NEW s \in Seq(Files)
    PROVE  Reverse(s) \in Seq(Files) /\ Range(Reverse(s)) = Range(s)
<1>1. Len(s) \in Nat /\ DOMAIN s = 1 .. Len(s) /\ \A i \in 1 .. Len(s) : s[i] \in Files
  OBVIOUS
<1>2. Reverse(s) = [i \in 1 .. Len(s) |-> s[(Len(s) - i) + 1]]
  BY DEF Reverse
<1>3. \A i \in 1 .. Len(s) : (Len(s) - i) + 1 \in 1 .. Len(s)
  BY <1>1
<1>4. Reverse(s) \in Seq(Files)
  <2>1. Reverse(s) \in [1 .. Len(s) -> Files]
    BY <1>1, <1>2, <1>3
  <2> QED
    BY <1>1, <2>1
<1>5. \A i \in 1 .. Len(s) : Reverse(s)[i] = s[(Len(s) - i) + 1] /\ Reverse(s)[(Len(s) - i) + 1] = s[i]
  <2> TAKE i \in 1 .. Len(s)
  <2>1. (Len(s) - ((Len(s) - i) + 1)) + 1 = i
    BY <1>1
  <2> QED
    BY <1>2, <1>3, <2>1
<1>6. DOMAIN Reverse(s) = 1 .. Len(s)
  BY <1>2
<1>7. \A x : x \in Range(Reverse(s)) <=> x \in Range(s)
  BY <1>1, <1>3, <1>5, <1>6 DEF Range
<1> QED
  BY <1>4, <1>7

LEMMA RangeOfTail ==
    ASSUME NEW s \in Seq(Files), s # <<>>
    PROVE  /\ Head(s) \in Files /\ Tail(s) \in Seq(Files)
           /\ Range(s) = {Head(s)} \cup Range(Tail(s))
<1>1. /\ Len(s) \in Nat /\ Len(s) >= 1 /\ DOMAIN s = 1 .. Len(s)
      /\ Head(s) = s[1] /\ Tail(s) \in Seq(Files)
      /\ DOMAIN Tail(s) = 1 .. (Len(s) - 1) /\ \A i \in 1 .. (Len(s) - 1) : Tail(s)[i] = s[i + 1]
  OBVIOUS
<1>2. \A i \in 1 .. Len(s) : i = 1 \/ (i - 1 \in 1 .. (Len(s) - 1) /\ (i - 1) + 1 = i)
  BY <1>1
<1>3. \A i \in 1 .. (Len(s) - 1) : i + 1 \in 1 .. Len(s)
  BY <1>1
<1>4. \A x \in Range(s) : x = Head(s) \/ x \in Range(Tail(s))
  <2> SUFFICES ASSUME NEW i \in 1 .. Len(s), i # 1 PROVE s[i] \in Range(Tail(s))
    BY <1>1 DEF Range
  <2>1. i - 1 \in DOMAIN Tail(s) /\ Tail(s)[i - 1] = s[i]
    BY <1>1, <1>2
  <2> QED
    BY <2>1 DEF Range
<1>5. Head(s) \in Range(s) /\ \A x \in Range(Tail(s)) : x \in Range(s)
  BY <1>1, <1>3 DEF Range
<1> QED
  BY <1>1, <1>4, <1>5

LEMMA RangeOfBoth ==
    ASSUME NEW s \in Seq(Files), NEW t \in Seq(Files)
    PROVE  s \o t \in Seq(Files) /\ Range(s \o t) = Range(s) \cup Range(t)
<1>1. /\ Len(s) \in Nat /\ Len(t) \in Nat
      /\ DOMAIN s = 1 .. Len(s) /\ DOMAIN t = 1 .. Len(t)
      /\ s \o t \in Seq(Files) /\ DOMAIN (s \o t) = 1 .. (Len(s) + Len(t))
      /\ \A i \in 1 .. Len(s) : (s \o t)[i] = s[i]
      /\ \A i \in 1 .. (Len(s) + Len(t)) : i > Len(s) => (s \o t)[i] = t[i - Len(s)]
  OBVIOUS
<1>2. \A i \in 1 .. Len(t) : i + Len(s) \in 1 .. (Len(s) + Len(t)) /\ i + Len(s) > Len(s)
                             /\ (i + Len(s)) - Len(s) = i
  BY <1>1
<1>3. \A x \in Range(t) : x \in Range(s \o t)
  <2> SUFFICES ASSUME NEW i \in 1 .. Len(t) PROVE t[i] \in Range(s \o t)
    BY <1>1 DEF Range
  <2>1. i + Len(s) \in DOMAIN (s \o t) /\ (s \o t)[i + Len(s)] = t[i]
    BY <1>1, <1>2
  <2> QED
    BY <2>1 DEF Range
<1>4. \A x \in Range(s) : x \in Range(s \o t)
  BY <1>1 DEF Range
<1>5. \A x \in Range(s \o t) : x \in Range(s) \/ x \in Range(t)
  BY <1>1 DEF Range
<1> QED
  BY <1>1, <1>3, <1>4, <1>5

ChangedSet == {f \in {"docker", "lock", "pkg", "src"} : Differs(f)}

LEMMA ChangedRange == ChangedFiles \in Seq(Files) /\ Range(ChangedFiles) = ChangedSet
<1> USE DEF Files
<1>1. \A f \in Files : /\ Changed(f) \in Seq(Files)
                       /\ Range(Changed(f)) = {g \in {f} : Differs(g)}
  <2> TAKE f \in Files
  <2>1. CASE Differs(f)
    BY <2>1 DEF Changed, Range
  <2>2. CASE ~Differs(f)
    BY <2>2 DEF Changed, Range
  <2> QED
    BY <2>1, <2>2
<1> DEFINE a == Changed("docker") \o Changed("lock")
           b == a \o Changed("pkg")
<1>2. a \in Seq(Files) /\ Range(a) = Range(Changed("docker")) \cup Range(Changed("lock"))
  BY <1>1, RangeOfBoth
<1> HIDE DEF a
<1>3. b \in Seq(Files) /\ Range(b) = Range(a) \cup Range(Changed("pkg"))
  BY <1>1, <1>2, RangeOfBoth
<1> HIDE DEF b
<1>4. b \o Changed("src") \in Seq(Files)
      /\ Range(b \o Changed("src")) = Range(b) \cup Range(Changed("src"))
  BY <1>1, <1>3, RangeOfBoth
<1>5. ChangedFiles = b \o Changed("src")
  BY DEF ChangedFiles, a, b
<1>6. Range(b \o Changed("src")) = ChangedSet
  BY <1>1, <1>2, <1>3, <1>4 DEF ChangedSet
<1> QED
  BY <1>4, <1>5, <1>6

-----------------------------------------------------------------------------
(* introducedErrors: when nothing is introduced, no error is in the list   *)
(* more often than before.  Its last occurrence counts all of them.        *)
Count(s, e) == Cardinality({i \in DOMAIN s : s[i] = e})

LEMMA LastElement ==
    ASSUME NEW n \in Nat, NEW S \in SUBSET (1 .. n), S # {}
    PROVE  \E x \in S : \A y \in S : y <= x
<1> DEFINE T == {n - x : x \in S}
<1>1. T \subseteq Nat /\ T # {}
  <2>1. \A x \in 1 .. n : n - x \in Nat
    OBVIOUS
  <2>2. \A y \in T : y \in Nat
    BY <2>1
  <2>3. PICK x \in S : TRUE
    OBVIOUS
  <2>4. n - x \in T
    OBVIOUS
  <2> QED
    BY <2>2, <2>4
<1>2. PICK m \in T : \A y \in T : ~ (<<y, m>> \in OpToRel(<, Nat))
  BY <1>1, NatLessThanWellFounded, WFMin
<1>3. \A y \in T : ~(y < m)
  BY <1>1, <1>2 DEF OpToRel
<1>4. PICK x \in S : m = n - x
  OBVIOUS
<1>5. \A y \in S : ~(n - y < n - x)
  BY <1>3, <1>4
<1> QED
  BY <1>5

LEMMA NothingIntroduced ==
    ASSUME NEW after \in Errors, NEW before \in Errors, NEW e, Introduced(after, before) = {}
    PROVE  Count(after, e) <= Count(before, e)
<1>1. PICK n \in Nat : after \in [1 .. n -> Signatures]
  BY MigrationAssumption DEF Errors
<1>2. PICK k \in Nat : before \in [1 .. k -> Signatures]
  BY MigrationAssumption DEF Errors
<1> DEFINE S == {i \in DOMAIN after : after[i] = e}
<1>3. IsFiniteSet({i \in DOMAIN before : before[i] = e})
  BY <1>2, FS_Interval, FS_Subset
<1>4. Count(before, e) \in Nat
  BY <1>3, FS_CardinalityType DEF Count
<1>5. CASE S = {}
  BY <1>4, <1>5, FS_EmptySet DEF Count
<1>6. CASE S # {}
  <2>1. PICK j \in S : \A i \in S : i <= j
    BY <1>1, <1>6, LastElement
  <2>2. Cardinality({i \in 1 .. j : after[i] = after[j]}) <= Count(before, after[j])
    BY <2>1 DEF Introduced, Count
  <2>3. {i \in 1 .. j : after[i] = after[j]} = S
    BY <1>1, <2>1
  <2> QED
    BY <2>1, <2>2, <2>3 DEF Count
<1> QED
  BY <1>5, <1>6

-----------------------------------------------------------------------------
Trees == [Files -> Contents]
Before == {"baseline", "transform", "install", "config", "compile"}
Planning == Before \cup {"script", "report"}
Transaction == {"apply", "stage", "commit", "rollback"}

Typed ==
    /\ opts \in Options
    /\ expected \in Trees /\ expected.pkg \in Package
    /\ work \in Trees
    /\ repo \in [Files -> Contents \cup {Edited}]
    /\ baseline \in Errors \cup {None} /\ compiled \in Errors
    /\ ok \in BOOLEAN
    /\ pc \in Planning \cup Transaction \cup {"done", "failed"}

(* Until the transaction begins nothing was written.                       *)
Untouched ==
    pc \in Planning \cup {"apply"} =>
        /\ staged = {} /\ committed = {} /\ window = None
        /\ ~rollbackFailed
        /\ pc # "apply" => repo = expected

(* What is not committed is as it was, or edited by somebody else, and     *)
(* what is staged or committed is still ahead of a rollback.               *)
Covered ==
    pc \in Transaction =>
        /\ todo \in Seq(Files) /\ Range(todo) \subseteq ChangedSet
        /\ pc = "stage" => window = None
        /\ committed \subseteq ChangedSet
        /\ pc # "rollback" => staged \subseteq ChangedSet
        /\ \/ rollbackFailed
           \/ /\ \A f \in Files \ committed : repo[f] \in {expected[f], Edited}
              /\ pc = "rollback" => staged \cup committed \subseteq Range(todo)

(* A file that was checked and not edited since is as it was checked.      *)
Windows ==
    /\ pc = "commit" /\ window # None =>
          window \in ChangedSet /\ (window \notin late => repo[window] = expected[window])
    /\ pc = "rollback" /\ window # None =>
          window \in ChangedSet /\ (window \notin late => repo[window] = work[window])

(* The candidate's package.json and Dockerfile are those of the transform, *)
(* and other files are left alone before the first tool of the repository  *)
(* runs.                                                                   *)
Planned ==
    /\ pc \in {"baseline", "transform"} => work = expected
    /\ pc \notin {"baseline", "transform", "failed"} =>
          CanUpdate(expected.pkg) /\ work.pkg = Updated(expected.pkg) /\ work.docker = "pinned"
    /\ pc \in Before => work.other = expected.other /\ seen = {} /\ ok = FALSE
    /\ pc \in {"config", "compile"} => CompilerTrusted(work, compiler)

(* What a favourable verdict rests on.                                     *)
Verdict ==
    ok =>
        /\ pc \notin {"failed"} => seen = {work} /\ work.other = expected.other
        /\ pc \in {"script", "report"} =>
              /\ trusted /\ CompilerTrusted(work, compiler)
              /\ baseline # None /\ Introduced(compiled, baseline) = {}

(* The inductive invariant.                                                *)
IInv == Typed /\ Untouched /\ Covered /\ Windows /\ Planned /\ Verdict /\ FailureRestores

-----------------------------------------------------------------------------
LEMMA ContentsOf == /\ \A l \in Locks : l \in Contents
                    /\ Package \subseteq Contents
                    /\ {Scribbled, "old", "new", "pinned"} \subseteq Contents
                    /\ Edited \notin Contents
  BY MigrationAssumption DEF Contents

(* updateManifestDependencies is idempotent, and accepts what it wrote.    *)
LEMMA UpdatedTwice ==
    ASSUME NEW pkg \in Package, CanUpdate(pkg)
    PROVE  Updated(pkg) \in Package /\ CanUpdate(Updated(pkg)) /\ Updated(Updated(pkg)) = Updated(pkg)
<1> USE MigrationAssumption
<1> DEFINE u == Updated(pkg)
<1>1. /\ Floor \in Versions /\ Target \in Versions /\ NodeFloor(pkg.engines) \in Versions
      /\ pkg.floor \in Versions
  BY DEF Versions, Package, NodeFloor
<1>2. u \in Package
  BY <1>1 DEF Updated, Package
<1>3. /\ u.target = Target
      /\ u.floor = IF MeetsFloor(pkg.floor) THEN pkg.floor ELSE Floor
      /\ u.engines = NodeFloor(pkg.engines)
  BY DEF Updated, Package
<1>4. NodeFloor(pkg.engines) \in MinNode .. ProfileNode
  BY DEF NodeFloor, CanUpdate
<1>5. MeetsFloor(u.floor) /\ u.floor # NonRegistry
  BY <1>3 DEF MeetsFloor
<1>6. NodeFloor(u.engines) = u.engines /\ u.engines \in 0 .. ProfileNode
  BY <1>3, <1>4 DEF NodeFloor
<1>7. CanUpdate(u)
  BY <1>3, <1>5, <1>6 DEF CanUpdate
<1>8. Updated(u) = u
  <2>1. Updated(u) = [u EXCEPT !.target = u.target, !.floor = u.floor, !.engines = u.engines]
    BY <1>3, <1>5, <1>6 DEF Updated
  <2> HIDE DEF u
  <2>2. /\ u = [x \in DOMAIN u |-> u[x]]
        /\ DOMAIN u = {"target", "floor", "engines", "npmrc", "spec", "typescript", "override", "manager"}
    BY <1>2 DEF Package
  <2> QED
    BY <2>1, <2>2
<1> QED
  BY <1>2, <1>7, <1>8

LEMMA NoErrors == <<>> \in Errors
<1>1. <<>> \in [1 .. 0 -> Signatures]
  OBVIOUS
<1>2. 0 \in 0 .. MaxErrors
  BY MigrationAssumption
<1> QED
  BY <1>1, <1>2 DEF Errors

LEMMA InitInv == Init => IInv
<1> SUFFICES ASSUME Init PROVE IInv
  OBVIOUS
<1>1. PICK r \in Repositories :
        repo = [src |-> "old", pkg |-> r.pkg, lock |-> r.lock, docker |-> r.docker, other |-> "old"]
  BY DEF Init
<1>2. /\ opts \in Options /\ pc = "baseline" /\ expected = repo /\ work = repo
      /\ baseline = None /\ ok = FALSE /\ seen = {} /\ compiled = <<>>
      /\ staged = {} /\ committed = {} /\ window = None /\ rollbackFailed = FALSE
  BY DEF Init
<1>3. r.pkg \in Package /\ r.lock \in Contents /\ r.docker \in Contents
  BY MigrationAssumption DEF Contents
<1>4. repo \in Trees /\ repo.pkg \in Package
  <2>1. "old" \in Contents /\ r.pkg \in Contents
    BY <1>3, ContentsOf
  <2> QED
    BY <1>1, <1>3, <2>1 DEF Trees, Files
<1>5. <<>> \in Errors
  BY NoErrors
<1>6. Typed
  BY <1>2, <1>4, <1>5 DEF Typed, Trees, Planning, Before
<1>7. Untouched /\ Covered /\ Windows /\ Planned /\ Verdict /\ FailureRestores
  BY <1>2 DEF Untouched, Covered, Windows, Planned, Verdict, FailureRestores, Transaction
<1> QED
  BY <1>6, <1>7 DEF IInv

-----------------------------------------------------------------------------
(* Planning and verification leave the repository alone.                   *)
LEMMA PlanningStep ==
    ASSUME IInv, pc \in Planning, pc' \in Planning \cup {"failed"}, UNCHANGED planning,
           work' \in Trees, baseline' \in Errors \cup {None}, compiled' \in Errors, ok' \in BOOLEAN,
           Planned', Verdict'
    PROVE  IInv'
<1>1. /\ opts' = opts /\ repo' = repo /\ expected' = expected /\ staged' = staged
      /\ committed' = committed /\ window' = window /\ rollbackFailed' = rollbackFailed
  BY DEF planning, transaction
<1>2. Typed'
  BY <1>1 DEF IInv, Typed
<1>3. Untouched'
  BY <1>1 DEF IInv, Untouched, Planning, Before
<1>4. Covered' /\ Windows'
  BY DEF Covered, Windows, Transaction, Planning, Before
<1>5. FailureRestores'
  <2>1. staged = {} /\ repo = expected
    BY DEF IInv, Untouched, Planning, Before
  <2> QED
    BY <1>1, <2>1 DEF FailureRestores
<1> QED
  BY <1>2, <1>3, <1>4, <1>5 DEF IInv

LEMMA BaselineInv == ASSUME IInv, Baseline PROVE IInv'
<1>1. /\ pc = "baseline" /\ pc' = "transform" /\ UNCHANGED planning
      /\ work' = work /\ compiler' = compiler /\ ok' = ok /\ seen' = seen /\ compiled' = compiled
      /\ expected' = expected /\ baseline' \in Errors \cup {None}
  BY DEF Baseline, Goto, planning
<1>2. Planned'
  BY <1>1 DEF IInv, Planned, Before
<1>3. Verdict'
  BY <1>1 DEF IInv, Planned, Verdict, Before
<1> QED
  BY <1>1, <1>2, <1>3, PlanningStep DEF IInv, Typed, Planning, Before

LEMMA TransformInv == ASSUME IInv, Transform PROVE IInv'
<1>1. pc = "transform" /\ UNCHANGED <<planning, verification>> /\ work = expected /\ ok = FALSE /\ seen = {}
  BY DEF Transform, Refuse, IInv, Planned, Before
<1>2. /\ UNCHANGED planning
      /\ expected' = expected /\ compiler' = compiler /\ baseline' = baseline /\ ok' = ok
      /\ seen' = seen /\ trusted' = trusted /\ compiled' = compiled
  BY <1>1 DEF verification, planning
<1>3. CASE /\ CanPin(work.docker) /\ CanUpdate(work.pkg)
           /\ \E src \in Transformed :
                 work' = [work EXCEPT !.docker = "pinned", !.pkg = Updated(work.pkg), !.src = src]
           /\ Goto(IF opts.skip THEN "report" ELSE "install")
  <2>1. PICK src \in Transformed :
          work' = [work EXCEPT !.docker = "pinned", !.pkg = Updated(work.pkg), !.src = src]
    BY <1>3
  <2>2. work \in Trees /\ work.pkg \in Package
    BY <1>1 DEF IInv, Typed
  <2>3. Updated(work.pkg) \in Contents /\ src \in Contents /\ "pinned" \in Contents
    BY <1>3, <2>2, UpdatedTwice, ContentsOf DEF Transformed
  <2>4. work' \in Trees
    BY <2>1, <2>2, <2>3 DEF Trees, Files
  <2>5. work'.docker = "pinned" /\ work'.pkg = Updated(work.pkg) /\ work'.other = work.other
    BY <2>1, <2>2 DEF Trees, Files
  <2>6. pc' \in {"install", "report"}
    BY <1>3 DEF Goto
  <2>7. Planned'
    BY <1>1, <1>2, <1>3, <2>5, <2>6 DEF Planned, Before
  <2>8. Verdict'
    BY <1>1, <1>2 DEF Verdict
  <2> QED
    BY <1>1, <1>2, <2>4, <2>6, <2>7, <2>8, PlanningStep DEF IInv, Typed, Planning, Before
<1>4. CASE Refuse
  <2>1. pc' = "failed" /\ work' = work
    BY <1>4 DEF Refuse, Goto
  <2>2. Planned' /\ Verdict'
    BY <1>1, <1>2, <2>1 DEF Planned, Verdict, Before
  <2> QED
    BY <1>1, <1>2, <2>1, <2>2, PlanningStep DEF IInv, Typed, Planning, Before
<1> QED
  BY <1>3, <1>4 DEF Transform

LEMMA InstallInv == ASSUME IInv, Install PROVE IInv'
<1>1. /\ pc = "install" /\ UNCHANGED planning
      /\ expected' = expected /\ baseline' = baseline /\ seen' = seen /\ trusted' = trusted
      /\ compiled' = compiled
  BY DEF Install, planning
<1>2. /\ CanUpdate(expected.pkg) /\ work.pkg = Updated(expected.pkg) /\ work.docker = "pinned"
      /\ work.other = expected.other /\ seen = {} /\ ok = FALSE /\ work \in Trees
  BY <1>1 DEF IInv, Planned, Typed, Before
<1>3. work' = work \/ \E lock \in Locks : work' = [work EXCEPT !.lock = lock]
  BY DEF Install, NpmInstall
<1>4. work' \in Trees /\ work'.pkg = work.pkg /\ work'.docker = work.docker /\ work'.other = work.other
  BY <1>2, <1>3, ContentsOf DEF Trees, Files
<1>5. \/ pc' = "report" /\ ok' = FALSE
      \/ pc' = "config" /\ ok' = ok /\ CompilerTrusted(work', compiler')
  BY DEF Install, Incomplete, Goto
<1>6. ok' = FALSE
  BY <1>2, <1>5
<1>7. Planned'
  BY <1>1, <1>2, <1>4, <1>5, <1>6 DEF Planned, Before, CompilerTrusted, CompilerDeclared, LockTrusted
<1>8. Verdict'
  BY <1>6 DEF Verdict
<1> QED
  BY <1>1, <1>4, <1>5, <1>6, <1>7, <1>8, PlanningStep DEF IInv, Typed, Planning, Before

(* What a tool of the repository leaves behind is in the sources.          *)
LEMMA Scribbles ==
    ASSUME IInv, MayScribble
    PROVE  /\ work' \in Trees /\ work'.pkg = work.pkg /\ work'.docker = work.docker
           /\ work'.lock = work.lock
<1>1. work \in Trees /\ Scribbled \in Contents
  BY ContentsOf DEF IInv, Typed
<1>2. work' = work \/ \E f \in {"src", "other"} : work' = [work EXCEPT ![f] = Scribbled]
  BY DEF MayScribble
<1> QED
  BY <1>1, <1>2 DEF Trees, Files

LEMMA InspectConfigInv == ASSUME IInv, InspectConfig PROVE IInv'
<1>1. /\ pc = "config" /\ UNCHANGED planning /\ MayScribble
      /\ expected' = expected /\ compiler' = compiler /\ baseline' = baseline /\ seen' = seen
      /\ trusted' = trusted /\ compiled' = compiled
  BY DEF InspectConfig, planning
<1>2. /\ CanUpdate(expected.pkg) /\ work.pkg = Updated(expected.pkg) /\ work.docker = "pinned"
      /\ work.other = expected.other /\ seen = {} /\ ok = FALSE /\ CompilerTrusted(work, compiler)
  BY <1>1 DEF IInv, Planned, Before
<1>3. work' \in Trees /\ work'.pkg = work.pkg /\ work'.docker = work.docker
  BY <1>1, Scribbles
<1>4. (work' = work /\ pc' = "compile" /\ ok' = ok) \/ (pc' = "report" /\ ok' = FALSE)
  BY DEF InspectConfig, Incomplete, Goto
<1>5. ok' = FALSE
  BY <1>2, <1>4
<1>6. Planned'
  BY <1>1, <1>2, <1>3, <1>4, <1>5 DEF Planned, Before
<1>7. Verdict'
  BY <1>5 DEF Verdict
<1> QED
  BY <1>1, <1>3, <1>4, <1>5, <1>6, <1>7, PlanningStep DEF IInv, Typed, Planning, Before

LEMMA CompileInv == ASSUME IInv, Compile PROVE IInv'
<1>1. /\ pc = "compile" /\ UNCHANGED planning /\ MayScribble
      /\ expected' = expected /\ compiler' = compiler /\ baseline' = baseline
      /\ trusted' = CompilerTrusted(work, compiler)
  BY DEF Compile, planning
<1>2. /\ CanUpdate(expected.pkg) /\ work.pkg = Updated(expected.pkg) /\ work.docker = "pinned"
      /\ work.other = expected.other /\ seen = {} /\ ok = FALSE /\ CompilerTrusted(work, compiler)
  BY <1>1 DEF IInv, Planned, Before
<1>3. work' \in Trees /\ work'.pkg = work.pkg /\ work'.docker = work.docker
  BY <1>1, Scribbles
<1>4. PICK raw \in Results, out \in Outputs :
        IF Counts(raw, out) /\ work' = work /\ baseline # None
        THEN /\ ok' = (Introduced(out.errors, baseline) = {})
             /\ compiled' = out.errors
             /\ seen' = seen \cup {work}
             /\ Goto(IF opts.scripts THEN "script" ELSE "report")
        ELSE Incomplete /\ UNCHANGED <<seen, compiled>>
  BY DEF Compile
<1>5. out.errors \in Errors
  BY DEF Outputs
<1>6. CASE Counts(raw, out) /\ work' = work /\ baseline # None
  <2>1. /\ ok' = (Introduced(out.errors, baseline) = {}) /\ compiled' = out.errors
        /\ seen' = {work} /\ pc' \in {"script", "report"}
    BY <1>2, <1>4, <1>6 DEF Goto
  <2>2. ok' \in BOOLEAN /\ (ok' => Introduced(compiled', baseline') = {})
    BY <1>1, <2>1
  <2>3. Planned'
    BY <1>1, <1>2, <1>6, <2>1 DEF Planned, Before
  <2>4. trusted' /\ CompilerTrusted(work', compiler')
    BY <1>1, <1>2, <1>6
  <2>5. Verdict'
    BY <1>1, <1>2, <1>6, <2>1, <2>2, <2>4
       DEF Verdict, CompilerTrusted, CompilerDeclared, LockTrusted, Introduced
  <2> QED
    BY <1>1, <1>3, <1>5, <2>1, <2>2, <2>3, <2>5, PlanningStep DEF IInv, Typed, Planning, Before
<1>7. CASE ~(Counts(raw, out) /\ work' = work /\ baseline # None)
  <2>1. pc' = "report" /\ ok' = FALSE /\ seen' = seen /\ compiled' = compiled
    BY <1>4, <1>7 DEF Incomplete, Goto
  <2>2. Planned' /\ Verdict'
    BY <1>1, <1>2, <1>3, <2>1 DEF Planned, Verdict, Before
  <2> QED
    BY <1>1, <1>3, <2>1, <2>2, PlanningStep DEF IInv, Typed, Planning, Before
<1> QED
  BY <1>6, <1>7

LEMMA ScriptInv == ASSUME IInv, Script PROVE IInv'
<1>1. /\ pc = "script" /\ UNCHANGED planning /\ MayScribble
      /\ expected' = expected /\ compiler' = compiler /\ baseline' = baseline
      /\ trusted' = trusted /\ compiled' = compiled /\ pc' \in {"script", "report"}
  BY DEF Script, planning, Goto
<1>2. /\ CanUpdate(expected.pkg) /\ work.pkg = Updated(expected.pkg) /\ work.docker = "pinned"
  BY <1>1 DEF IInv, Planned
<1>3. work' \in Trees /\ work'.pkg = work.pkg /\ work'.docker = work.docker
  BY <1>1, Scribbles
<1>4. Planned'
  BY <1>1, <1>2, <1>3 DEF Planned, Before
<1>5. CASE work' = work /\ seen' = seen \cup {work} /\ ok' = ok
  <2>1. Verdict'
    <3> SUFFICES ASSUME ok
                 PROVE  /\ seen' = {work'} /\ work'.other = expected'.other
                        /\ trusted' /\ CompilerTrusted(work, compiler)'
                        /\ baseline' # None /\ Introduced(compiled, baseline)' = {}
      BY <1>1, <1>5 DEF Verdict
    <3>1. /\ seen = {work} /\ work.other = expected.other
          /\ trusted /\ CompilerTrusted(work, compiler)
          /\ baseline # None /\ Introduced(compiled, baseline) = {}
      BY <1>1 DEF IInv, Verdict
    <3> QED
      BY <1>1, <1>5, <3>1 DEF CompilerTrusted, CompilerDeclared, LockTrusted, Introduced
  <2> QED
    BY <1>1, <1>3, <1>4, <1>5, <2>1, PlanningStep DEF IInv, Typed, Planning, Before
<1>6. CASE ok' = FALSE
  <2>1. Verdict'
    BY <1>6 DEF Verdict
  <2> QED
    BY <1>1, <1>3, <1>4, <1>6, <2>1, PlanningStep DEF IInv, Typed, Planning, Before
<1> QED
  BY <1>5, <1>6 DEF Script

(* A verdict that is reported is that of the compiler, the scripts and the *)
(* runtime about the present candidate.                                    *)
LEMMA ReportInv == ASSUME IInv, Report PROVE IInv'
<1>1. /\ pc = "report" /\ pc' \in {"apply", "done"} /\ todo' = ChangedFiles
      /\ opts' = opts /\ repo' = repo /\ expected' = expected /\ work' = work /\ staged' = staged
      /\ committed' = committed /\ window' = window /\ rollbackFailed' = rollbackFailed
      /\ seen' = seen /\ baseline' = None /\ compiled' = <<>>
      /\ ok' \in BOOLEAN /\ (ok' => ok)
  BY DEF Report, Goto
<1>2. /\ staged = {} /\ committed = {} /\ window = None /\ ~rollbackFailed /\ repo = expected
  BY <1>1 DEF IInv, Untouched, Planning
<1>3. Typed'
  BY <1>1, NoErrors DEF IInv, Typed, Transaction
<1>4. Untouched'
  BY <1>1, <1>2 DEF Untouched, Planning, Before
<1>5. Covered'
  <2>1. todo' \in Seq(Files) /\ Range(todo') = ChangedSet /\ ChangedSet' = ChangedSet
    BY <1>1, ChangedRange DEF ChangedSet, Differs
  <2> QED
    BY <1>1, <1>2, <2>1 DEF Covered
<1>6. Windows' /\ FailureRestores'
  BY <1>1 DEF Windows, FailureRestores
<1>7. Planned'
  BY <1>1 DEF IInv, Planned, Before
<1>8. Verdict'
  BY <1>1 DEF IInv, Verdict
<1> QED
  BY <1>3, <1>4, <1>5, <1>6, <1>7, <1>8 DEF IInv

-----------------------------------------------------------------------------
(* The transaction changes the repository and its own files only.          *)
LEMMA TransactionStep ==
    ASSUME IInv, pc \in Transaction, pc' \in {"stage", "commit", "rollback", "done", "failed"},
           UNCHANGED still, repo' \in [Files -> Contents \cup {Edited}],
           Covered', Windows', FailureRestores'
    PROVE  IInv'
<1>1. /\ opts' = opts /\ expected' = expected /\ work' = work /\ compiler' = compiler
      /\ baseline' = baseline /\ ok' = ok /\ seen' = seen /\ compiled' = compiled
  BY DEF still, verification
<1>2. Typed'
  BY <1>1 DEF IInv, Typed, Transaction
<1>3. Untouched'
  BY DEF Untouched, Planning, Before
<1>4. Planned'
  BY <1>1 DEF IInv, Planned, Transaction, Before
<1>5. Verdict'
  BY <1>1 DEF IInv, Verdict, Transaction
<1> QED
  BY <1>2, <1>3, <1>4, <1>5 DEF IInv

LEMMA StillThere ==
    ASSUME UNCHANGED still
    PROVE  /\ work' = work /\ expected' = expected /\ late' = late
           /\ ChangedSet' = ChangedSet
  BY DEF still, ChangedSet, Differs

LEMMA AbortInv == ASSUME IInv, Abort, pc \in {"apply", "stage", "commit"} PROVE IInv'
<1>1. /\ pc' = "rollback" /\ todo' = Reverse(ChangedFiles) /\ window' = None
      /\ repo' = repo /\ staged' = staged /\ committed' = committed /\ rollbackFailed' = rollbackFailed
      /\ UNCHANGED still
  BY DEF Abort, Goto
<1>2. todo' \in Seq(Files) /\ Range(todo') = ChangedSet
  BY <1>1, ChangedRange, RangeOfReverse
<1>3. /\ committed \subseteq ChangedSet /\ staged \subseteq ChangedSet
      /\ rollbackFailed \/ \A f \in Files \ committed : repo[f] \in {expected[f], Edited}
  BY DEF IInv, Covered, Transaction
<1>4. Covered'
  BY <1>1, <1>2, <1>3, StillThere DEF Covered
<1>5. Windows' /\ FailureRestores'
  BY <1>1 DEF Windows, FailureRestores
<1> QED
  BY <1>1, <1>4, <1>5, TransactionStep DEF IInv, Typed, Transaction

LEMMA ApplyCheckInv == ASSUME IInv, ApplyCheck PROVE IInv'
<1>1. CASE Abort
  BY <1>1, AbortInv DEF ApplyCheck
<1>2. CASE ~Abort
  <2>1. pc = "apply" /\ pc' = "stage" /\ repo' = repo /\ UNCHANGED transaction /\ UNCHANGED still
    BY <1>2 DEF ApplyCheck, Goto
  <2>2. /\ todo' = todo /\ staged' = staged /\ committed' = committed /\ window' = window
        /\ rollbackFailed' = rollbackFailed
    BY <2>1 DEF transaction
  <2>3. Covered'
    BY <2>1, <2>2, StillThere DEF IInv, Covered, Untouched, Transaction
  <2>4. Windows' /\ FailureRestores'
    BY <2>1 DEF Windows, FailureRestores
  <2> QED
    BY <2>1, <2>3, <2>4, TransactionStep DEF IInv, Typed, Transaction
<1> QED
  BY <1>1, <1>2

LEMMA StageInv == ASSUME IInv, Stage PROVE IInv'
<1>1. CASE Abort
  BY <1>1, AbortInv DEF Stage
<1>2. CASE ~Abort
  <2>1. /\ pc = "stage" /\ todo # <<>> /\ pc' = pc /\ repo' = repo /\ UNCHANGED still
        /\ staged' \in {staged, staged \cup {Head(todo)}}
        /\ todo' = Tail(todo) /\ committed' = committed /\ window' = window
        /\ rollbackFailed' = rollbackFailed
    BY <1>2 DEF Stage
  <2>2. todo \in Seq(Files) /\ Range(todo) \subseteq ChangedSet
    BY <2>1 DEF IInv, Covered, Transaction
  <2>3. Head(todo) \in ChangedSet /\ todo' \in Seq(Files) /\ Range(todo') \subseteq ChangedSet
    BY <2>1, <2>2, RangeOfTail
  <2>4. Covered'
    BY <2>1, <2>3, StillThere DEF IInv, Covered, Transaction
  <2>5. Windows' /\ FailureRestores'
    BY <2>1 DEF Windows, FailureRestores
  <2> QED
    BY <2>1, <2>4, <2>5, TransactionStep DEF IInv, Typed, Transaction
<1> QED
  BY <1>1, <1>2

LEMMA RecheckInv == ASSUME IInv, Recheck PROVE IInv'
<1>1. CASE Abort
  BY <1>1, AbortInv DEF Recheck
<1>2. CASE ~Abort
  <2>1. /\ pc = "stage" /\ pc' = "commit" /\ todo' = ChangedFiles /\ repo' = repo /\ UNCHANGED still
        /\ staged' = staged /\ committed' = committed /\ window' = window
        /\ rollbackFailed' = rollbackFailed
    BY <1>2 DEF Recheck, Goto
  <2>2. window = None
    BY <2>1 DEF IInv, Covered, Transaction
  <2>3. Covered'
    BY <2>1, ChangedRange, StillThere DEF IInv, Covered, Transaction
  <2>4. Windows' /\ FailureRestores'
    BY <2>1, <2>2 DEF Windows, FailureRestores
  <2> QED
    BY <2>1, <2>3, <2>4, TransactionStep DEF IInv, Typed, Transaction
<1> QED
  BY <1>1, <1>2

LEMMA CheckOneInv == ASSUME IInv, CheckOne PROVE IInv'
<1>1. CASE Abort
  BY <1>1, AbortInv DEF CheckOne
<1>2. CASE ~Abort
  <2>1. /\ pc = "commit" /\ todo # <<>> /\ pc' = pc /\ todo' = todo /\ repo' = repo /\ UNCHANGED still
        /\ repo[Head(todo)] = expected[Head(todo)] /\ window' = Head(todo)
        /\ staged' = staged /\ committed' = committed /\ rollbackFailed' = rollbackFailed
    BY <1>2 DEF CheckOne, AsExpected
  <2>2. todo \in Seq(Files) /\ Range(todo) \subseteq ChangedSet
    BY <2>1 DEF IInv, Covered, Transaction
  <2>3. Head(todo) \in ChangedSet
    BY <2>1, <2>2, RangeOfTail
  <2>4. Covered'
    BY <2>1, StillThere DEF IInv, Covered, Transaction
  <2>5. Windows'
    BY <2>1, <2>3, StillThere DEF Windows
  <2>6. FailureRestores'
    BY <2>1 DEF FailureRestores
  <2> QED
    BY <2>1, <2>4, <2>5, <2>6, TransactionStep DEF IInv, Typed, Transaction
<1> QED
  BY <1>1, <1>2

LEMMA RenameInv == ASSUME IInv, Rename PROVE IInv'
<1>1. CASE Abort
  BY <1>1, AbortInv DEF Rename
<1>2. CASE ~Abort
  <2>1. /\ pc = "commit" /\ window # None /\ pc' = pc /\ UNCHANGED still
        /\ repo' = [repo EXCEPT ![window] = work[window]]
        /\ staged' = staged \ {window} /\ committed' = committed \cup {window}
        /\ todo' = Tail(todo) /\ window' = None /\ rollbackFailed' = rollbackFailed
    BY <1>2 DEF Rename
  <2>2. window \in ChangedSet /\ todo \in Seq(Files) /\ Range(todo) \subseteq ChangedSet
    BY <2>1 DEF IInv, Covered, Windows, Transaction
  <2>3. repo' \in [Files -> Contents \cup {Edited}]
    BY <2>1, <2>2 DEF IInv, Typed, Trees, ChangedSet, Files
  <2>4. todo' \in Seq(Files) /\ Range(todo') \subseteq ChangedSet
    <3>1. CASE todo = <<>>
      <4>1. Tail(todo) = <<>>
        BY <3>1
      <4>2. todo' = <<>> /\ <<>> \in Seq(Files)
        BY <2>1, <4>1
      <4> QED
        BY <4>2, RangeEmpty, Zenon
    <3>2. CASE todo # <<>>
      BY <2>1, <2>2, <3>2, RangeOfTail
    <3> QED
      BY <3>1, <3>2
  <2>5. \A f \in Files \ committed' : repo'[f] = repo[f] /\ f \notin committed
    BY <2>1 DEF IInv, Typed
  <2>6. Covered'
    BY <2>1, <2>2, <2>4, <2>5, StillThere DEF IInv, Covered, Transaction
  <2>7. Windows' /\ FailureRestores'
    BY <2>1 DEF Windows, FailureRestores
  <2> QED
    BY <2>1, <2>3, <2>6, <2>7, TransactionStep DEF Transaction
<1> QED
  BY <1>1, <1>2

LEMMA ConfirmInv == ASSUME IInv, Confirm PROVE IInv'
<1>1. CASE Abort
  BY <1>1, AbortInv DEF Confirm
<1>2. CASE ~Abort
  <2>1. pc = "commit" /\ pc' = "done" /\ repo' = repo /\ UNCHANGED still
    BY <1>2 DEF Confirm, Goto
  <2>2. Covered' /\ Windows' /\ FailureRestores'
    BY <2>1 DEF Covered, Windows, FailureRestores, Transaction
  <2> QED
    BY <2>1, <2>2, TransactionStep DEF IInv, Typed, Transaction
<1> QED
  BY <1>1, <1>2

-----------------------------------------------------------------------------
(* The rollback.                                                           *)
LEMMA RollbackCheckInv == ASSUME IInv, RollbackCheck PROVE IInv'
<1>1. /\ pc = "rollback" /\ pc' = pc /\ todo # <<>> /\ todo' = todo /\ repo' = repo /\ staged' = staged
      /\ UNCHANGED still
      /\ \/ /\ repo[Head(todo)] = work[Head(todo)] /\ window' = Head(todo)
            /\ committed' = committed /\ rollbackFailed' = rollbackFailed
         \/ /\ rollbackFailed' = TRUE /\ committed' = committed \ {Head(todo)} /\ window' = window
            /\ window = None
  BY DEF RollbackCheck, AsCandidate
<1>2. todo \in Seq(Files) /\ Range(todo) \subseteq ChangedSet
  BY <1>1 DEF IInv, Covered, Transaction
<1>3. Head(todo) \in ChangedSet
  BY <1>1, <1>2, RangeOfTail
<1>4. Covered'
  BY <1>1, StillThere DEF IInv, Covered, Transaction
<1>5. Windows'
  BY <1>1, <1>3, StillThere DEF Windows
<1>6. FailureRestores'
  BY <1>1 DEF FailureRestores
<1> QED
  BY <1>1, <1>4, <1>5, <1>6, TransactionStep DEF IInv, Typed, Transaction

LEMMA RestoreInv == ASSUME IInv, Restore PROVE IInv'
<1>1. /\ pc = "rollback" /\ window # None /\ pc' = pc /\ todo' = todo /\ staged' = staged /\ window' = None
      /\ committed' = committed \ {window} /\ UNCHANGED still
      /\ \/ repo' = [repo EXCEPT ![window] = expected[window]] /\ rollbackFailed' = rollbackFailed
         \/ rollbackFailed' = TRUE /\ repo' = repo
  BY DEF Restore
<1>2. window \in Files
  BY <1>1 DEF IInv, Windows, ChangedSet, Files
<1>3. repo' \in [Files -> Contents \cup {Edited}]
  BY <1>1, <1>2 DEF IInv, Typed, Trees
<1>4. \/ rollbackFailed'
      \/ /\ rollbackFailed' = rollbackFailed
         /\ \A f \in Files \ committed' :
               repo'[f] = expected[f] \/ (repo'[f] = repo[f] /\ f \notin committed)
  BY <1>1, <1>2 DEF IInv, Typed
<1>5. Covered'
  BY <1>1, <1>4, StillThere DEF IInv, Covered, Transaction
<1>6. Windows' /\ FailureRestores'
  BY <1>1 DEF Windows, FailureRestores
<1> QED
  BY <1>1, <1>3, <1>5, <1>6, TransactionStep DEF Transaction

LEMMA DropStageInv == ASSUME IInv, DropStage PROVE IInv'
<1>1. /\ pc = "rollback" /\ todo # <<>> /\ window = None /\ Head(todo) \notin committed
      /\ pc' = pc /\ repo' = repo /\ committed' = committed /\ window' = window
      /\ todo' = Tail(todo) /\ UNCHANGED still
      /\ \/ staged' = staged \ {Head(todo)} /\ rollbackFailed' = rollbackFailed
         \/ rollbackFailed' = TRUE /\ staged' = staged
  BY DEF DropStage
<1>2. todo \in Seq(Files) /\ Range(todo) \subseteq ChangedSet
  BY <1>1 DEF IInv, Covered, Transaction
<1>3. todo' \in Seq(Files) /\ Range(todo) = {Head(todo)} \cup Range(todo')
  BY <1>1, <1>2, RangeOfTail
<1>4. Covered'
  BY <1>1, <1>2, <1>3, StillThere DEF IInv, Covered, Transaction
<1>5. Windows' /\ FailureRestores'
  BY <1>1 DEF Windows, FailureRestores
<1> QED
  BY <1>1, <1>4, <1>5, TransactionStep DEF IInv, Typed, Transaction

LEMMA RolledBackInv == ASSUME IInv, RolledBack PROVE IInv'
<1>1. /\ pc = "rollback" /\ todo = <<>> /\ pc' = "failed" /\ repo' = repo /\ UNCHANGED still
      /\ staged' = staged /\ rollbackFailed' = rollbackFailed
  BY DEF RolledBack, Goto, transaction
<1>2. Range(todo) = {}
  BY <1>1, RangeEmpty
<1>3. FailureRestores'
  BY <1>1, <1>2, StillThere DEF IInv, Covered, FailureRestores, Transaction
<1>4. Covered' /\ Windows'
  BY <1>1 DEF Covered, Windows, Transaction
<1> QED
  BY <1>1, <1>3, <1>4, TransactionStep DEF IInv, Typed, Transaction

(* An edit is late for the file whose window is open, and no harm to any   *)
(* other.                                                                  *)
LEMMA EditInv == ASSUME IInv, Edit PROVE IInv'
<1>1. PICK f \in Files : /\ repo' = [repo EXCEPT ![f] = Edited]
                        /\ late' = IF f = window THEN late \cup {f} ELSE late
  BY DEF Edit
<1>2. /\ pc \in Transaction /\ pc' = pc
      /\ opts' = opts /\ expected' = expected /\ work' = work
      /\ compiler' = compiler /\ baseline' = baseline /\ ok' = ok /\ seen' = seen /\ compiled' = compiled
      /\ todo' = todo /\ staged' = staged /\ committed' = committed /\ window' = window
      /\ rollbackFailed' = rollbackFailed
  BY DEF Edit, verification, transaction, Transaction
<1>3. ChangedSet' = ChangedSet
  BY <1>2 DEF ChangedSet, Differs
<1>4. \A g \in Files : repo'[g] = IF g = f THEN Edited ELSE repo[g]
  BY <1>1 DEF IInv, Typed
<1>5. Typed'
  BY <1>1, <1>2 DEF IInv, Typed
<1>6. Untouched'
  BY <1>2 DEF IInv, Untouched, Transaction, Planning, Before
<1>7. Covered'
  BY <1>2, <1>3, <1>4 DEF IInv, Covered
<1>8. Windows'
  BY <1>1, <1>2, <1>3, <1>4 DEF IInv, Windows, ChangedSet, Files
<1>9. Planned' /\ Verdict'
  BY <1>2 DEF IInv, Planned, Verdict, Transaction, Before
<1>10. FailureRestores'
  BY <1>2 DEF FailureRestores, Transaction
<1> QED
  BY <1>5, <1>6, <1>7, <1>8, <1>9, <1>10 DEF IInv

LEMMA StepInv == IInv /\ [Next]_vars => IInv'
<1> SUFFICES ASSUME IInv, [Next]_vars PROVE IInv'
  OBVIOUS
<1>1. CASE Baseline \/ Transform \/ Install \/ InspectConfig \/ Compile \/ Script \/ Report
  BY <1>1, BaselineInv, TransformInv, InstallInv, InspectConfigInv, CompileInv, ScriptInv, ReportInv
<1>2. CASE ApplyCheck \/ Stage \/ Recheck \/ CheckOne \/ Rename \/ Confirm
  BY <1>2, ApplyCheckInv, StageInv, RecheckInv, CheckOneInv, RenameInv, ConfirmInv
<1>3. CASE RollbackCheck \/ Restore \/ DropStage \/ RolledBack \/ Edit
  BY <1>3, RollbackCheckInv, RestoreInv, DropStageInv, RolledBackInv, EditInv
<1>4. CASE UNCHANGED vars
  <2>1. /\ opts' = opts /\ pc' = pc /\ repo' = repo /\ expected' = expected /\ work' = work
        /\ compiler' = compiler /\ baseline' = baseline /\ ok' = ok /\ seen' = seen
        /\ trusted' = trusted /\ compiled' = compiled /\ todo' = todo /\ staged' = staged
        /\ committed' = committed /\ window' = window /\ rollbackFailed' = rollbackFailed /\ late' = late
    BY <1>4 DEF vars, verification, transaction
  <2>2. Typed' BY <2>1 DEF IInv, Typed
  <2>3. Untouched' BY <2>1 DEF IInv, Untouched, ChangedSet, Differs
  <2>4. Windows' BY <2>1 DEF IInv, Windows, ChangedSet, Differs
  <2>5. FailureRestores' BY <2>1 DEF IInv, FailureRestores, ChangedSet, Differs
  <2>6. Covered' BY <2>1 DEF IInv, Covered, ChangedSet, Differs
  <2>7. CompilerTrusted(work, compiler)' <=> CompilerTrusted(work, compiler)
    BY <2>1 DEF CompilerTrusted, CompilerDeclared, LockTrusted
  <2>8. Introduced(compiled, baseline)' = Introduced(compiled, baseline)
    BY <2>1 DEF Introduced
  <2>9. Planned' BY <2>1, <2>7 DEF IInv, Planned
  <2>10. Verdict' BY <2>1, <2>7, <2>8 DEF IInv, Verdict
  <2> QED
    BY <2>2, <2>3, <2>4, <2>5, <2>6, <2>9, <2>10 DEF IInv
<1> QED
  BY <1>1, <1>2, <1>3, <1>4 DEF Next

LEMMA Invariant == Spec => []IInv
  BY InitInv, StepInv, PTL DEF Spec

-----------------------------------------------------------------------------
(* A transaction of applyCandidateFiles that fails without a rollback      *)
(* error leaves no staging file and nothing of the candidate.              *)
THEOREM Restored == Spec => []FailureRestores
<1>1. IInv => FailureRestores
  BY DEF IInv
<1> QED
  BY <1>1, Invariant, PTL

(* The transaction overwrites an edit of somebody else only if it arrived  *)
(* between the check of the file and its rename.                           *)
THEOREM Survival == Spec => EditsSurvive
<1>1. IInv /\ [Next]_vars =>
        [\A f \in Files : repo[f] = Edited /\ repo'[f] # Edited => f \in late]_vars
  <2> SUFFICES ASSUME IInv, Next, NEW f \in Files, repo[f] = Edited, repo'[f] # Edited
               PROVE  f \in late
    OBVIOUS
  <2>1. expected[f] # Edited /\ work[f] # Edited /\ DOMAIN repo = Files
    BY ContentsOf DEF IInv, Typed, Trees
  <2>2. CASE Rename
    <3>1. pc = "commit" /\ window # None /\ repo' = [repo EXCEPT ![window] = work[window]]
      BY <2>2 DEF Rename, Abort
    <3>2. f = window
      BY <2>1, <3>1
    <3> QED
      BY <2>1, <3>1, <3>2 DEF IInv, Windows
  <2>3. CASE Restore
    <3>1. pc = "rollback" /\ window # None /\ repo' = [repo EXCEPT ![window] = expected[window]]
      BY <2>3 DEF Restore
    <3>2. f = window
      BY <2>1, <3>1
    <3> QED
      BY <2>1, <3>1, <3>2 DEF IInv, Windows
  <2>4. CASE Edit
    BY <2>1, <2>4 DEF Edit
  <2>5. CASE Baseline \/ Transform \/ Install \/ InspectConfig \/ Compile \/ Script \/ Report
    BY <2>5 DEF Baseline, Transform, Refuse, Install, InspectConfig, Compile, Script, Report, planning
  <2>6. CASE ApplyCheck \/ Stage \/ Recheck \/ CheckOne \/ Confirm
    BY <2>6 DEF ApplyCheck, Stage, Recheck, CheckOne, Confirm, Abort
  <2>7. CASE RollbackCheck \/ DropStage \/ RolledBack
    BY <2>7 DEF RollbackCheck, DropStage, RolledBack
  <2> QED
    BY <2>2, <2>3, <2>4, <2>5, <2>6, <2>7 DEF Next
<1> QED
  BY <1>1, Invariant, PTL DEF Spec, EditsSurvive

(* A transaction that reports success leaves the planned tree with the     *)
(* candidate's files, a verified migration the very tree that was          *)
(* verified, and migrating that tree again changes nothing of the          *)
(* package.json and the runtime.                                           *)
THEOREM Applied == Spec => AppliedIsVerified
<1> DEFINE
      Kept == /\ repo' = Intended
              /\ ok => seen = {repo'}
              /\ CanUpdate(repo'.pkg) /\ Updated(repo'.pkg) = repo'.pkg /\ CanPin(repo'.docker)
<1>1. IInv /\ [Next]_vars => [pc = "commit" /\ pc' = "done" => Kept]_vars
  <2> SUFFICES ASSUME IInv, Next, pc = "commit", pc' = "done"
               PROVE  Kept
    OBVIOUS
  <2>1. Confirm
    <3>1. CASE Baseline \/ Transform \/ Install \/ InspectConfig \/ Compile \/ Script \/ Report
      BY <3>1 DEF Baseline, Transform, Install, InspectConfig, Compile, Script, Report
    <3>2. CASE ApplyCheck \/ Stage \/ Recheck \/ CheckOne \/ Rename
      BY <3>2 DEF ApplyCheck, Stage, Recheck, CheckOne, Rename, Abort, Goto
    <3>3. CASE RollbackCheck \/ Restore \/ DropStage \/ RolledBack \/ Edit
      BY <3>3 DEF RollbackCheck, Restore, DropStage, RolledBack, Edit
    <3> QED
      BY <3>1, <3>2, <3>3 DEF Next
  <2>2. repo' = repo /\ repo = Intended
    BY <2>1 DEF Confirm, HasTree, Abort, Goto
  <2>3. /\ work \in Trees /\ expected.pkg \in Package
        /\ CanUpdate(expected.pkg) /\ work.pkg = Updated(expected.pkg) /\ work.docker = "pinned"
        /\ ok => seen = {work} /\ work.other = expected.other
    BY DEF IInv, Typed, Planned, Verdict
  <2>4. \A f \in {"docker", "lock", "pkg", "src"} : Intended[f] = work[f]
    BY ChangedRange DEF Intended, ChangedSet, Differs, Files
  <2>5. Intended["other"] = expected["other"]
    BY ChangedRange DEF Intended, ChangedSet, Files
  <2>6. ok => Intended = work
    <3> SUFFICES ASSUME ok PROVE Intended = work
      OBVIOUS
    <3>1. \A f \in Files : Intended[f] = work[f]
      BY <2>3, <2>4, <2>5 DEF Files
    <3>2. work = [f \in Files |-> work[f]]
      BY <2>3 DEF Trees
    <3>3. Intended = [f \in Files |-> Intended[f]]
      BY DEF Intended
    <3> QED
      BY <3>1, <3>2, <3>3
  <2>7. repo'.pkg = Updated(expected.pkg) /\ repo'.docker = "pinned"
    BY <2>2, <2>3, <2>4
  <2>8. CanUpdate(repo'.pkg) /\ Updated(repo'.pkg) = repo'.pkg
    BY <2>3, <2>7, UpdatedTwice
  <2>9. CanPin(repo'.docker)
    BY <2>7 DEF CanPin
  <2> QED
    BY <2>2, <2>3, <2>6, <2>8, <2>9
<1> QED
  BY <1>1, Invariant, PTL DEF Spec, AppliedIsVerified

(* A migration that runMigration reports as verified was compiled by the   *)
(* compiler locked from the registry, has no type error more often than    *)
(* before, passed every check on the present candidate, and declares the   *)
(* trusted runtime.                                                        *)
THEOREM Sound == Spec => VerdictIsSound
<1> DEFINE
      Founded == /\ trusted /\ CompilerTrusted(work, compiler)
                 /\ seen = {work} /\ RuntimeAttested(work)
                 /\ \A e \in Signatures :
                       Cardinality({i \in DOMAIN compiled : compiled[i] = e})
                          <= Cardinality({i \in DOMAIN baseline : baseline[i] = e})
<1>1. IInv /\ [Next]_vars => [pc = "report" /\ ok' => Founded]_vars
  <2> SUFFICES ASSUME IInv, Next, pc = "report", ok'
               PROVE  Founded
    OBVIOUS
  <2>1. Report
    <3>1. CASE Baseline \/ Transform \/ Install \/ InspectConfig \/ Compile \/ Script
      BY <3>1 DEF Baseline, Transform, Install, InspectConfig, Compile, Script
    <3>2. CASE ApplyCheck \/ Stage \/ Recheck \/ CheckOne \/ Rename \/ Confirm
      BY <3>2 DEF ApplyCheck, Stage, Recheck, CheckOne, Rename, Confirm
    <3>3. CASE RollbackCheck \/ Restore \/ DropStage \/ RolledBack \/ Edit
      BY <3>3 DEF RollbackCheck, Restore, DropStage, RolledBack, Edit
    <3> QED
      BY <3>1, <3>2, <3>3 DEF Next
  <2>2. ok /\ RuntimeAttested(work)
    BY <2>1 DEF Report
  <2>3. /\ seen = {work} /\ trusted /\ CompilerTrusted(work, compiler)
        /\ baseline # None /\ Introduced(compiled, baseline) = {}
    BY <2>2 DEF IInv, Verdict
  <2>4. compiled \in Errors /\ baseline \in Errors
    BY <2>3 DEF IInv, Typed
  <2>5. \A e \in Signatures :
          Cardinality({i \in DOMAIN compiled : compiled[i] = e})
             <= Cardinality({i \in DOMAIN baseline : baseline[i] = e})
    BY <2>3, <2>4, NothingIntroduced DEF Count
  <2> QED
    BY <2>2, <2>3, <2>5
<1> QED
  BY <1>1, Invariant, PTL DEF Spec, VerdictIsSound
=============================================================================

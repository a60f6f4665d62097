------------------------- MODULE StageSequenceProofs -------------------------
(***************************************************************************)
(* Safety of StageSequence for any number of tasks and repetitions, any    *)
(* drivers, lists of stages, gate thresholds and outcomes.  What the gates *)
(* compute is never looked into: the argument is that a gate's input does  *)
(* not change once it has been computed over a whole file, unless the file *)
(* is archived.                                                            *)
(***************************************************************************)
EXTENDS StageSequence, TLAPS, FiniteSetTheorems, FunctionTheorems, SequenceTheorems

-----------------------------------------------------------------------------
(***************************************************************************)
(* The invariant.  A `run` is at a part of the stage at the head of its    *)
(* list, and every gate it has gone on from is whole and said yes to.  A   *)
(* whole file stays as it is because every part that writes it runs the    *)
(* same slots, none of which is missing, and no command runs while the     *)
(* operator archives.                                                      *)
(***************************************************************************)

\* A part, or a record, at the agent stages' context is of its own stage's suite.
KeepsFile(x) ==
    x.ctx = AgentContext =>
        /\ x.stage = "stage0" <=> x.suite = "0"
        /\ x.stage = "stage2a" <=> x.suite = "W"
        /\ x.stage = "stage2b" <=> x.suite = "T"

\* The subcommands: each stage has its suite, whatever its context.
StandaloneKeepFiles ==
    \A ps \in Standalone : \A i \in 1..Len(ps) : KeepsFile(ps[i])

RecordedOnce ==
    \A r, q \in raw :
        /\ r.stage = q.stage /\ r.suite = q.suite /\ r.driver = q.driver /\ r.ctx = q.ctx
        /\ r.task = q.task /\ r.repetition = q.repetition
        => r = q

\* A `run` is at parts of the stage at the head of its list, and only a `run` has
\* gone on from a stage.
InStage ==
    /\ names # <<>> => /\ driver \in Drivers
                       /\ \A i \in 1..Len(todo) :
                             todo[i] \in Range(StepParts(Head(names), driver))
    /\ driver # "none" /\ todo # <<>> => names # <<>>
    /\ todo = <<>> => past = {} /\ names = <<>>

GatesSaidYes == \A p \in GatesPast : Said(p)

ToldOverWholeFiles ==
    \A p \in GateParts :
        /\ told[p] = "yes" => Said(p)
        /\ told[p] = "no"  => Missing(p) = {} /\ ~Said(p)

Books ==
    /\ TypeOK
    /\ \A r \in raw : KeepsFile(r)
    /\ \A i \in 1..Len(todo) : KeepsFile(todo[i])
    /\ RecordedOnce
    /\ InStage

Inv == Books /\ GatesSaidYes /\ GatedEvidence /\ ToldOverWholeFiles

-----------------------------------------------------------------------------
(* The parts of a stage.                                                   *)

LEMMA GatePartsAre ==
    ASSUME NEW p \in GateParts
    PROVE  /\ p \in Parts /\ p.ctx = AgentContext /\ KeepsFile(p)
           /\ p.stage \in {"stage0", "stage2a", "stage2b"}
           /\ Said(p) <=> Missing(p) = {} /\ Proceeds(p)
<1>1. /\ p \in Parts /\ p.ctx = AgentContext
      /\ \/ p.stage = "stage0" /\ p.suite = "0"
         \/ p.stage = "stage2a" /\ p.suite = "W"
         \/ p.stage = "stage2b" /\ p.suite = "T"
  BY SequenceAssumption
  DEF GateParts, Stage0Part, Stage2aPart, Stage2bPart, Part, Parts, AgentContext,
      Stages, Suites
<1>2. KeepsFile(p)
  BY <1>1 DEF KeepsFile
<1>3. Said(p) <=> Missing(p) = {} /\ Proceeds(p)
  BY <1>1 DEF Said, Proceeds
<1>4. QED
  BY <1>1, <1>2, <1>3

LEMMA StepPartsAre ==
    ASSUME NEW name \in Steps, NEW d \in Drivers
    PROVE  /\ StepParts(name, d) \in Seq(Parts) /\ StepParts(name, d) # <<>>
           /\ \A i \in 1..Len(StepParts(name, d)) :
                 /\ StepParts(name, d)[i] \in Range(StepParts(name, d))
                 /\ KeepsFile(StepParts(name, d)[i])
           /\ \A p \in Range(StepParts(name, d)) \cap GateParts :
                 \A q \in Range(StepParts(name, d)) : q = p
           /\ \A p \in Range(StepParts(name, d)) : p.suite = "0" => p = Stage0Part
<1>1. /\ Stage0Part \in GateParts /\ Stage2aPart(d) \in GateParts
      /\ Stage2bPart(d) \in GateParts
  BY DEF GateParts
<1>2. CASE name = "stage1"
  <2> DEFINE a == Part("stage1", "1", "native", AgentContext)
             b == Part("stage1", "1", "native", 16384)
  <2>1. StepParts(name, d) = <<a, b>>
    BY <1>2 DEF StepParts
  <2>2. /\ a \in Parts /\ b \in Parts /\ KeepsFile(a) /\ KeepsFile(b)
        /\ a.stage = "stage1" /\ b.stage = "stage1" /\ a.suite # "0" /\ b.suite # "0"
    BY SequenceAssumption DEF Part, Parts, Stages, Suites, AgentContext, KeepsFile
  <2> HIDE DEF a, b
  <2>3. Range(<<a, b>>) = {a, b}
    BY DEF Range
  <2>4. \A p \in GateParts : p.stage # "stage1"
    BY GatePartsAre
  <2>5. QED
    BY <2>1, <2>2, <2>3, <2>4
<1>3. CASE name # "stage1"
  <2>1. PICK p \in GateParts : /\ StepParts(name, d) = <<p>>
                               /\ p.suite = "0" => p = Stage0Part
    BY <1>1, <1>3 DEF StepParts, Steps, Stage2aPart, Stage2bPart, Part
  <2>2. p \in Parts /\ KeepsFile(p)
    BY GatePartsAre
  <2>3. Range(<<p>>) = {p}
    BY DEF Range
  <2>4. QED
    BY <2>1, <2>2, <2>3
<1>4. QED
  BY <1>2, <1>3

LEMMA HeadIsPart ==
    ASSUME Books, todo # <<>>
    PROVE  part \in Parts /\ KeepsFile(part) /\ Len(todo) \in Nat \ {0}
<1>1. todo \in Seq(Parts)
  BY DEF Books, TypeOK
<1>2. Len(todo) \in Nat \ {0} /\ part = todo[1] /\ part \in Parts
  BY <1>1, HeadTailProperties DEF part
<1>3. QED
  BY <1>2 DEF Books

\* The part under way of a `run` is one of its stage; a gate's stage has one part.
LEMMA PartOfRun ==
    ASSUME Books, names # <<>>, todo # <<>>
    PROVE  /\ driver \in Drivers /\ Head(names) \in Steps
           /\ part \in Range(StepParts(Head(names), driver))
           /\ \A p \in Range(StepParts(Head(names), driver)) \cap GateParts : part = p
<1>1. todo \in Seq(Parts) /\ names \in Seq(Steps)
  BY DEF Books, TypeOK
<1>2. Head(names) \in Steps
  BY <1>1, HeadTailProperties
<1>3. part = todo[1] /\ 1 \in 1..Len(todo)
  BY <1>1 DEF part
<1>4. driver \in Drivers /\ part \in Range(StepParts(Head(names), driver))
  BY <1>3 DEF Books, InStage
<1>5. QED
  BY <1>2, <1>4, StepPartsAre

\* RunTask adds the record of one slot of its part that had none.
LEMMA OneRecord ==
    ASSUME Books, RunTask
    PROVE  \E n \in Records :
              /\ raw' = raw \cup {n}
              /\ n.stage = part.stage /\ n.suite = part.suite
              /\ n.driver = part.driver /\ n.ctx = part.ctx
              /\ <<n.task, n.repetition>> \in Missing(part)
              /\ n.task \in 1..TaskCount[n.suite]
              /\ n.repetition \in 1..Repetitions[n.suite]
<1>1. todo # <<>>
  BY DEF RunTask, Books, TypeOK
<1>2. part \in Parts
  BY <1>1, HeadIsPart
<1>3. PICK s \in Missing(part), o \in Outcomes[<<part.stage, part.driver>>] :
         raw' = raw \cup
            {[stage |-> part.stage, suite |-> part.suite,
              driver |-> part.driver, ctx |-> part.ctx,
              task |-> s[1], repetition |-> s[2],
              valid |-> o.valid, score |-> ProgressScore(o)]}
  BY DEF RunTask
<1> DEFINE n == [stage |-> part.stage, suite |-> part.suite,
                 driver |-> part.driver, ctx |-> part.ctx,
                 task |-> s[1], repetition |-> s[2],
                 valid |-> o.valid, score |-> ProgressScore(o)]
<1>4. s[1] \in 1..TaskCount[part.suite] /\ s[2] \in 1..Repetitions[part.suite]
      /\ s = <<s[1], s[2]>>
  BY <1>3 DEF Missing, Slots
<1>5. /\ part.suite \in Suites /\ part.stage \in Stages /\ part.driver \in Drivers
      /\ part.ctx \in Nat
  BY <1>2 DEF Parts
<1>6. o \in Graded
  BY <1>3, <1>5, SequenceAssumption
<1>7. o.valid \in BOOLEAN /\ ProgressScore(o) \in 0..Passed
  BY <1>6 DEF Graded, ProgressScore, Passed
<1>8. s[1] \in Nat /\ s[2] \in Nat
  BY <1>4, <1>5, SequenceAssumption
<1>9. n \in Records
  BY <1>5, <1>7, <1>8 DEF Records
<1>10. QED
  BY <1>3, <1>4, <1>9

-----------------------------------------------------------------------------
(* A file that is whole stays as it is.                                    *)

\* A part that writes the file of a gate's part is that part.
LEMMA SameFileSamePart ==
    ASSUME NEW p \in GateParts, NEW q \in Parts, KeepsFile(q), SameFile(q, p)
    PROVE  q = p
<1>1. /\ p \in Parts /\ p.ctx = AgentContext /\ KeepsFile(p)
      /\ p.stage \in {"stage0", "stage2a", "stage2b"}
  BY GatePartsAre
<1>2. q.suite = p.suite
  BY <1>1 DEF KeepsFile, SameFile
<1>3. QED
  BY <1>1, <1>2 DEF Parts, SameFile

LEMMA SaidOfFile ==
    ASSUME NEW p, FileOf(p)' = FileOf(p)
    PROVE  Missing(p)' = Missing(p) /\ (Said(p)' <=> Said(p))
<1>1. Missing(p)' = Missing(p)
  BY DEF Missing, Done, Slots
<1>2. QED
  BY <1>1 DEF Said

\* The steps that leave the raw files alone or add one run to them.
Files == UNCHANGED raw \/ RunTask

LEMMA WholeFileStays ==
    ASSUME Books, Files, NEW p \in GateParts, Missing(p) = {}
    PROVE  FileOf(p)' = FileOf(p)
<1>1. CASE UNCHANGED raw
  BY <1>1 DEF FileOf
<1>2. CASE RunTask
  <2>1. PICK n \in Records :
           /\ raw' = raw \cup {n}
           /\ n.stage = part.stage /\ n.driver = part.driver /\ n.ctx = part.ctx
           /\ <<n.task, n.repetition>> \in Missing(part)
    BY <1>2, OneRecord
  <2>2. part \in Parts /\ KeepsFile(part)
    BY <1>2, HeadIsPart DEF RunTask, Books, TypeOK
  <2>3. ~SameFile(n, p)
    <3>1. SUFFICES ASSUME SameFile(n, p) PROVE FALSE
      OBVIOUS
    <3>2. SameFile(part, p)
      BY <2>1, <3>1 DEF SameFile
    <3>3. part = p
      BY <2>2, <3>2, SameFileSamePart
    <3>4. QED
      BY <2>1, <3>3
  <2>4. QED
    BY <2>1, <2>3 DEF FileOf
<1>3. QED
  BY <1>1, <1>2 DEF Files

LEMMA WhatWasSaidStays ==
    ASSUME Books, Files, NEW p \in GateParts
    PROVE  /\ Said(p) => Said(p)'
           /\ Missing(p) = {} => Missing(p)' = {} /\ (Said(p)' <=> Said(p))
BY WholeFileStays, SaidOfFile DEF Said

\* What is archived is one file and no other.
LEMMA ArchiveSpares ==
    ASSUME NEW r \in raw, Archive(r), NEW p \in GateParts, ~SameFile(p, r)
    PROVE  FileOf(p)' = FileOf(p)
BY DEF Archive, FileOf, SameFile

-----------------------------------------------------------------------------
(* Each step keeps the invariant.                                          *)

LEMMA InitInv == Init => Inv
<1> SUFFICES ASSUME Init PROVE Inv
  OBVIOUS
<1>1. TypeOK
  <2>1. /\ told \in [GateParts -> {"none", "yes", "no"}]
        /\ todo \in Seq(Parts) /\ names \in Seq(Steps)
    BY DEF Init
  <2>2. /\ loaded = FALSE /\ raw = {} /\ driver \in Drivers \cup {"none"}
        /\ past = {} /\ behind = {}
    BY DEF Init
  <2>3. QED
    BY <2>1, <2>2 DEF TypeOK
<1>2. Books
  BY <1>1 DEF Init, Books, RecordedOnce, InStage
<1>3. GatesSaidYes /\ GatedEvidence
  BY DEF Init, GatesSaidYes, GatesPast, GatedEvidence
<1>4. ToldOverWholeFiles
  BY DEF Init, ToldOverWholeFiles
<1>5. QED
  BY <1>2, <1>3, <1>4 DEF Inv

\* A list whose head is begun.
LEMMA BeginSteps ==
    ASSUME Books, NEW ns \in Seq(Steps), NEW d \in Drivers \cup {"none"},
           ns # <<>> => d \in Drivers, Begin(ns, d), driver' = d,
           ns = <<>> => past' = {}
    PROVE  /\ names' \in Seq(Steps) /\ todo' \in Seq(Parts)
           /\ loaded' = FALSE
           /\ \A i \in 1..Len(todo') : KeepsFile(todo'[i])
           /\ InStage'
<1>1. CASE ns = <<>>
  BY <1>1 DEF Begin, InStage
<1>2. CASE ns # <<>>
  <2>1. Head(ns) \in Steps
    BY <1>2, HeadTailProperties
  <2>2. todo' = StepParts(Head(ns), d) /\ names' = ns /\ driver' = d
    BY <1>2 DEF Begin
  <2>3. todo' \in Seq(Parts) /\ todo' # <<>>
    BY <1>2, <2>1, <2>2, StepPartsAre
  <2>4. \A i \in 1..Len(todo') : /\ todo'[i] \in Range(StepParts(Head(ns), d))
                                 /\ KeepsFile(todo'[i])
    BY <1>2, <2>1, <2>2, StepPartsAre
  <2>5. QED
    BY <1>2, <2>2, <2>3, <2>4 DEF InStage, Begin
<1>3. QED
  BY <1>1, <1>2

LEMMA EndSteps ==
    ASSUME Books, End
    PROVE  /\ names' = <<>> /\ todo' = <<>> /\ loaded' = FALSE /\ past' = {}
           /\ driver' = "none" /\ InStage'
BY DEF End, Begin, InStage

LEMMA GoOnSteps ==
    ASSUME Books, GoOn, todo # <<>>
    PROVE  /\ names' \in Seq(Steps) /\ todo' \in Seq(Parts)
           /\ loaded' = FALSE
           /\ driver' \in Drivers \cup {"none"} /\ past' \subseteq Steps
           /\ \A i \in 1..Len(todo') : KeepsFile(todo'[i])
           /\ InStage'
<1>0. /\ todo \in Seq(Parts) /\ names \in Seq(Steps) /\ driver \in Drivers \cup {"none"}
      /\ past \subseteq Steps /\ InStage
      /\ \A i \in 1..Len(todo) : KeepsFile(todo[i])
  BY DEF Books, TypeOK
<1>1. CASE /\ Len(todo) > 1
           /\ todo' = Tail(todo) /\ loaded' = FALSE
           /\ UNCHANGED <<names, driver, past>>
  <2>1. /\ todo' \in Seq(Parts) /\ Len(todo') = Len(todo) - 1 /\ Len(todo) \in Nat
        /\ \A i \in 1..Len(todo') : todo'[i] = todo[i + 1]
    BY <1>0, <1>1, HeadTailProperties
  <2>2. \A i \in 1..Len(todo') : i + 1 \in 1..Len(todo)
    BY <2>1
  <2>3. todo' # <<>>
    BY <1>1, <2>1
  <2>4. InStage'
    BY <1>0, <1>1, <2>1, <2>2, <2>3 DEF InStage
  <2>5. QED
    BY <1>0, <1>1, <2>1, <2>2, <2>4
<1>2. CASE /\ Len(todo) = 1 /\ Len(names) > 1
           /\ Begin(Tail(names), driver)
           /\ past' = past \cup {Head(names)}
           /\ UNCHANGED driver
  <2>1. /\ Tail(names) \in Seq(Steps) /\ Head(names) \in Steps
        /\ Len(Tail(names)) = Len(names) - 1 /\ Len(names) \in Nat
    BY <1>0, <1>2, HeadTailProperties
  <2>2. Tail(names) # <<>> /\ driver \in Drivers
    BY <1>0, <1>2, <2>1 DEF InStage
  <2>3. QED
    BY <1>0, <1>2, <2>1, <2>2, BeginSteps
<1>3. CASE End
  BY <1>3, EndSteps
<1>4. QED
  BY <1>1, <1>2, <1>3 DEF GoOn

LEMMA TodoSteps ==
    ASSUME Books, StandaloneKeepFiles, Next
    PROVE  /\ names' \in Seq(Steps) /\ todo' \in Seq(Parts)
           /\ loaded' \in BOOLEAN /\ (loaded' => todo' # <<>>)
           /\ driver' \in Drivers \cup {"none"} /\ past' \subseteq Steps
           /\ \A i \in 1..Len(todo') : KeepsFile(todo'[i])
           /\ InStage'
<1>0. /\ todo \in Seq(Parts) /\ names \in Seq(Steps) /\ driver \in Drivers \cup {"none"}
      /\ past \subseteq Steps /\ InStage
      /\ loaded \in BOOLEAN /\ (loaded => todo # <<>>)
      /\ \A i \in 1..Len(todo) : KeepsFile(todo[i])
  BY DEF Books, TypeOK
<1>1. CASE \E d \in Drivers, ns \in Lists : StartRun(d, ns)
  <2>1. PICK d \in Drivers, ns \in Lists : StartRun(d, ns)
    BY <1>1
  <2>2. ns \in Seq(Steps) /\ past' = {}
    BY <1>0, <2>1, SequenceAssumption DEF StartRun, Idle, InStage
  <2>3. QED
    BY <2>1, <2>2, BeginSteps DEF StartRun
<1>2. CASE \E ps \in Standalone : StartStandalone(ps)
  <2>1. PICK ps \in Standalone : StartStandalone(ps)
    BY <1>2
  <2>2. ps \in Seq(Parts)
    BY SequenceAssumption
  <2>4. past = {} /\ names = <<>> /\ todo = <<>> /\ loaded = FALSE
    BY <1>0, <2>1 DEF StartStandalone, Idle, InStage
  <2>5. QED
    BY <1>0, <2>1, <2>2, <2>4 DEF StartStandalone, StandaloneKeepFiles, InStage
<1>3. CASE UNCHANGED <<names, todo, driver, past>> /\ loaded' \in BOOLEAN
           /\ (loaded' => todo # <<>>)
  BY <1>0, <1>3 DEF InStage
<1>4. CASE GoOn /\ todo # <<>>
  BY <1>4, GoOnSteps
<1>5. CASE End
  BY <1>0, <1>5, EndSteps
<1>6. QED
  <2>1. CASE Load \/ RunTask
    BY <1>0, <1>3, <2>1 DEF Load, RunTask
  <2>2. CASE PartProceeds
    BY <1>0, <1>4, <2>2 DEF PartProceeds
  <2>3. CASE PartStops \/ Die
    BY <1>5, <2>3 DEF PartStops, Die
  <2>4. CASE PartRefused
    BY <1>4, <1>5, <2>4 DEF PartRefused
  <2>5. CASE \E r \in raw : Archive(r)
    BY <1>0, <1>3, <2>5 DEF Archive
  <2>6. QED
    BY <1>1, <1>2, <2>1, <2>2, <2>3, <2>4, <2>5 DEF Next

LEMMA RawSteps ==
    ASSUME Books, Next
    PROVE  /\ raw' \subseteq Records
           /\ \A r \in raw' : /\ r.task \in 1..TaskCount[r.suite]
                              /\ r.repetition \in 1..Repetitions[r.suite]
           /\ \A r \in raw' : KeepsFile(r)
           /\ RecordedOnce'
<1>1. CASE UNCHANGED raw
  BY <1>1 DEF Books, TypeOK, RecordedOnce
<1>2. CASE RunTask
  <2>1. PICK n \in Records :
           /\ raw' = raw \cup {n}
           /\ n.stage = part.stage /\ n.suite = part.suite
           /\ n.driver = part.driver /\ n.ctx = part.ctx
           /\ <<n.task, n.repetition>> \in Missing(part)
           /\ n.task \in 1..TaskCount[n.suite]
           /\ n.repetition \in 1..Repetitions[n.suite]
    BY <1>2, OneRecord
  <2>2. KeepsFile(n)
    BY <1>2, <2>1, HeadIsPart DEF RunTask, Books, TypeOK, KeepsFile
  <2>3. \A r \in raw : r.stage = n.stage /\ r.suite = n.suite /\ r.driver = n.driver
                       /\ r.ctx = n.ctx => <<r.task, r.repetition>> # <<n.task, n.repetition>>
    BY <2>1 DEF Missing, Done, FileOf, SameFile
  <2>4. RecordedOnce'
    BY <2>1, <2>3 DEF Books, RecordedOnce
  <2>5. QED
    BY <2>1, <2>2, <2>4 DEF Books, TypeOK
<1>3. CASE \E r \in raw : Archive(r)
  <2>1. raw' \subseteq raw
    BY <1>3 DEF Archive
  <2>2. QED
    BY <2>1 DEF Books, TypeOK, RecordedOnce
<1>4. QED
  BY <1>1, <1>2, <1>3 DEF Next, StartRun, StartStandalone, Load, PartProceeds, PartStops,
                          PartRefused, Die

LEMMA BooksStep == ASSUME Books, StandaloneKeepFiles, Next PROVE Books'
<1>1. behind' \subseteq GateParts
  <2>1. CASE RunTask
    BY <2>1 DEF RunTask, GatesPast, Books, TypeOK
  <2>2. CASE \E r \in raw : Archive(r)
    BY <2>2 DEF Archive, Books, TypeOK
  <2>3. CASE UNCHANGED behind
    BY <2>3 DEF Books, TypeOK
  <2>4. QED
    BY <2>1, <2>2, <2>3 DEF Next, StartRun, StartStandalone, Load, PartProceeds, PartStops,
                            PartRefused, Die
<1>2. told' \in [GateParts -> {"none", "yes", "no"}]
  <2>1. CASE Hear
    BY <2>1 DEF Hear, Books, TypeOK
  <2>2. CASE \E r \in raw : Archive(r)
    BY <2>2 DEF Archive, Books, TypeOK
  <2>3. CASE UNCHANGED told
    BY <2>3 DEF Books, TypeOK
  <2>4. QED
    BY <2>1, <2>2, <2>3 DEF Next, StartRun, StartStandalone, Load, RunTask, PartProceeds,
                            PartStops, PartRefused, Die
<1>3. QED
  BY <1>1, <1>2, TodoSteps, RawSteps DEF Books, TypeOK

\* A `run` that goes on from a stage with a gate has completed it and had its yes.
LEMMA GoOnPastYes ==
    ASSUME Inv, GoOn, UNCHANGED raw, todo # <<>>,
           driver # "none" => \/ Missing(part) = {} /\ Proceeds(part)
                              \/ ~StopsWhenRefused(part)
    PROVE  GatesSaidYes'
<1>0. Books /\ GatesSaidYes /\ driver \in Drivers \cup {"none"} /\ past \subseteq Steps
      /\ names \in Seq(Steps)
  BY DEF Inv, Books, TypeOK
<1>1. \A p : FileOf(p)' = FileOf(p)
  BY DEF FileOf
<1>2. \A p : Said(p)' <=> Said(p)
  BY <1>1, SaidOfFile
<1>3. CASE UNCHANGED <<driver, past>>
  BY <1>0, <1>2, <1>3 DEF GatesSaidYes, GatesPast
<1>4. CASE past' = {}
  BY <1>4 DEF GatesSaidYes, GatesPast
<1>5. CASE /\ Len(names) > 1 /\ past' = past \cup {Head(names)} /\ UNCHANGED driver
  <2>1. names # <<>>
    BY <1>0, <1>5
  <2>2. /\ driver \in Drivers
        /\ \A p \in Range(StepParts(Head(names), driver)) \cap GateParts : part = p
    BY <1>0, <2>1, PartOfRun
  <2>3. driver # "none"
    BY <2>2, SequenceAssumption
  <2> SUFFICES ASSUME NEW p \in GateParts, NEW name \in past',
                      p \in Range(StepParts(name, driver))
               PROVE  Said(p)
    BY <1>2, <1>5 DEF GatesSaidYes, GatesPast
  <2>4. CASE name \in past
    BY <1>0, <2>4 DEF GatesSaidYes, GatesPast
  <2>5. CASE name = Head(names)
    <3>1. part = p
      BY <2>2, <2>5
    <3>2. Missing(p) = {} /\ Proceeds(p)
      BY <2>3, <3>1, GatePartsAre DEF StopsWhenRefused
    <3>3. QED
      BY <3>2, GatePartsAre
  <2>6. QED
    BY <1>5, <2>4, <2>5
<1>6. QED
  BY <1>3, <1>4, <1>5 DEF GoOn, End

LEMMA PastStep ==
    ASSUME Inv, Next PROVE GatesSaidYes'
<1>0. Books /\ GatesSaidYes
  BY DEF Inv
<1>1. CASE past' = {}
  BY <1>1 DEF GatesSaidYes, GatesPast
<1>2. CASE Files /\ UNCHANGED <<driver, past>>
  <2> SUFFICES ASSUME NEW p \in GateParts, p \in GatesPast PROVE Said(p)'
    BY <1>2 DEF GatesSaidYes, GatesPast
  <2>1. Said(p)
    BY <1>0 DEF GatesSaidYes
  <2>2. QED
    BY <1>0, <1>2, <2>1, WhatWasSaidStays
<1>3. CASE PartProceeds
  <2>1. todo # <<>>
    BY <1>0, <1>3 DEF PartProceeds, Books, TypeOK
  <2>2. QED
    BY <1>3, <2>1, GoOnPastYes DEF PartProceeds
<1>4. CASE PartRefused
  <2>1. CASE End
    BY <1>1, <2>1 DEF End
  <2>2. CASE GoOn /\ (driver # "none" => ~StopsWhenRefused(part))
    BY <1>4, <2>2, GoOnPastYes DEF PartRefused
  <2>3. QED
    BY <1>4, <2>1, <2>2 DEF PartRefused
<1>5. CASE \/ \E d \in Drivers, ns \in Lists : StartRun(d, ns)
           \/ \E ps \in Standalone : StartStandalone(ps)
           \/ \E r \in raw : Archive(r)
  BY <1>0, <1>1, <1>5 DEF StartRun, StartStandalone, Archive, Idle, Books, InStage
<1>6. CASE PartStops \/ Die
  BY <1>1, <1>6 DEF PartStops, Die, End
<1>7. CASE Load \/ RunTask
  BY <1>2, <1>7 DEF Load, RunTask, Files
<1>8. QED
  BY <1>3, <1>4, <1>5, <1>6, <1>7 DEF Next

LEMMA BehindStep ==
    ASSUME Inv, Next PROVE GatedEvidence'
<1>0. Books /\ GatesSaidYes /\ GatedEvidence /\ behind \subseteq GateParts
  BY DEF Inv, Books, TypeOK
<1>1. CASE Files /\ behind' \subseteq behind \cup GatesPast
  <2> SUFFICES ASSUME NEW p \in behind' PROVE Said(p)'
    BY DEF GatedEvidence
  <2>1. Said(p) /\ p \in GateParts
    BY <1>0, <1>1 DEF GatedEvidence, GatesSaidYes, GatesPast
  <2>2. QED
    BY <1>0, <1>1, <2>1, WhatWasSaidStays
<1>2. CASE \E r \in raw : Archive(r)
  <2>1. PICK r \in raw : Archive(r)
    BY <1>2
  <2> SUFFICES ASSUME NEW p \in behind' PROVE Said(p)'
    BY DEF GatedEvidence
  <2>2. p \in behind /\ ~SameFile(p, r) /\ p \in GateParts /\ Said(p)
    BY <1>0, <2>1 DEF Archive, GatedEvidence
  <2>3. QED
    BY <2>1, <2>2, ArchiveSpares, SaidOfFile
<1>3. QED
  BY <1>1, <1>2 DEF Next, Files, StartRun, StartStandalone, Load, RunTask, PartProceeds,
                    PartStops, PartRefused, Die

\* What a command hears it hears over a whole file, and it outlives whatever is run
\* afterwards.
LEMMA ToldStep ==
    ASSUME Inv, Next PROVE ToldOverWholeFiles'
<1>0. /\ Books /\ ToldOverWholeFiles /\ told \in [GateParts -> {"none", "yes", "no"}]
  BY DEF Inv, Books, TypeOK
<1> SUFFICES ASSUME NEW p \in GateParts
             PROVE  /\ told'[p] = "yes" => Said(p)'
                    /\ told'[p] = "no"  => Missing(p)' = {} /\ ~Said(p)'
  BY DEF ToldOverWholeFiles
<1>1. CASE Files /\ told'[p] = told[p]
  <2>1. /\ told[p] = "yes" => Said(p)
        /\ told[p] = "no"  => Missing(p) = {} /\ ~Said(p)
    BY <1>0 DEF ToldOverWholeFiles
  <2>2. QED
    BY <1>0, <1>1, <2>1, WhatWasSaidStays
<1>2. CASE UNCHANGED raw /\ Hear /\ Missing(part) = {}
  <2>1. CASE part = p
    <3>1. told'[p] = IF Proceeds(p) THEN "yes" ELSE "no"
      BY <1>0, <1>2, <2>1 DEF Hear
    <3>2. FileOf(p)' = FileOf(p)
      BY <1>2 DEF FileOf
    <3>3. QED
      BY <1>2, <2>1, <3>1, <3>2, SaidOfFile, GatePartsAre
  <2>2. CASE part # p
    BY <1>0, <1>1, <1>2, <2>2 DEF Hear, Files
  <2>3. QED
    BY <2>1, <2>2
<1>3. CASE \E r \in raw : Archive(r)
  <2>1. PICK r \in raw : Archive(r)
    BY <1>3
  <2>2. told'[p] = IF SameFile(p, r) THEN "none" ELSE told[p]
    BY <2>1 DEF Archive
  <2>3. CASE ~SameFile(p, r)
    <3>1. Missing(p)' = Missing(p) /\ (Said(p)' <=> Said(p))
      BY <2>1, <2>3, ArchiveSpares, SaidOfFile
    <3>2. QED
      BY <1>0, <2>2, <2>3, <3>1 DEF ToldOverWholeFiles
  <2>4. QED
    BY <2>2, <2>3
<1>4. QED
  BY <1>1, <1>2, <1>3 DEF Next, Files, StartRun, StartStandalone, Load, RunTask,
                          PartProceeds, PartStops, PartRefused, Die

LEMMA InvStep == ASSUME StandaloneKeepFiles, Inv, [Next]_vars PROVE Inv'
<1>1. CASE Next
  BY <1>1, BooksStep, PastStep, BehindStep, ToldStep DEF Inv
<1>2. CASE UNCHANGED vars
  <2>1. Books'
    BY <1>2 DEF vars, Inv, Books, TypeOK, RecordedOnce, InStage
  <2>2. \A p : FileOf(p)' = FileOf(p)
    BY <1>2 DEF vars, FileOf
  <2>3. \A p : Missing(p)' = Missing(p) /\ (Said(p)' <=> Said(p))
    BY <2>2, SaidOfFile
  <2>4. GatesSaidYes' /\ GatedEvidence' /\ ToldOverWholeFiles'
    BY <1>2, <2>3 DEF vars, Inv, GatesSaidYes, GatesPast, GatedEvidence, ToldOverWholeFiles
  <2>5. QED
    BY <2>1, <2>4 DEF Inv
<1>3. QED
  BY <1>1, <1>2

-----------------------------------------------------------------------------
(* The report's verdict.                                                   *)

\* A whole file of a suite under a driver has one record for each of its runs.
LEMMA WholeFileCounts ==
    ASSUME Books, NEW d \in Drivers, NEW suite \in {"W", "T"}, NEW p \in Parts,
           p.suite = suite, Missing(p) = {}, FileOf(p) = Scoped(suite, d)
    PROVE  Cell(suite, d).total = TaskCount[suite] * Repetitions[suite]
<1> DEFINE R == Scoped(suite, d)
           slot == [r \in R |-> <<r.task, r.repetition>>]
<1>1. /\ TaskCount[suite] \in Nat \ {0} /\ Repetitions[suite] \in Nat \ {0}
  BY SequenceAssumption DEF Suites
<1>2. \A r \in R : r.suite = suite /\ r.driver = d /\ r.ctx = AgentContext /\ r \in raw
  BY DEF Scoped, OfDriver
<1>3. slot \in [R -> Slots(p)]
  BY <1>2 DEF Books, TypeOK, Slots
<1>4. \A r, q \in R : slot[r] = slot[q] => r = q
  <2>1. ASSUME NEW r \in R, NEW q \in R, slot[r] = slot[q] PROVE r = q
    <3>1. r.task = q.task /\ r.repetition = q.repetition
      BY <2>1
    <3>2. r.stage = q.stage
      BY <1>2 DEF FileOf, SameFile
    <3>3. QED
      BY <1>2, <3>1, <3>2 DEF Books, RecordedOnce
  <2>2. QED
    BY <2>1
<1>5. \A s \in Slots(p) : \E r \in R : slot[r] = s
  <2> SUFFICES ASSUME NEW s \in Slots(p) PROVE \E r \in R : slot[r] = s
    OBVIOUS
  <2>1. s \in Done(p)
    BY DEF Missing
  <2>2. QED
    BY <2>1 DEF Done
<1> HIDE DEF slot
<1>6. slot \in Bijection(R, Slots(p))
  BY <1>3, <1>4, <1>5, Fun_IsBij
<1>7. ExistsBijection(Slots(p), R)
  BY <1>6, Fun_ExistsBijSymmetric DEF ExistsBijection
<1>8. IsFiniteSet(Slots(p)) /\ Cardinality(Slots(p)) = TaskCount[suite] * Repetitions[suite]
  <2> DEFINE tasks == 1..TaskCount[suite]
             repetitions == 1..Repetitions[suite]
  <2>1. \A n \in Nat \ {0} : IsFiniteSet(1..n) /\ Cardinality(1..n) = n
    BY FS_Interval
  <2>2. /\ IsFiniteSet(tasks) /\ Cardinality(tasks) = TaskCount[suite]
        /\ IsFiniteSet(repetitions) /\ Cardinality(repetitions) = Repetitions[suite]
    BY <1>1, <2>1
  <2>3. Slots(p) = tasks \X repetitions
    BY DEF Slots
  <2> HIDE DEF tasks, repetitions
  <2>4. /\ IsFiniteSet(tasks \X repetitions)
        /\ Cardinality(tasks \X repetitions) = Cardinality(tasks) * Cardinality(repetitions)
    BY <2>2, FS_Product
  <2>5. QED
    BY <2>2, <2>3, <2>4
<1>9. Cardinality(R) = TaskCount[suite] * Repetitions[suite]
  BY <1>7, <1>8, FS_Bijection
<1>10. QED
  BY <1>9 DEF Cell

LEMMA VerdictFollows ==
    ASSUME Inv PROVE VerdictStands
<1>1. ASSUME NEW p \in Parts, Missing(p) = {} PROVE FileOf(p) # {}
  <2>1. 1 \in 1..TaskCount[p.suite] /\ 1 \in 1..Repetitions[p.suite]
    BY SequenceAssumption DEF Parts
  <2>2. <<1, 1>> \in Slots(p)
    BY <2>1 DEF Slots
  <2>3. <<1, 1>> \in Done(p)
    BY <1>1, <2>2 DEF Missing
  <2>4. QED
    BY <2>3 DEF Done
<1>2. /\ Stage0Part \in GateParts /\ Stage0Part \in Parts /\ Stage0Part.suite = "0"
  BY SequenceAssumption DEF GateParts, Stage0Part, Part, Parts, AgentContext, Stages, Suites
<1>3. ASSUME ~PoolsStage0, NEW d \in Drivers
      PROVE  /\ told[Stage0Part] = "no"  => Verdict(d) = "excluded at stage0"
             /\ told[Stage0Part] = "yes" => Verdict(d) \notin {"not run", "excluded at stage0"}
  <2>1. Stage0Records = FileOf(Stage0Part)
    BY <1>3 DEF PoolsStage0
  <2>2. ASSUME told[Stage0Part] = "no" PROVE Verdict(d) = "excluded at stage0"
    <3>1. Missing(Stage0Part) = {} /\ ~Stage0Gate(FileOf(Stage0Part))
      BY <1>2, <2>2 DEF Inv, ToldOverWholeFiles, Said
    <3>2. QED
      BY <1>1, <1>2, <2>1, <3>1 DEF Verdict
  <2>3. ASSUME told[Stage0Part] = "yes"
        PROVE  Verdict(d) \notin {"not run", "excluded at stage0"}
    <3>1. Missing(Stage0Part) = {} /\ Stage0Gate(FileOf(Stage0Part))
      BY <1>2, <2>3 DEF Inv, ToldOverWholeFiles, Said
    <3>2. QED
      BY <1>1, <1>2, <2>1, <3>1 DEF Verdict
  <2>4. QED
    BY <2>2, <2>3
<1>4. ASSUME NEW d \in Drivers
      PROVE  /\ told[Stage2aPart(d)] = "no" =>
                   Verdict(d) \in {"not run", "excluded at stage0", "excluded at stage2a"}
             /\ told[Stage2aPart(d)] = "yes" =>
                   /\ Verdict(d) \notin {"passed stage0", "excluded at stage2a"}
                   /\ Cell("W", d).total = TaskCount["W"] * Repetitions["W"]
             /\ told[Stage2bPart(d)] = "yes" =>
                   /\ Verdict(d) # "passed stage2a"
                   /\ Cell("T", d).total = TaskCount["T"] * Repetitions["T"]
  <2>1. /\ Scoped("W", d) = FileOf(Stage2aPart(d)) /\ Scoped("T", d) = FileOf(Stage2bPart(d))
    BY DEF Inv, Books, KeepsFile, Scoped, OfDriver, FileOf, SameFile, Stage2aPart,
           Stage2bPart, Part
  <2>2. /\ Stage2aPart(d) \in GateParts /\ Stage2bPart(d) \in GateParts
        /\ Stage2aPart(d).suite = "W" /\ Stage2bPart(d).suite = "T"
    BY DEF GateParts, Stage2aPart, Stage2bPart, Part
  <2>3. Stage2aPart(d) \in Parts /\ Stage2bPart(d) \in Parts
    BY <2>2, GatePartsAre
  <2>4. ASSUME told[Stage2aPart(d)] = "no"
        PROVE  Verdict(d) \in {"not run", "excluded at stage0", "excluded at stage2a"}
    <3>1. Missing(Stage2aPart(d)) = {} /\ ~Stage2aGate(FileOf(Stage2aPart(d)))
      BY <2>2, <2>4 DEF Inv, ToldOverWholeFiles, Said
    <3>2. Stage2aRecords(d) # {} /\ ~Stage2aGate(Stage2aRecords(d))
      BY <1>1, <2>1, <2>3, <3>1 DEF Stage2aRecords
    <3>3. QED
      BY <3>2 DEF Verdict
  <2>5. ASSUME told[Stage2aPart(d)] = "yes"
        PROVE  /\ Verdict(d) \notin {"passed stage0", "excluded at stage2a"}
               /\ Cell("W", d).total = TaskCount["W"] * Repetitions["W"]
    <3>1. Missing(Stage2aPart(d)) = {} /\ Stage2aGate(FileOf(Stage2aPart(d)))
      BY <2>2, <2>5 DEF Inv, ToldOverWholeFiles, Said
    <3>2. Stage2aRecords(d) # {} /\ Stage2aGate(Stage2aRecords(d))
      BY <1>1, <2>1, <2>3, <3>1 DEF Stage2aRecords
    <3>3. Verdict(d) \notin {"passed stage0", "excluded at stage2a"}
      BY <3>2 DEF Verdict
    <3>4. QED
      BY <2>1, <2>2, <2>3, <3>1, <3>3, WholeFileCounts DEF Inv
  <2>6. ASSUME told[Stage2bPart(d)] = "yes"
        PROVE  /\ Verdict(d) # "passed stage2a"
               /\ Cell("T", d).total = TaskCount["T"] * Repetitions["T"]
    <3>1. Missing(Stage2bPart(d)) = {}
      BY <2>2, <2>6 DEF Inv, ToldOverWholeFiles, Said
    <3>2. Scoped("T", d) # {}
      BY <1>1, <2>1, <2>3, <3>1
    <3>3. Verdict(d) # "passed stage2a"
      BY <3>2 DEF Verdict
    <3>4. QED
      BY <2>1, <2>2, <2>3, <3>1, <3>3, WholeFileCounts DEF Inv
  <2>7. QED
    BY <2>4, <2>5, <2>6
<1>5. QED
  BY <1>3, <1>4 DEF VerdictStands

-----------------------------------------------------------------------------
LEMMA InvIsInvariant == ASSUME StandaloneKeepFiles PROVE Spec => []Inv
BY InitInv, InvStep, PTL DEF Spec

\* For any drivers, lists of stages, suites and outcomes: every record is of a run of
\* its suite, and a model is loaded only for a part to do.
THEOREM TypeCorrect == ASSUME StandaloneKeepFiles PROVE Spec => []TypeOK
<1>1. Inv => TypeOK
  BY DEF Inv, Books
<1>2. QED
  BY <1>1, InvIsInvariant, PTL

\* Whatever list of stages a `run` is given, what it records behind a gate of the list
\* it records behind a whole file and a yes, whatever the gates compute, for any
\* number of kills, re-runs and other stages, until that file is archived.
THEOREM OnlyBehindOpenGates ==
    ASSUME StandaloneKeepFiles PROVE Spec => []GatedEvidence
<1>1. Inv => GatedEvidence
  BY DEF Inv
<1>2. QED
  BY <1>1, InvIsInvariant, PTL

\* What the gates of stages.py decided is what _verdict of report.py recomputes from
\* the raw files until they are archived, and the row counts every run of a completed
\* suite, whatever the lists of stages, the tasks and the repetitions.
THEOREM VerdictsStand ==
    ASSUME StandaloneKeepFiles PROVE Spec => []VerdictStands
BY InvIsInvariant, VerdictFollows, PTL

-----------------------------------------------------------------------------
(***************************************************************************)
(* Refinement: the sequence's files implement the ledger that StageRunner  *)
(* is proved to implement, so adding one missing run's record at a time is *)
(* a stage as StageRunner leaves it.  One task_set_version.                *)
(***************************************************************************)
RawFiles == Stages \X Drivers \X Nat

Row(r) == [suite |-> r.suite, slot |-> <<r.task, r.repetition>>, version |-> 1,
           valid |-> r.valid, score |-> r.score]

Rows == {Row(r) : r \in Records}

RowsOf(f) == {Row(r) : r \in {q \in raw : <<q.stage, q.driver, q.ctx>> = f}}

RowsByFile == [f \in RawFiles |-> RowsOf(f)]

Ledger == INSTANCE RunLedger WITH Cells <- RawFiles, Records <- Rows, ledger <- RowsByFile

LEMMA RunTaskIsRecord ==
    ASSUME Books, RunTask
    PROVE  Ledger!LedgerNext
<1>1. PICK n \in Records :
         /\ raw' = raw \cup {n}
         /\ n.stage = part.stage /\ n.suite = part.suite
         /\ n.driver = part.driver /\ n.ctx = part.ctx
         /\ <<n.task, n.repetition>> \in Missing(part)
  BY OneRecord
<1> DEFINE f == <<n.stage, n.driver, n.ctx>>
<1>2. f \in RawFiles /\ Row(n) \in Rows
  BY DEF Records, RawFiles, Rows
<1>3. \A q \in raw : <<q.stage, q.driver, q.ctx>> = f /\ q.suite = n.suite
                       => <<q.task, q.repetition>> # <<n.task, n.repetition>>
  BY <1>1 DEF Missing, Done, FileOf, SameFile
<1>4. \A q \in RowsOf(f) : <<q.suite, q.slot>> # <<Row(n).suite, Row(n).slot>>
                            /\ q.version = Row(n).version
  BY <1>3 DEF RowsOf, Row
<1>5. RowsOf(f)' = RowsOf(f) \cup {Row(n)}
  BY <1>1 DEF RowsOf, Row
<1>6. \A g \in RawFiles : g # f => RowsOf(g)' = RowsOf(g)
  BY <1>1 DEF RowsOf, Row
<1> HIDE DEF f
<1>7. RowsByFile' = [RowsByFile EXCEPT ![f] = @ \cup {Row(n)}]
  BY <1>2, <1>5, <1>6 DEF RowsByFile
<1>8. RowsByFile[f] = RowsOf(f) /\ RowsByFile'[f] = RowsOf(f)'
  BY <1>2 DEF RowsByFile
<1>9. Ledger!Record(f, Row(n))
  BY <1>4, <1>7, <1>8 DEF Ledger!Record
<1>10. Row(n) \in Ledger!Added(f)
  BY <1>2, <1>4, <1>5, <1>8 DEF Ledger!Added
<1>11. QED
  BY <1>2, <1>9, <1>10 DEF Ledger!LedgerNext

LEMMA ArchiveIsRetire ==
    ASSUME Books, \E r \in raw : Archive(r)
    PROVE  Ledger!LedgerNext
<1>1. PICK r \in raw : Archive(r)
  OBVIOUS
<1> DEFINE f == <<r.stage, r.driver, r.ctx>>
<1>2. r \in Records
  BY <1>1 DEF Books, TypeOK
<1>3. f \in RawFiles
  BY <1>2 DEF Records, RawFiles
<1>4. \A q \in raw : q \in raw' <=> <<q.stage, q.driver, q.ctx>> # f
  BY <1>1 DEF Archive, FileOf, SameFile
<1>5. raw' \subseteq raw
  BY <1>1 DEF Archive
<1>6. RowsOf(f)' = {}
  BY <1>4, <1>5 DEF RowsOf
<1>7. \A g \in RawFiles : g # f => RowsOf(g)' = RowsOf(g)
  BY <1>4, <1>5 DEF RowsOf, Row
<1> HIDE DEF f
<1>8. RowsByFile' = [RowsByFile EXCEPT ![f] = {}]
  BY <1>3, <1>6, <1>7 DEF RowsByFile
<1>9. QED
  BY <1>3, <1>8 DEF Ledger!LedgerNext, Ledger!Retire

LEMMA SequenceStepRefines ==
    ASSUME Books, [Next]_vars
    PROVE  [Ledger!LedgerNext]_RowsByFile
<1>1. CASE UNCHANGED raw
  BY <1>1 DEF RowsByFile, RowsOf, Row
<1>2. CASE RunTask
  BY <1>2, RunTaskIsRecord
<1>3. CASE \E r \in raw : Archive(r)
  BY <1>3, ArchiveIsRetire
<1>4. QED
  BY <1>1, <1>2, <1>3 DEF Next, StartRun, StartStandalone, Load, PartProceeds, PartStops,
                    PartRefused, Die, vars

\* What the sequence, its re-runs and the subcommands do to the raw files is what
\* StageRunner does to them (RunnerImplementsLedger): one run that the file does not
\* hold yet is added to one file, or one whole file archived, in every step that
\* changes any.
THEOREM SequenceImplementsLedger ==
    ASSUME StandaloneKeepFiles PROVE Spec => Ledger!LedgerSpec
<1>1. Init => Ledger!LedgerInit
  BY DEF Init, Ledger!LedgerInit, RowsByFile, RowsOf
<1>2. Inv => Books
  BY DEF Inv
<1>3. QED
  BY <1>1, <1>2, InvIsInvariant, SequenceStepRefines, PTL DEF Spec, Ledger!LedgerSpec
=============================================================================

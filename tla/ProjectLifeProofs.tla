--------------------------- MODULE ProjectLifeProofs ---------------------------
(***************************************************************************)
(* What a project may rely on however many workers, runs, users and faces  *)
(* it has. The invariant is proved in three parts that hardly meet: the    *)
(* counter (WakeCounterProofs), the rows of the faces and the runs on      *)
(* them, and the requests of the web app. Each part first says which       *)
(* actions are its business.                                               *)
(***************************************************************************)
EXTENDS ProjectLife, WakeCounterProofs

\* The rows of faces: types, and a verdict has an author.
Verdicts ==
    /\ verdict \in [Faces -> {"open", "target", "not"}]
    /\ by \in [Faces -> Users \union {Nobody, Model, Bootstrap}]
    /\ queued \subseteq Faces
    /\ \A f \in Faces : verdict[f] = "open" <=> by[f] = Nobody
RowsInv == Verdicts /\ NoMatchUnderRemoval

\* A run holds one match of each image.
RunInv ==
    /\ run \in [RunsOf -> RunStates]
    /\ \A r \in RunsOf : run[r].match \subseteq run[r].todo
    /\ \A r \in RunsOf : \A f, g \in run[r].match : ImageOf[f] = ImageOf[g] => f = g

\* The requests: only the owner has an owner's request under way.
DeskInv ==
    /\ status \in Statuses /\ setting \in Settings
    /\ member \in [Users -> {"none", "active", "banned"}]
    /\ invited \in BOOLEAN
    /\ doing \in [Users -> Kinds \union {"nothing", "wake"}]
    /\ last \in [Users -> [faces : SUBSET Faces, review : BOOLEAN]]
    /\ requests \in 0..MaxRequests
    /\ tried \in [Workers -> BOOLEAN]
    /\ \A u \in Users : doing[u] = "own" => u = Owner

LifeInv == WakeInv /\ RowsInv /\ RunInv /\ DeskInv

USE InferenceAssumption, ProjectAssumption

\* The start.
LEMMA LifeStart == Init => LifeInv
  <1> SUFFICES ASSUME Init PROVE LifeInv
    OBVIOUS
  <1>1. WakeInv
    BY WakeStart DEF Init
  <1>2. RowsInv
    BY DEF Init, InferenceInit, RowsInv, Verdicts, NoMatchUnderRemoval, Targets
  <1>3. RunInv
    <2>1. NoRun \in RunStates /\ NoRun.match = {} /\ NoRun.todo = {}
      BY DEF NoRun, RunStates
    <2> QED  BY <2>1 DEF Init, InferenceInit, RunInv
  <1>4. DeskInv
    <2>1. NothingDone \in [faces : SUBSET Faces, review : BOOLEAN]
      BY DEF NothingDone
    <2>2. [NothingDone EXCEPT !.faces = FirstTargets] \in [faces : SUBSET Faces, review : BOOLEAN]
      BY DEF NothingDone
    <2>3. last \in [Users -> [faces : SUBSET Faces, review : BOOLEAN]]
      BY <2>1, <2>2, Zenon DEF Init
    <2>4. member \in [Users -> {"none", "active", "banned"}]
      BY DEF Init
    <2> QED  BY <2>3, <2>4 DEF Init, InferenceInit, DeskInv, Statuses, Kinds
  <1> QED  BY <1>1, <1>2, <1>3, <1>4 DEF LifeInv

-----------------------------------------------------------------------------
\* Which steps touch what.

\* The counter and the main loop take no step but their own.
LEMMA WakeFrame == [Next]_vars => [WakeNext]_wakeVars
  <1> SUFFICES ASSUME [Next]_vars PROVE [WakeNext]_wakeVars
    OBVIOUS
  <1>1. CASE Delete
    BY <1>1 DEF Delete
  <1>2. ASSUME NEW u \in Users, UserStep(u) PROVE [WakeNext]_wakeVars
    <2>1. \A kind, next : Done(u, kind, next) => UNCHANGED wakeVars
      BY DEF Done
    <2>2. (\E kind \in Kinds : Arrive(u, kind)) \/ GiveUp(u) => UNCHANGED wakeVars
      BY DEF Arrive, GiveUp
    <2>3. Wake(u) => RequestWake \/ UNCHANGED wakeVars
      BY DEF Wake
    <2> QED  BY <1>2, <2>1, <2>2, <2>3 DEF UserStep, ReviewFace, RerunInference,
                SaveSettings, ChangeMembers, SwitchInvite, Leave, Join, WakeNext
  <1>3. ASSUME NEW f \in Faces, Removal(f) /\ UNCHANGED <<wakeVars, desk, tried>>
        PROVE  UNCHANGED wakeVars
    BY <1>3
  <1>4. ASSUME NEW w \in Workers,
               DrainRun(w) \/ DrainEnds(w) \/ CycleOver(w) \/ CycleBegins(w) \/ KeepAlive(w)
                 \/ WakeUp(w) \/ Watch(w) \/ Listen(w) \/ Die(w)
        PROVE  [WakeNext]_wakeVars
    BY <1>4 DEF DrainRun, DrainEnds, CycleOver, CycleBegins, KeepAlive, WakeUp, Watch, Listen,
                Die, WakeNext
  <1>5. ASSUME NEW r \in RunsOf, Infer(r) \/ RunFails(r) PROVE [WakeNext]_wakeVars
    BY <1>5 DEF Infer, RunFails, WakeNext
  <1>6. CASE UNCHANGED vars
    BY <1>6 DEF vars
  <1> QED  BY <1>1, <1>2, <1>3, <1>4, <1>5, <1>6 DEF Next

\* The rows are written by a reviewer's request, the owner's re-run, the
\* worker's SDC run and the batches of an inference run.
WritesRows ==
    \/ \E u \in Users : ReviewFace(u) \/ RerunInference(u)
    \/ UNCHANGED doing /\ ((\E f \in Faces : Removal(f)) \/ (\E r \in RunsOf : Persist(r)))
LEMMA RowsFrame == [Next]_vars => UNCHANGED rows \/ WritesRows
  <1> SUFFICES ASSUME [Next]_vars PROVE UNCHANGED rows \/ WritesRows
    OBVIOUS
  <1> USE DEF inferenceVars, rows
  <1>1. CASE Delete
    BY <1>1 DEF Delete
  <1>2. ASSUME NEW u \in Users, UserStep(u) PROVE UNCHANGED rows \/ WritesRows
    <2>1. (\E kind \in Kinds : Arrive(u, kind)) \/ GiveUp(u) \/ Wake(u) => UNCHANGED rows
      BY DEF Arrive, GiveUp, Wake
    <2>2. SaveSettings(u) \/ ChangeMembers(u) \/ SwitchInvite(u) \/ Leave(u) \/ Join(u)
            => UNCHANGED rows
      BY DEF SaveSettings, ChangeMembers, SwitchInvite, Leave, Join
    <2> QED  BY <1>2, <2>1, <2>2 DEF UserStep, WritesRows
  <1>3. ASSUME NEW f \in Faces, Removal(f) /\ UNCHANGED <<wakeVars, desk, tried>>
        PROVE  WritesRows
    BY <1>3 DEF desk, WritesRows
  <1>4. ASSUME NEW w \in Workers,
               DrainRun(w) \/ DrainEnds(w) \/ CycleOver(w) \/ CycleBegins(w) \/ KeepAlive(w)
                 \/ WakeUp(w) \/ Watch(w) \/ Listen(w) \/ Die(w)
        PROVE  UNCHANGED rows
    BY <1>4 DEF DrainRun, DrainEnds, CycleOver, CycleBegins, KeepAlive, WakeUp, Watch, Listen,
                Die, BeginRun, Begin
  <1>5. ASSUME NEW r \in RunsOf, Infer(r) \/ RunFails(r) PROVE UNCHANGED rows \/ WritesRows
    BY <1>5 DEF Infer, RunFails, Break, RunStep, Gate, Select, Finish, desk, WritesRows
  <1>6. CASE UNCHANGED vars
    BY <1>6 DEF vars
  <1> QED  BY <1>1, <1>2, <1>3, <1>4, <1>5, <1>6 DEF Next

\* The runs are those of the workers' threads, and end with their worker.
LEMMA RunFrame ==
  [Next]_vars => \/ UNCHANGED run
                 \/ \E r \in RunsOf : Begin(r) \/ RunStep(r) \/ Break(r)
                 \/ \E w \in Workers :
                      run' = [r \in RunsOf |-> IF WorkerOf[r] = w THEN NoRun ELSE run[r]]
  <1> DEFINE Moves == \/ UNCHANGED run
                      \/ \E r \in RunsOf : Begin(r) \/ RunStep(r) \/ Break(r)
                      \/ \E w \in Workers :
                           run' = [r \in RunsOf |-> IF WorkerOf[r] = w THEN NoRun ELSE run[r]]
  <1> SUFFICES ASSUME [Next]_vars PROVE Moves
    OBVIOUS
  <1> USE DEF inferenceVars
  <1>1. CASE Delete
    BY <1>1 DEF Delete
  <1>2. ASSUME NEW u \in Users, UserStep(u) PROVE UNCHANGED run
    <2>1. (\E kind \in Kinds : Arrive(u, kind)) \/ GiveUp(u) \/ Wake(u) => UNCHANGED run
      BY DEF Arrive, GiveUp, Wake
    <2>2. ReviewFace(u) \/ RerunInference(u) \/ SaveSettings(u) => UNCHANGED run
      BY DEF ReviewFace, RerunInference, SaveSettings
    <2>3. ChangeMembers(u) \/ SwitchInvite(u) \/ Leave(u) \/ Join(u) => UNCHANGED run
      BY DEF ChangeMembers, SwitchInvite, Leave, Join
    <2> QED  BY <1>2, <2>1, <2>2, <2>3 DEF UserStep
  <1>3. ASSUME NEW f \in Faces, Removal(f) PROVE UNCHANGED run
    BY <1>3 DEF Removal
  <1>4. ASSUME NEW w \in Workers,
               DrainRun(w) \/ DrainEnds(w) \/ CycleOver(w) \/ CycleBegins(w) \/ KeepAlive(w)
                 \/ WakeUp(w) \/ Watch(w) \/ Listen(w) \/ Die(w)
        PROVE  Moves
    BY <1>4 DEF DrainRun, DrainEnds, CycleOver, CycleBegins, KeepAlive, WakeUp, Watch, Listen,
                Die, BeginRun
  <1>5. ASSUME NEW r \in RunsOf, Infer(r) \/ RunFails(r) PROVE Moves
    BY <1>5 DEF Infer, RunFails
  <1>6. CASE UNCHANGED vars
    BY <1>6 DEF vars
  <1> QED  BY <1>1, <1>2, <1>3, <1>4, <1>5, <1>6 DEF Next

-----------------------------------------------------------------------------
\* The rows of the faces.

\* What a step that writes rows has to show.
RowsKept == RowsInv' /\ \A f \in Faces : ~Matched(f)

\* A person's verdicts on some faces, which may queue those, and no others,
\* for removal: never one that is the model's match.
LEMMA PutKeeps ==
  ASSUME RowsInv, NEW u \in Users, NEW targets \in SUBSET Faces, NEW nots \in SUBSET Faces,
         Put(u, targets, nots), queued' \subseteq queued \union targets \union nots
  PROVE  RowsKept
  <1> USE DEF RowsInv, Verdicts
  <1>0. u \notin {Nobody, Model, Bootstrap}
    OBVIOUS
  <1>1. verdict' \in [Faces -> {"open", "target", "not"}]
    BY DEF Put
  <1>2. by' \in [Faces -> Users \union {Nobody, Model, Bootstrap}]
    BY DEF Put
  <1>3. \A f \in Faces : verdict'[f] = "open" <=> by'[f] = Nobody
    BY <1>0 DEF Put
  <1>4. \A f \in Targets' : by'[f] = Model => f \notin queued'
    BY <1>0 DEF Put, Targets, NoMatchUnderRemoval
  <1>5. \A f \in Faces : ~Matched(f)
    BY <1>0 DEF Put, Matched
  <1> QED  BY <1>1, <1>2, <1>3, <1>4, <1>5 DEF RowsKept, NoMatchUnderRemoval

\* Rows that go back to the model's rejection, or to nobody.
LEMMA ResetKeeps ==
  ASSUME RowsInv, NEW these \in SUBSET Faces, NEW back \in {"open", "not"},
         NEW author \in {Nobody, Model}, back = "open" <=> author = Nobody,
         verdict' = [f \in Faces |-> IF f \in these THEN back ELSE verdict[f]],
         by' = [f \in Faces |-> IF f \in these THEN author ELSE by[f]],
         queued' \subseteq queued \union these
  PROVE  RowsKept
  <1> USE DEF RowsInv, Verdicts
  <1>1. verdict' \in [Faces -> {"open", "target", "not"}]
    OBVIOUS
  <1>2. by' \in [Faces -> Users \union {Nobody, Model, Bootstrap}]
    OBVIOUS
  <1>3. \A f \in Faces : verdict'[f] = "open" <=> by'[f] = Nobody
    OBVIOUS
  <1>4. \A f \in Targets' : by'[f] = Model => f \notin queued'
    BY DEF Targets, NoMatchUnderRemoval
  <1>5. \A f \in Faces : ~Matched(f)
    BY DEF Matched
  <1> QED  BY <1>1, <1>2, <1>3, <1>4, <1>5 DEF RowsKept, NoMatchUnderRemoval

\* Every request of a reviewer keeps the rows in order and adds no match.
LEMMA ReviewKeeps ==
  ASSUME RowsInv, DeskInv, NEW u \in Users, ReviewFace(u) PROVE RowsKept
  <1>0. queued \subseteq Faces
    BY DEF RowsInv, Verdicts
  <1>1. ASSUME NEW i, NEW review \in BOOLEAN, ClassifyNone(u, i, review) PROVE RowsKept
    <2>1. Shown(i, review) \in SUBSET Faces
      BY DEF Shown, On
    <2>2. queued' \subseteq queued \union {} \union Shown(i, review)
      BY <1>1 DEF ClassifyNone
    <2> QED  BY <1>1, <2>1, <2>2, PutKeeps DEF ClassifyNone
  <1>2. ASSUME NEW f \in Faces, NEW review \in BOOLEAN, ClassifyTarget(u, f, review) PROVE RowsKept
    <2> DEFINE shown == Shown(ImageOf[f], review)
    <2>1. {f} \intersect shown \in SUBSET Faces /\ shown \ {f} \in SUBSET Faces
      BY DEF Shown, On
    <2>2. queued' \subseteq queued \union ({f} \intersect shown) \union (shown \ {f})
      BY <1>2 DEF ClassifyTarget
    <2>3. Put(u, {f} \intersect shown, shown \ {f})
      BY <1>2 DEF ClassifyTarget
    <2> HIDE DEF shown
    <2> QED  BY <2>1, <2>2, <2>3, PutKeeps
  <1>3. ASSUME NEW f \in Faces, Reject(u, f) PROVE RowsKept
    <2>1. {} \in SUBSET Faces /\ {f} \in SUBSET Faces /\ queued' \subseteq queued \union {} \union {f}
      BY <1>3 DEF Reject
    <2> QED  BY <1>3, <2>1, PutKeeps DEF Reject
  <1>4. ASSUME NEW f \in Faces, Approve(u, f) PROVE RowsKept
    <2> DEFINE demoted == Siblings(f) \intersect Targets
    <2>0. demoted \in SUBSET Faces /\ {f} \in SUBSET Faces /\ {} \in SUBSET Faces
      BY DEF Siblings, On
    <2>1. CASE /\ Put(u, {f}, demoted)
               /\ \E due \in SUBSET demoted : queued' = (queued \ On(ImageOf[f])) \union due
      <3>1. queued' \subseteq queued \union {f} \union demoted
        BY <2>1
      <3> HIDE DEF demoted
      <3> QED  BY <2>0, <2>1, <3>1, PutKeeps
    <2>2. CASE Put(u, {f}, {}) /\ queued' = queued \ {f}
      <3>1. queued' \subseteq queued \union {f} \union {}
        BY <2>2
      <3> QED  BY <2>0, <2>2, <3>1, PutKeeps
    <2> QED  BY <1>4, <2>1, <2>2 DEF Approve
  <1>5. ASSUME Undo(last[u].faces, last[u].review) PROVE RowsKept
    <2> DEFINE these == last[u].faces
               back == IF last[u].review THEN "not" ELSE "open"
               author == IF last[u].review THEN Model ELSE Nobody
    <2>1. these \in SUBSET Faces /\ last[u].review \in BOOLEAN
      BY DEF DeskInv
    <2>2. back \in {"open", "not"} /\ author \in {Nobody, Model} /\ (back = "open" <=> author = Nobody)
      BY <2>1
    <2>3. verdict' = [f \in Faces |-> IF f \in these THEN back ELSE verdict[f]]
      BY <1>5, Zenon DEF Undo
    <2>4. by' = [f \in Faces |-> IF f \in these THEN author ELSE by[f]]
      BY <1>5, Zenon DEF Undo, UndoneBy
    <2>5. queued' \subseteq queued \union these
      BY <1>5 DEF Undo
    <2> HIDE DEF these, back, author
    <2> QED  BY <2>1, <2>2, <2>3, <2>4, <2>5, ResetKeeps
  <1> QED  BY <1>1, <1>2, <1>3, <1>4, <1>5 DEF ReviewFace

\* So does the owner's re-run, and the worker's SDC run.
LEMMA RerunKeeps == ASSUME RowsInv, Rerun PROVE RowsKept
  <1>1. PICK reset \in SUBSET {f \in Faces : by[f] = Model} :
          /\ verdict' = [f \in Faces |-> IF f \in reset THEN "open" ELSE verdict[f]]
          /\ by' = [f \in Faces |-> IF f \in reset THEN Nobody ELSE by[f]]
          /\ UNCHANGED queued
    BY DEF Rerun
  <1>2. reset \in SUBSET Faces /\ queued' \subseteq queued \union reset
    BY <1>1
  <1> QED  BY <1>1, <1>2, ResetKeeps
LEMMA RemovalKeeps == ASSUME RowsInv, NEW f \in Faces, Removal(f) PROVE RowsKept
  BY DEF Removal, RowsKept, RowsInv, Verdicts, NoMatchUnderRemoval, Targets, Matched

\* A batch of a run: only open faces that nobody asked about are written, and
\* a match is alone on its image when it is.
LEMMA PersistKeeps ==
  ASSUME RowsInv, RunInv, NEW r \in RunsOf, Persist(r)
  PROVE  /\ RowsInv'
         /\ \A f \in Faces : Matched(f) => \A g \in Siblings(f) : verdict'[g] # "target"
         /\ \A f \in Faces : by[f] \in Users => verdict'[f] = verdict[f] /\ by'[f] = by[f]
  <1> USE DEF RowsInv, Verdicts
  <1>1. CASE UNCHANGED <<verdict, by>>
    BY <1>1 DEF Persist, Matched, NoMatchUnderRemoval, Targets
  <1>2. CASE ~UNCHANGED <<verdict, by>>
    <2>1. PICK b \in Batches(run[r].todo) : Classify(Live(b), Matches(Live(b) \intersect run[r].match))
      BY <1>2 DEF Persist
    <2> DEFINE live == Live(b)
               match == Matches(Live(b) \intersect run[r].match)
    <2>2. live \subseteq Faces /\ match \subseteq live /\ match \subseteq run[r].match
      BY DEF Live, Unasked, Open, Matches
    <2>3. \A f \in live : verdict[f] = "open" /\ by[f] = Nobody /\ f \notin queued
      BY DEF Live, Unasked, Open
    <2>4. \A f \in match : On(ImageOf[f]) \intersect Targets = {}
      BY DEF Matches
    <2>5. \A f, g \in match : ImageOf[f] = ImageOf[g] => f = g
      BY <2>2 DEF RunInv
    <2>6. verdict' = [f \in Faces |-> IF f \notin live THEN verdict[f]
                                      ELSE IF f \in match THEN "target" ELSE "not"]
      BY <2>1 DEF Classify
    <2>7. by' = [f \in Faces |-> IF f \in live THEN Model ELSE by[f]]
      BY <2>1 DEF Classify
    <2>8. queued' = queued
      BY DEF Persist
    <2> HIDE DEF live, match
    <2>9. RowsInv'
      <3>1. Verdicts'
        BY <2>3, <2>6, <2>7, <2>8
      <3>2. \A f \in Targets' : by'[f] = Model => f \notin queued'
        BY <2>3, <2>6, <2>7, <2>8 DEF NoMatchUnderRemoval, Targets
      <3> QED  BY <3>1, <3>2 DEF NoMatchUnderRemoval
    <2>10. ASSUME NEW f \in Faces, Matched(f), NEW g \in Siblings(f) PROVE verdict'[g] # "target"
      <3>1. f \in match
        BY <2>6, <2>10 DEF Matched
      <3>2. g \in Faces /\ g # f /\ ImageOf[g] = ImageOf[f]
        BY <2>10 DEF Siblings, On
      <3>3. verdict[g] # "target"
        BY <2>4, <3>1, <3>2 DEF On, Targets
      <3>4. g \notin match
        BY <2>5, <3>1, <3>2
      <3> QED  BY <2>6, <3>2, <3>3, <3>4
    <2>11. \A f \in Faces : by[f] \in Users => verdict'[f] = verdict[f] /\ by'[f] = by[f]
      BY <2>3, <2>6, <2>7
    <2> QED  BY <2>9, <2>10, <2>11
  <1> QED  BY <1>1, <1>2

\* Every step keeps the rows in order, respects an image's target, and takes
\* a person's verdict away only at a reviewer's request.
LEMMA RowsStep ==
  ASSUME RowsInv, RunInv, DeskInv, [Next]_vars
  PROVE  /\ RowsInv'
         /\ \A f \in Faces : Matched(f) => \A g \in Siblings(f) : verdict'[g] # "target"
         /\ \A f \in Faces : by[f] \in Users /\ <<verdict[f], by[f]>>' # <<verdict[f], by[f]>>
               => \E u \in Users : doing[u] = "review" /\ doing'[u] = "nothing"
  <1>1. CASE UNCHANGED rows
    BY <1>1 DEF rows, RowsInv, Verdicts, NoMatchUnderRemoval, Targets, Matched
  <1>2. ASSUME NEW u \in Users, ReviewFace(u)
        PROVE  RowsKept /\ doing[u] = "review" /\ doing'[u] = "nothing"
    <2>1. RowsKept
      BY <1>2, ReviewKeeps
    <2>2. doing[u] = "review" /\ doing'[u] = "nothing"
      BY <1>2 DEF ReviewFace, Done, DeskInv
    <2> QED  BY <2>1, <2>2
  <1>3. ASSUME NEW u \in Users, RerunInference(u)
        PROVE  RowsKept /\ \A f \in Faces : by[f] \in Users => verdict'[f] = verdict[f] /\ by'[f] = by[f]
    <2>1. Rerun
      BY <1>3 DEF RerunInference
    <2>2. \A f \in Faces : by[f] \in Users => verdict'[f] = verdict[f] /\ by'[f] = by[f]
      BY <2>1 DEF Rerun, RowsInv, Verdicts
    <2> QED  BY <2>1, <2>2, RerunKeeps
  <1>4. ASSUME NEW f \in Faces, Removal(f) PROVE RowsKept /\ UNCHANGED <<verdict, by>>
    <2>1. UNCHANGED <<verdict, by>>
      BY <1>4 DEF Removal
    <2> QED  BY <1>4, <2>1, RemovalKeeps
  <1>5. ASSUME NEW r \in RunsOf, Persist(r)
        PROVE  /\ RowsInv'
               /\ \A f \in Faces : Matched(f) => \A g \in Siblings(f) : verdict'[g] # "target"
               /\ \A f \in Faces : by[f] \in Users => verdict'[f] = verdict[f] /\ by'[f] = by[f]
    BY <1>5, PersistKeeps
  <1> QED  BY RowsFrame, <1>1, <1>2, <1>3, <1>4, <1>5 DEF WritesRows, RowsKept

-----------------------------------------------------------------------------
\* The runs.

LEMMA RunStart == NoRun \in RunStates /\ NoRun.match = {} /\ NoRun.todo = {}
  BY DEF NoRun, RunStates

\* Whatever a run's step is, it leaves a run that is none, or has its faces
\* and one match of each image.
GoodRun(s) ==
    /\ s \in RunStates /\ s.match \subseteq s.todo
    /\ \A f, g \in s.match : ImageOf[f] = ImageOf[g] => f = g
LEMMA OneRunStep ==
  ASSUME RunInv, NEW r \in RunsOf, NEW s, GoodRun(s), run' = [run EXCEPT ![r] = s]
  PROVE  RunInv'
  BY DEF RunInv, GoodRun

LEMMA RunsStep == ASSUME RunInv, DeskInv, RowsInv, [Next]_vars PROVE RunInv'
  <1>0. GoodRun(NoRun)
    BY RunStart DEF GoodRun
  <1>1. CASE UNCHANGED run
    BY <1>1 DEF RunInv
  <1>2. ASSUME NEW r \in RunsOf, Begin(r) PROVE RunInv'
    <2> DEFINE s == [NoRun EXCEPT !.phase = "gate", !.use = setting]
    <2>1. GoodRun(s)
      BY DEF DeskInv, NoRun, RunStates, GoodRun
    <2>2. run' = [run EXCEPT ![r] = s]
      BY <1>2 DEF Begin
    <2> HIDE DEF s
    <2> QED  BY <2>1, <2>2, OneRunStep
  <1>3. ASSUME NEW r \in RunsOf, Gate(r) PROVE RunInv'
    <2> DEFINE s == IF GateOpen(run[r].use) /\ Targets \intersect Usable # {}
                      THEN [run[r] EXCEPT !.phase = "select"] ELSE NoRun
    <2>1. GoodRun([run[r] EXCEPT !.phase = "select"])
      BY DEF RunInv, RunStates, GoodRun
    <2>2. GoodRun(s)
      BY <1>0, <2>1
    <2>3. run' = [run EXCEPT ![r] = s]
      BY <1>3 DEF Gate, RunInv
    <2> HIDE DEF s
    <2> QED  BY <2>2, <2>3, OneRunStep
  <1>4. ASSUME NEW r \in RunsOf, Select(r) PROVE RunInv'
    <2>1. PICK m \in SUBSET Candidates :
            /\ OneOfEach(m, run[r].use)
            /\ run' = [run EXCEPT ![r] =
                         [@ EXCEPT !.phase = "persist", !.todo = Candidates, !.match = m]]
      BY <1>4 DEF Select
    <2> DEFINE s == [run[r] EXCEPT !.phase = "persist", !.todo = Candidates, !.match = m]
    <2>2. Candidates \subseteq Faces
      BY DEF Candidates, Unasked, Open
    <2>3. ASSUME NEW f \in m, NEW g \in m, ImageOf[f] = ImageOf[g] PROVE f = g
      <3>1. f \in m \intersect On(ImageOf[f]) /\ g \in m \intersect On(ImageOf[f])
        BY <2>2, <2>3 DEF On
      <3>2. ImageOf[f] \in {ImageOf[h] : h \in Candidates}
        OBVIOUS
      <3>3. \E h \in Closest(run[r].use, ImageOf[f]) : m \intersect On(ImageOf[f]) = {h}
        BY <2>1, <3>1, <3>2 DEF OneOfEach
      <3> QED  BY <3>1, <3>3
    <2>4. run[r] \in RunStates
      BY DEF RunInv
    <2>5. s \in RunStates /\ s.todo = Candidates /\ s.match = m
      BY <2>2, <2>4 DEF RunStates
    <2>6. GoodRun(s)
      BY <2>3, <2>5 DEF GoodRun
    <2>7. run' = [run EXCEPT ![r] = s]
      BY <2>1 DEF RunInv
    <2> HIDE DEF s
    <2> QED  BY <2>6, <2>7, OneRunStep
  <1>5. ASSUME NEW r \in RunsOf, Persist(r) PROVE RunInv'
    <2>1. PICK b \in Batches(run[r].todo) :
            run' = [run EXCEPT ![r] = [@ EXCEPT !.todo = run[r].todo \ b, !.match = run[r].match \ b]]
      BY <1>5 DEF Persist
    <2> DEFINE s == [run[r] EXCEPT !.todo = run[r].todo \ b, !.match = run[r].match \ b]
    <2>2. run[r] \in RunStates
      BY DEF RunInv
    <2>3. s \in RunStates /\ s.todo = run[r].todo \ b /\ s.match = run[r].match \ b
      BY <2>2 DEF RunStates
    <2>4. GoodRun(s)
      BY <2>3 DEF GoodRun, RunInv
    <2>5. run' = [run EXCEPT ![r] = s]
      BY <2>1, <2>2 DEF RunInv
    <2> HIDE DEF s
    <2> QED  BY <2>4, <2>5, OneRunStep
  <1>6. ASSUME NEW r \in RunsOf, Finish(r) \/ Break(r) PROVE RunInv'
    BY <1>0, <1>6, OneRunStep DEF Finish, Break
  <1>7. ASSUME NEW w \in Workers,
               run' = [r \in RunsOf |-> IF WorkerOf[r] = w THEN NoRun ELSE run[r]]
        PROVE  RunInv'
    BY <1>0, <1>7 DEF RunInv, GoodRun
  <1> QED  BY RunFrame, <1>1, <1>2, <1>3, <1>4, <1>5, <1>6, <1>7 DEF RunStep

-----------------------------------------------------------------------------
\* The requests, the members and the project's own row.

LEMMA UserStepKeeps ==
  ASSUME DeskInv, RowsInv, NEW u \in Users, UserStep(u) PROVE DeskInv'
  <1> USE DEF DeskInv, Kinds, inferenceVars, project
  <1>1. ASSUME NEW kind \in Kinds, Arrive(u, kind) PROVE DeskInv'
    <2>1. kind = "own" => u = Owner
      BY <1>1 DEF Arrive
    <2>2. doing' = [doing EXCEPT ![u] = kind] /\ requests' \in 0..MaxRequests
      BY <1>1 DEF Arrive
    <2>3. UNCHANGED <<status, setting, member, invited, last, tried>>
      BY <1>1 DEF Arrive
    <2> QED  BY <2>1, <2>2, <2>3
  <1>2. CASE GiveUp(u)
    BY <1>2 DEF GiveUp
  <1>3. CASE ReviewFace(u)
    <2>1. UNCHANGED <<status, setting, member, invited, requests, tried>>
      BY <1>3 DEF ReviewFace, Done
    <2>2. doing' = [doing EXCEPT ![u] = "nothing"]
      BY <1>3 DEF ReviewFace, Done
    <2>3. ASSUME NEW these \in SUBSET Faces, NEW review \in BOOLEAN, Remember(u, these, review)
          PROVE  last' \in [Users -> [faces : SUBSET Faces, review : BOOLEAN]]
      <3>1. [faces |-> these, review |-> review] \in [faces : SUBSET Faces, review : BOOLEAN]
        OBVIOUS
      <3> QED  BY <2>3, <3>1, Zenon DEF Remember
    <2>4. \A i, review : Shown(i, review) \in SUBSET Faces
      BY DEF Shown, On
    <2>5. last' \in [Users -> [faces : SUBSET Faces, review : BOOLEAN]]
      BY <1>3, <2>3, <2>4 DEF ReviewFace
    <2> QED  BY <2>1, <2>2, <2>5
  <1>4. CASE RerunInference(u)
    BY <1>4 DEF RerunInference, Done
  <1>5. CASE Wake(u)
    BY <1>5 DEF Wake
  <1>6. CASE SaveSettings(u)
    BY <1>6 DEF SaveSettings, Done
  <1>7. CASE ChangeMembers(u)
    BY <1>7 DEF ChangeMembers, Done
  <1>8. CASE SwitchInvite(u)
    BY <1>8 DEF SwitchInvite, Done
  <1>9. CASE Leave(u)
    BY <1>9 DEF Leave, Done
  <1>10. CASE Join(u)
    BY <1>10 DEF Join, Done
  <1> QED  BY <1>1, <1>2, <1>3, <1>4, <1>5, <1>6, <1>7, <1>8, <1>9, <1>10 DEF UserStep

LEMMA DeskStep == ASSUME DeskInv, RowsInv, [Next]_vars PROVE DeskInv'
  <1>1. CASE Delete
    BY <1>1 DEF Delete, DeskInv, Statuses
  <1>2. ASSUME NEW u \in Users, UserStep(u) PROVE DeskInv'
    BY <1>2, UserStepKeeps
  <1>3. ASSUME NEW f \in Faces, Removal(f) /\ UNCHANGED <<wakeVars, desk, tried>> PROVE DeskInv'
    BY <1>3 DEF Removal, desk, DeskInv
  <1>4. ASSUME NEW w \in Workers,
               DrainEnds(w) \/ CycleOver(w) \/ KeepAlive(w) \/ WakeUp(w) \/ Watch(w) \/ Listen(w)
        PROVE  DeskInv'
    <2>1. UNCHANGED <<status, setting, desk, tried>>
      BY <1>4 DEF DrainEnds, CycleOver, KeepAlive, WakeUp, Watch, Listen, BeginRun, Begin,
                  inferenceVars, project
    <2> QED  BY <2>1 DEF desk, DeskInv
  <1>5. ASSUME NEW w \in Workers, DrainRun(w) \/ CycleBegins(w) \/ Die(w) PROVE DeskInv'
    <2>1. UNCHANGED <<status, setting, desk>>
      BY <1>5 DEF DrainRun, CycleBegins, Die, BeginRun, Begin, inferenceVars, project
    <2>2. \/ tried' = [tried EXCEPT ![w] = TRUE]
          \/ tried' = [tried EXCEPT ![w] = FALSE]
      BY <1>5 DEF DrainRun, CycleBegins, Die
    <2>3. tried' \in [Workers -> BOOLEAN]
      BY <2>2, Zenon DEF DeskInv
    <2> QED  BY <2>1, <2>3 DEF desk, DeskInv
  <1>6. ASSUME NEW r \in RunsOf, Infer(r) \/ RunFails(r) PROVE DeskInv'
    <2>1. UNCHANGED <<status, setting, desk, tried>>
      BY <1>6 DEF Infer, RunFails, Break, RunStep, Gate, Select, Persist, Finish, project
    <2> QED  BY <2>1 DEF desk, DeskInv
  <1>7. CASE UNCHANGED vars
    BY <1>7 DEF vars, desk, inferenceVars, DeskInv
  <1> QED  BY <1>1, <1>2, <1>3, <1>4, <1>5, <1>6, <1>7 DEF Next

-----------------------------------------------------------------------------
LEMMA LifeStep == LifeInv /\ [Next]_vars => LifeInv'
  <1> SUFFICES ASSUME LifeInv, [Next]_vars PROVE LifeInv'
    OBVIOUS
  <1>1. WakeInv /\ RowsInv /\ RunInv /\ DeskInv
    BY DEF LifeInv
  <1>2. WakeInv'
    BY <1>1, WakeFrame, WakeStep
  <1>3. RowsInv'
    BY <1>1, RowsStep
  <1>4. RunInv'
    BY <1>1, RunsStep
  <1>5. DeskInv'
    BY <1>1, DeskStep
  <1> QED  BY <1>2, <1>3, <1>4, <1>5 DEF LifeInv

LEMMA LifeInvariant == Spec => []LifeInv
  BY LifeStart, LifeStep, PTL DEF Spec

\* The types, with a verdict's author (faces.is_target and classified_by).
THEOREM LifeTypeCorrect == Spec => []TypeOK
  <1>1. LifeInv => TypeOK
    BY DEF LifeInv, WakeInv, RowsInv, Verdicts, RunInv, DeskInv, TypeOK, FacesTypeOK
  <1> QED  BY <1>1, LifeInvariant, PTL

\* A face whose claim waits to be taken off is not the model's match, with any
\* number of runs on the project (worker.py, run_autonomous_inference).
THEOREM RemovalIsNoMatch == Spec => []NoMatchUnderRemoval
  <1>1. LifeInv => NoMatchUnderRemoval
    BY DEF LifeInv, RowsInv
  <1> QED  BY <1>1, LifeInvariant, PTL

\* A run adds no match to an image that has a target, and runs together add no
\* two: the check of _persist_inference_batch under the project's lock.
THEOREM MatchesGiveWay == Spec => MatchesRespectTargets
  <1>1. LifeInv /\ [Next]_vars
          => [\A f \in Faces : Matched(f) => \A g \in Siblings(f) : verdict'[g] # "target"]_vars
    BY RowsStep DEF LifeInv
  <1> QED  BY <1>1, LifeInvariant, PTL DEF Spec, MatchesRespectTargets

\* Only a reviewer's request ends a person's verdict: _persist_inference_batch
\* and the re-run leave it.
THEOREM HumansDecide == Spec => HumanVerdictsStay
  <1>1. LifeInv /\ [Next]_vars
          => [\A f \in Faces : by[f] \in Users /\ <<verdict[f], by[f]>>' # <<verdict[f], by[f]>>
                => \E u \in Users : doing[u] = "review" /\ doing'[u] = "nothing"]_vars
    BY RowsStep DEF LifeInv
  <1> QED  BY <1>1, LifeInvariant, PTL DEF Spec, HumanVerdictsStay

\* No request writes rows for a user who lost access on its way
\* (_assert_project_access_locked).
THEOREM AccessAtCommit == Spec => AccessIsChecked
  <1>1. ASSUME LifeInv, [Next]_vars, NEW u \in Users, doing[u] \in {"review", "own"},
               doing'[u] # doing[u], rows' # rows
        PROVE  Access(u)
    <2>1. PICK v \in Users : ReviewFace(v) \/ RerunInference(v)
      BY <1>1, RowsFrame DEF WritesRows
    <2>2. Access(v)
      BY <2>1 DEF ReviewFace, RerunInference, StillHasAccess
    <2>3. u = v
      BY <1>1, <2>1 DEF ReviewFace, RerunInference, Done, LifeInv, DeskInv
    <2> QED  BY <2>2, <2>3
  <1>2. LifeInv /\ [Next]_vars
          => [\A u \in Users : doing[u] \in {"review", "own"} /\ doing'[u] # doing[u]
                /\ rows' # rows => Access(u)]_vars
    BY <1>1
  <1> QED  BY <1>2, LifeInvariant, PTL DEF Spec, AccessIsChecked

\* The owner's unban alone ends a ban (project_leave and project_join do not,
\* however late they come).
THEOREM BansAreKept == Spec => BansHold
  <1>1. ASSUME LifeInv, [Next]_vars, NEW u \in Users, member[u] = "banned", member'[u] # "banned"
        PROVE  member'[u] = "none" /\ doing[Owner] = "own" /\ doing'[Owner] = "nothing"
    <2> USE DEF desk, LifeInv, DeskInv
    <2>1. CASE Delete
      BY <1>1, <2>1 DEF Delete
    <2>2. ASSUME NEW v \in Users, UserStep(v)
          PROVE  member'[u] = "none" /\ doing[Owner] = "own" /\ doing'[Owner] = "nothing"
      <3>1. (\E kind \in Kinds : Arrive(v, kind)) \/ GiveUp(v) \/ Wake(v) => UNCHANGED member
        BY DEF Arrive, GiveUp, Wake
      <3>2. ReviewFace(v) \/ RerunInference(v) \/ SaveSettings(v) \/ SwitchInvite(v)
              => UNCHANGED member
        BY DEF ReviewFace, RerunInference, SaveSettings, SwitchInvite
      <3>3. Leave(v) => member'[u] = "banned"
        BY <1>1 DEF Leave, OwnRow
      <3>4. Join(v) => member'[u] = "banned"
        BY <1>1 DEF Join
      <3>5. ChangeMembers(v)
        BY <1>1, <2>2, <3>1, <3>2, <3>3, <3>4 DEF UserStep
      <3>6. v = Owner /\ doing[v] = "own" /\ doing'[v] = "nothing"
        BY <1>1, <3>5 DEF ChangeMembers, Done
      <3>7. member'[u] = "none"
        BY <1>1, <3>5 DEF ChangeMembers
      <3> QED  BY <3>6, <3>7
    <2>3. ASSUME NEW f \in Faces, UNCHANGED <<wakeVars, desk, tried>> PROVE UNCHANGED member
      BY <2>3
    <2>4. ASSUME NEW w \in Workers,
                 DrainRun(w) \/ DrainEnds(w) \/ CycleOver(w) \/ CycleBegins(w) \/ KeepAlive(w)
                   \/ WakeUp(w) \/ Watch(w) \/ Listen(w) \/ Die(w)
          PROVE  UNCHANGED member
      BY <2>4 DEF DrainRun, DrainEnds, CycleOver, CycleBegins, KeepAlive, WakeUp, Watch, Listen, Die
    <2>5. ASSUME NEW r \in RunsOf, Infer(r) \/ RunFails(r) PROVE UNCHANGED member
      BY <2>5 DEF Infer, RunFails
    <2>6. CASE UNCHANGED vars
      BY <1>1, <2>6 DEF vars
    <2> QED  BY <1>1, <2>1, <2>2, <2>3, <2>4, <2>5, <2>6 DEF Next
  <1>2. LifeInv /\ [Next]_vars
          => [\A u \in Users : member[u] = "banned" /\ member'[u] # "banned"
                => member'[u] = "none" /\ doing[Owner] = "own" /\ doing'[Owner] = "nothing"]_vars
    BY <1>1
  <1> QED  BY <1>2, LifeInvariant, PTL DEF Spec, BansHold

\* With everything else that goes on in a project the counter still keeps the
\* promise of WakeSignal (wake.py, WakeWatcher).
THEOREM LifeKeepsSignal == Spec => SignalIsKept
  <1>1. Init => WakeInit
    BY DEF Init
  <1>2. Spec => WakeSpec
    BY <1>1, WakeFrame, PTL DEF Spec, WakeSpec
  <1> QED  BY <1>2, CounterKeepsSignal
===============================================================================

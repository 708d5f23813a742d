------------------------ MODULE LogMaintenanceProofs ------------------------
(***************************************************************************)
(* Proofs about LogMaintenance: no line is lost.  A line that leaves a     *)
(* file must be in an archive nobody is going to remove, or in the archive *)
(* of a run that has cut the file and will settle it.  The argument needs  *)
(* that no exception comes after the cut, which the code does not ensure:  *)
(* then NothingLost fails.                                                 *)
(***************************************************************************)
EXTENDS LogMaintenance, TLAPS

\* The line is in a settled archive, or deleted by a rule.
Kept(l, f) ==
    \/ \E a \in archives : a.of = f /\ a.done /\ a.by = Nobody /\ l \in a.lines
    \/ l \in retired[f]
    \/ l \in raced[f]

\* The line is in an archive its run may still remove.
Own(l, f, p) ==
    \E a \in archives : a.of = f /\ a.done /\ a.by = p /\ l \in a.lines

\* Nothing removes the line any more: a run that has cut its file goes on to
\* settle its archive.
Held(l, f) ==
    \/ Kept(l, f)
    \/ \E q \in Procs : task[q] = f /\ stage[q] = "tail" /\ Own(l, f, q)

Fields(a) == a = [of |-> a.of, lines |-> a.lines, done |-> a.done,
                  old |-> a.old, by |-> a.by, at |-> a.at]

Function(f, S) == f = [x \in S |-> f[x]]

Shape ==
    /\ Function(file, Files) /\ Function(written, Files)
    /\ Function(retired, Files) /\ Function(raced, Files)
    /\ Function(task, Procs) /\ Function(stage, Procs)
    /\ Function(tail, Procs)
    /\ \A f \in Files : written[f] \in Nat
    /\ \A a \in archives : Fields(a)

Accounted ==
    \A f \in Active : \A l \in 1..written[f] : l \in file[f] \/ Held(l, f)

\* What a run relies on: its copy is complete when it checks the file for the
\* last time, what is in the file when it rewrites it is held elsewhere, and
\* so is the tail it writes back.
Relies(p) ==
    \A f \in Active : task[p] = f =>
      /\ stage[p] = "check" /\ p \in fresh =>
           \A l \in file[f] : Own(l, f, p) \/ Kept(l, f)
      /\ stage[p] = "cut" \/ (stage[p] = "tail" /\ tail[p] # {}) =>
           \A l \in file[f] : Own(l, f, p) \/ Held(l, f)
      /\ stage[p] \in {"cut", "tail"} =>
           \A l \in tail[p] : Own(l, f, p) \/ Kept(l, f)

\* The inductive invariant.
LInv == Shape /\ Accounted /\ \A p \in Procs : Relies(p)
-----------------------------------------------------------------------------
(* When a step of one run preserves the invariant.                         *)

LEMMA StepOfOne ==
    ASSUME LInv, Shape', written' = written, NEW p,
           \A f \in Active : \A l : Kept(l, f) => Kept(l, f)',
           \A f \in Active : \A l : \A q \in Procs \ {p} :
             Own(l, f, q) => Own(l, f, q)' \/ Kept(l, f)',
           \A f \in Active : \A l :
             p \in Procs /\ task[p] = f /\ stage[p] = "tail" /\ Own(l, f, p)
               => Held(l, f)',
           \A q \in Procs \ {p} : /\ task'[q] = task[q]
                                  /\ stage'[q] = stage[q]
                                  /\ tail'[q] = tail[q]
                                  /\ q \in fresh' => q \in fresh,
           \A f \in Active : \A l \in file'[f] : l \in file[f] \/ Kept(l, f)',
           \A f \in Active : \A l \in file[f] \ file'[f] : Held(l, f)',
           p \in Procs => Relies(p)'
    PROVE  LInv'
<1>1. \A f \in Active : \A l : Held(l, f) => Held(l, f)'
  <2> SUFFICES ASSUME NEW f \in Active, NEW l, Held(l, f)
               PROVE  Held(l, f)'
    OBVIOUS
  <2>1. CASE Kept(l, f)
    BY <2>1 DEF Held
  <2>2. ASSUME NEW q \in Procs, task[q] = f, stage[q] = "tail", Own(l, f, q)
        PROVE  Held(l, f)'
    <3>1. CASE q = p
      BY <2>2, <3>1
    <3>2. CASE q # p
      BY <2>2, <3>2 DEF Held
    <3> QED
      BY <3>1, <3>2
  <2> QED
    BY <2>1, <2>2 DEF Held
<1>2. Accounted'
  BY <1>1 DEF LInv, Accounted
<1>3. ASSUME NEW q \in Procs \ {p} PROVE Relies(q)'
  <2> SUFFICES ASSUME NEW f \in Active, task[q] = f
        PROVE
          /\ stage[q] = "check" /\ q \in fresh =>
               \A l \in file'[f] : Own(l, f, q)' \/ Kept(l, f)'
          /\ stage[q] = "cut" \/ (stage[q] = "tail" /\ tail[q] # {}) =>
               \A l \in file'[f] : Own(l, f, q)' \/ Held(l, f)'
          /\ stage[q] \in {"cut", "tail"} =>
               \A l \in tail[q] : Own(l, f, q)' \/ Kept(l, f)'
    BY DEF Relies
  <2>1. \A l : Own(l, f, q) => Own(l, f, q)' \/ Kept(l, f)'
    OBVIOUS
  <2>2. \A l : Kept(l, f)' => Held(l, f)'
    BY DEF Held
  <2>3. Relies(q)
    BY DEF LInv
  <2> QED
    BY <1>1, <2>1, <2>2, <2>3 DEF Relies
<1> QED
  BY <1>2, <1>3 DEF LInv

\* The same when archives are neither removed nor finished and no file
\* changes.
LEMMA QuietStep ==
    ASSUME LInv, Shape', NEW p, UNCHANGED <<written, retired, raced, file>>,
           \A a \in archives : \E b \in archives' :
             /\ b.of = a.of /\ b.done = a.done /\ b.by = a.by
             /\ b.lines = a.lines,
           \A q \in Procs \ {p} : /\ task'[q] = task[q]
                                  /\ stage'[q] = stage[q]
                                  /\ tail'[q] = tail[q]
                                  /\ q \in fresh' => q \in fresh,
           p \in Procs => stage[p] # "tail" /\ Relies(p)'
    PROVE  LInv'
<1>1. \A l, f : Kept(l, f) => Kept(l, f)'
  BY DEF Kept
<1>2. \A l, f, q : Own(l, f, q) => Own(l, f, q)'
  BY DEF Own
<1> QED
  BY <1>1, <1>2, StepOfOne

\* A run that is somewhere else relies on nothing.
LEMMA NothingToRely ==
    ASSUME NEW p, stage'[p] \notin {"check", "cut", "tail"}
    PROVE  Relies(p)'
  BY DEF Relies

LEMMA FunctionUpdate ==
    ASSUME NEW S, NEW f, Function(f, S), NEW x, NEW y
    PROVE  Function([f EXCEPT ![x] = y], S)
  BY DEF Function

LEMMA GotoShape ==
    ASSUME Shape, NEW p \in Procs, NEW t, NEW s, Goto(p, t, s)
    PROVE  /\ Function(task', Procs) /\ Function(stage', Procs)
           /\ task'[p] = t /\ stage'[p] = s
           /\ \A q \in Procs \ {p} : /\ task'[q] = task[q]
                                     /\ stage'[q] = stage[q]
<1>1. task' = [task EXCEPT ![p] = t] /\ stage' = [stage EXCEPT ![p] = s]
  BY DEF Goto
<1>2. Function(task, Procs) /\ Function(stage, Procs)
  BY DEF Shape
<1>3. Function(task', Procs) /\ Function(stage', Procs)
  BY <1>1, <1>2, FunctionUpdate
<1> QED
  BY <1>1, <1>2, <1>3 DEF Function

\* Membership in the lines of finished archives.
LEMMA LineOf ==
    ASSUME NEW S, NEW f, NEW l
    PROVE  l \in LinesOf(S, f)
             <=> \E a \in S : a.of = f /\ a.done /\ l \in a.lines
  BY DEF LinesOf
-----------------------------------------------------------------------------
(* The steps of the other processes.                                       *)

LEMMA AppendLineKeeps ==
    ASSUME LInv, NEW g \in Files, AppendLine(g) PROVE LInv'
<1>0. PICK new : new = written[g] + 1
  OBVIOUS
<1>1. /\ g \in Active
      /\ written' = [written EXCEPT ![g] = new]
      /\ file' = [file EXCEPT ![g] = @ \cup {new}]
      /\ fresh' = fresh \ Stale(g)
      /\ raced' = IF Cutting(g) = {} THEN raced
                  ELSE [raced EXCEPT ![g] = @ \cup {new}]
      /\ UNCHANGED <<archives, task, stage, tail, retired>>
  BY <1>0 DEF AppendLine
<1>2. /\ Function(file, Files) /\ Function(written, Files)
      /\ Function(raced, Files) /\ written[g] \in Nat
  BY DEF LInv, Shape
<1>3. /\ written'[g] = new
      /\ \A f \in Files : /\ f # g => /\ written'[f] = written[f]
                                      /\ file'[f] = file[f]
                          /\ raced[f] \subseteq raced'[f]
      /\ file'[g] = file[g] \cup {new}
      /\ Cutting(g) # {} => new \in raced'[g]
  BY <1>1, <1>2 DEF Function
<1>4. Shape'
  <2>1. Function(file', Files) /\ Function(written', Files)
    BY <1>1, <1>2, FunctionUpdate
  <2>2. Function(raced', Files)
    BY <1>1, <1>2, FunctionUpdate
  <2>3. \A f \in Files : written'[f] \in Nat
    BY <1>0, <1>2, <1>3 DEF LInv, Shape
  <2> QED
    BY <1>1, <2>1, <2>2, <2>3 DEF LInv, Shape
<1>5. \A f \in Files : \A l : Kept(l, f) => Kept(l, f)'
  BY <1>1, <1>3 DEF Kept
<1>6. \A l, f, q : Own(l, f, q)' = Own(l, f, q)
  BY <1>1 DEF Own
<1>7. \A f \in Files : \A l : Held(l, f) => Held(l, f)'
  BY <1>1, <1>5, <1>6 DEF Held
<1>8. Accounted'
  <2> SUFFICES ASSUME NEW f \in Active, NEW l \in 1..written'[f]
               PROVE  l \in file'[f] \/ Held(l, f)'
    BY DEF Accounted
  <2>1. f \in Files
    BY DEF Files
  <2>2. CASE l \in 1..written[f]
    BY <1>3, <1>7, <2>1, <2>2 DEF LInv, Accounted
  <2>3. CASE l \notin 1..written[f]
    <3>1. f = g
      BY <1>3, <2>1, <2>3
    <3>2. l = new
      BY <1>0, <1>2, <1>3, <2>3, <3>1
    <3> QED
      BY <1>3, <3>1, <3>2
  <2> QED
    BY <2>2, <2>3
<1>9. ASSUME NEW p \in Procs PROVE Relies(p)'
  <2> SUFFICES ASSUME NEW f \in Active, task[p] = f
        PROVE
          /\ stage[p] = "check" /\ p \in fresh' =>
               \A l \in file'[f] : Own(l, f, p) \/ Kept(l, f)'
          /\ stage[p] = "cut" \/ (stage[p] = "tail" /\ tail[p] # {}) =>
               \A l \in file'[f] : Own(l, f, p) \/ Held(l, f)'
          /\ stage[p] \in {"cut", "tail"} =>
               \A l \in tail[p] : Own(l, f, p) \/ Kept(l, f)'
    BY <1>1, <1>6 DEF Relies
  <2>1. f \in Files /\ Relies(p)
    BY DEF LInv, Files
  <2>2. CASE f # g
    BY <1>1, <1>3, <1>5, <1>7, <2>1, <2>2 DEF Relies
  <2>3. CASE f = g
    <3>1. p \notin fresh'
      BY <1>1, <2>3 DEF Stale
    <3>2. stage[p] = "cut" \/ (stage[p] = "tail" /\ tail[p] # {}) =>
            Cutting(g) # {}
      BY <2>3 DEF Cutting
    <3>3. ASSUME Cutting(g) # {} PROVE Held(new, f)'
      <4>1. new \in raced'[g]
        BY <1>3, <3>3
      <4>2. Kept(new, g)'
        BY <4>1 DEF Kept
      <4> QED
        BY <2>3, <4>2 DEF Held
    <3>4. \A l \in file'[f] : l \in file[f] \/ l = new
      BY <1>3, <2>3
    <3>5. stage[p] = "cut" \/ (stage[p] = "tail" /\ tail[p] # {}) =>
            \A l \in file'[f] : Own(l, f, p) \/ Held(l, f)'
      BY <1>7, <2>1, <3>2, <3>3, <3>4 DEF Relies
    <3>6. stage[p] \in {"cut", "tail"} =>
            \A l \in tail[p] : Own(l, f, p) \/ Kept(l, f)'
      BY <1>5, <2>1 DEF Relies
    <3> QED
      BY <3>1, <3>5, <3>6
  <2> QED
    BY <2>2, <2>3
<1> QED
  BY <1>4, <1>8, <1>9 DEF LInv

LEMMA RetentionKeeps == ASSUME LInv, RetentionPasses PROVE LInv'
<1>1. /\ archives' = {[a EXCEPT !.old = TRUE] : a \in archives}
      /\ UNCHANGED <<file, written, task, stage, fresh, tail, retired, raced>>
  BY DEF RetentionPasses
<1>2. ASSUME NEW a \in archives
      PROVE  LET b == [a EXCEPT !.old = TRUE]
             IN  /\ b.of = a.of /\ b.done = a.done /\ b.by = a.by
                 /\ b.lines = a.lines /\ Fields(b)
  <2>1. a = [of |-> a.of, lines |-> a.lines, done |-> a.done,
             old |-> a.old, by |-> a.by, at |-> a.at]
    BY DEF LInv, Shape, Fields
  <2>2. PICK b : b = [a EXCEPT !.old = TRUE]
    OBVIOUS
  <2>3. b = [of |-> a.of, lines |-> a.lines, done |-> a.done,
             old |-> TRUE, by |-> a.by, at |-> a.at]
    BY <2>1, <2>2
  <2>4. /\ b.of = a.of /\ b.done = a.done /\ b.by = a.by
        /\ b.lines = a.lines /\ b.at = a.at /\ b.old = TRUE
    BY <2>3
  <2>5. Fields(b)
    BY <2>3, <2>4 DEF Fields
  <2> QED
    BY <2>2, <2>4, <2>5
<1>3. Shape'
  BY <1>1, <1>2 DEF LInv, Shape
<1>4. \A a \in archives : \E b \in archives' :
        /\ b.of = a.of /\ b.done = a.done /\ b.by = a.by
        /\ b.lines = a.lines
  BY <1>1, <1>2
<1> QED
  BY <1>1, <1>3, <1>4, QuietStep, NobodyIsNoRun
-----------------------------------------------------------------------------
(* The steps of a run.                                                     *)

LEMMA StartRunKeeps ==
    ASSUME LInv, NEW p \in Procs, StartRun(p) PROVE LInv'
<1>1. Goto(p, "log", "list")
  BY DEF StartRun, Goto
<1>2. UNCHANGED <<file, written, archives, fresh, tail, retired, raced>>
  BY DEF StartRun
<1>3. Shape'
  BY <1>1, <1>2, GotoShape DEF LInv, Shape
<1>4. Relies(p)'
  BY <1>1, GotoShape, NothingToRely DEF LInv
<1>5. task[p] = "none"
  BY DEF StartRun
<1>6. \A l, f : /\ Kept(l, f) => Kept(l, f)'
                /\ \A q : Own(l, f, q) => Own(l, f, q)'
  BY <1>2 DEF Kept, Own
<1>7. \A f \in Active : task[p] # f
  BY <1>5 DEF Active
<1> QED
  BY <1>1, <1>2, <1>3, <1>4, <1>6, <1>7, GotoShape, StepOfOne DEF LInv

LEMMA ListActiveKeeps ==
    ASSUME LInv, NEW p \in Procs, ListActive(p) \/ SkipRecent(p) PROVE LInv'
<1>1. PICK t, s : Goto(p, t, s) /\ s \in {"list", "open"}
  BY DEF ListActive, SkipRecent, NextTask
<1>2. /\ UNCHANGED <<file, written, archives, tail, retired, raced>>
      /\ stage[p] = "list"
      /\ \A q \in Procs \ {p} : q \in fresh' => q \in fresh
  BY DEF ListActive, SkipRecent
<1>3. Shape'
  BY <1>1, <1>2, GotoShape DEF LInv, Shape
<1>4. Relies(p)'
  BY <1>1, GotoShape, NothingToRely DEF LInv
<1> QED
  BY <1>1, <1>2, <1>3, <1>4, GotoShape, QuietStep DEF LInv

\* Only the legacy archive and its target are touched.
LEMMA LegacyStepKeeps ==
    ASSUME LInv, NEW p \in Procs,
           ListLegacy(p) \/ DropLegacy(p) \/ UnlinkTarget(p)
    PROVE  LInv'
<1>1. PICK t, s : Goto(p, t, s) /\ s \in {"list", "drop", "target", "open"}
  BY DEF ListLegacy, DropLegacy, UnlinkTarget, NextTask, GiveUp
<1>2. /\ UNCHANGED <<written, tail, raced>>
      /\ stage[p] # "tail"
      /\ \A q \in Procs \ {p} : q \in fresh' => q \in fresh
      /\ archives' \subseteq archives
      /\ \A a \in archives : a.of # "legacy" => a \in archives'
      /\ file' = file \/ file' = [file EXCEPT !["legacy"] = {}]
      /\ retired' = retired
           \/ retired' = [retired EXCEPT !["legacy"] = @ \cup file["legacy"]]
  BY DEF ListLegacy, DropLegacy, UnlinkTarget
<1>3. \A f \in Active : f # "legacy" /\ f \in Files
  BY DEF Active, Files
<1>4. Function(file, Files) /\ Function(retired, Files)
  BY DEF LInv, Shape
<1>5. \A f \in Active : file'[f] = file[f] /\ retired'[f] = retired[f]
  BY <1>2, <1>3, <1>4 DEF Function
<1>6. Function(file', Files) /\ Function(retired', Files)
  BY <1>2, <1>4, FunctionUpdate
<1>7. Shape'
  BY <1>1, <1>2, <1>6, GotoShape DEF LInv, Shape
<1>8. Relies(p)'
  BY <1>1, GotoShape, NothingToRely DEF LInv
<1>9. \A f \in Active : \A l : /\ Kept(l, f) => Kept(l, f)'
                               /\ \A q : Own(l, f, q) => Own(l, f, q)'
  BY <1>2, <1>3, <1>5 DEF Kept, Own
<1> QED
  BY <1>1, <1>2, <1>5, <1>7, <1>8, <1>9, GotoShape, StepOfOne DEF LInv

LEMMA CreateArchiveKeeps ==
    ASSUME LInv, NEW p \in Procs, CreateArchive(p) PROVE LInv'
<1> DEFINE torn == [of |-> task[p], lines |-> {}, done |-> FALSE,
                    old |-> FALSE, by |-> p, at |-> Newest + 1]
<1>1. PICK t, s : Goto(p, t, s) /\ s \in {"list", "copy"}
  BY DEF CreateArchive, Changed, NextTask, GiveUp
<1>2. /\ UNCHANGED <<file, written, fresh, tail, retired, raced>>
      /\ stage[p] # "tail"
      /\ archives' = archives \/ archives' = archives \cup {torn}
  BY DEF CreateArchive
<1>3. Fields(torn)
  BY DEF Fields
<1> HIDE DEF torn
<1>4. Shape'
  BY <1>1, <1>2, <1>3, GotoShape DEF LInv, Shape
<1>5. Relies(p)'
  BY <1>1, GotoShape, NothingToRely DEF LInv
<1> QED
  BY <1>1, <1>2, <1>4, <1>5, GotoShape, QuietStep DEF LInv

LEMMA FinishCopyKeeps ==
    ASSUME LInv, NEW p \in Procs, FinishCopy(p) PROVE LInv'
<1>0. PICK f, copied, made :
        /\ f = task[p] /\ copied = IF p \in fresh THEN file[f] ELSE {}
        /\ made = [of |-> f, lines |-> copied, done |-> TRUE, old |-> FALSE,
                   by |-> p, at |-> Newest + 1]
  OBVIOUS
<1>1. /\ UNCHANGED <<file, written, fresh, tail, retired, raced>>
      /\ stage[p] = "copy"
      /\ \/ Goto(p, "none", "list") /\ archives' = archives
         \/ /\ Goto(p, f, "check")
            /\ archives' = (archives \ Mine(p)) \cup {made}
  BY <1>0 DEF FinishCopy, GiveUp
<1>2. /\ made.of = f /\ made.lines = copied /\ made.done /\ made.by = p
      /\ Fields(made)
  BY <1>0 DEF Fields
<1>3. \E t, s : Goto(p, t, s)
  BY <1>1
<1>4. Shape'
  BY <1>1, <1>2, <1>3, GotoShape DEF LInv, Shape
<1>5. \A l, g : /\ Kept(l, g) => Kept(l, g)'
                /\ \A q : q # p /\ Own(l, g, q) => Own(l, g, q)'
  BY <1>1, NobodyIsNoRun DEF Kept, Own, Mine
<1>6. Relies(p)'
  <2>1. CASE Goto(p, "none", "list") /\ archives' = archives
    BY <2>1, GotoShape, NothingToRely DEF LInv
  <2>2. CASE /\ Goto(p, f, "check")
             /\ archives' = (archives \ Mine(p)) \cup {made}
    <3>1. task'[p] = f /\ stage'[p] = "check"
      BY <2>2, GotoShape DEF LInv
    <3>2. made \in archives'
      BY <2>2
    <3>3. p \in fresh => made.lines = file[f]
      BY <1>0, <1>2
    <3>4. p \in fresh => \A l \in file[f] : Own(l, f, p)'
      BY <1>2, <3>2, <3>3 DEF Own
    <3>5. p \in fresh' => \A l \in file'[f] : Own(l, f, p)'
      BY <1>1, <3>4
    <3> QED
      BY <3>1, <3>5 DEF Relies
  <2> QED
    BY <1>1, <2>1, <2>2
<1>7. \A q \in Procs \ {p} : task'[q] = task[q] /\ stage'[q] = stage[q]
  BY <1>3, GotoShape DEF LInv
<1> QED
  BY <1>1, <1>4, <1>5, <1>6, <1>7, StepOfOne

LEMMA CheckIdentityKeeps ==
    ASSUME LInv, NEW p \in Procs, CheckIdentity(p) PROVE LInv'
<1> DEFINE f == task[p]
<1>1. /\ UNCHANGED <<file, written, fresh, retired, raced>>
      /\ stage[p] = "check"
  BY DEF CheckIdentity
<1>2. CASE p \in fresh
  <2>1. /\ Goto(p, f, "cut") /\ archives' = archives
        /\ \E T \in TailsOf(f) : tail' = [tail EXCEPT ![p] = T]
    BY <1>2 DEF CheckIdentity
  <2>2. PICK T \in TailsOf(f) : tail' = [tail EXCEPT ![p] = T]
    BY <2>1
  <2>3. T \subseteq file[f]
    BY DEF TailsOf, Tails
  <2>4. /\ Function(tail', Procs) /\ tail'[p] = T
        /\ \A q \in Procs \ {p} : tail'[q] = tail[q]
    BY <2>2, FunctionUpdate DEF LInv, Shape, Function
  <2>5. /\ task'[p] = f /\ stage'[p] = "cut"
        /\ \A q \in Procs \ {p} : task'[q] = task[q] /\ stage'[q] = stage[q]
    BY <2>1, GotoShape DEF LInv
  <2>6. Shape'
    BY <1>1, <2>1, <2>4, GotoShape DEF LInv, Shape
  <2>7. \A l, g : /\ Kept(l, g)' = Kept(l, g)
                  /\ \A q : Own(l, g, q)' = Own(l, g, q)
    BY <1>1, <2>1 DEF Kept, Own
  <2>8. Relies(p)'
    <3>1. f \in Active => \A l \in file[f] : Own(l, f, p) \/ Kept(l, f)
      BY <1>1, <1>2 DEF LInv, Relies
    <3>2. \A l, g : Kept(l, g)' => Held(l, g)'
      BY DEF Held
    <3> QED
      BY <1>1, <2>3, <2>4, <2>5, <2>7, <3>1, <3>2 DEF Relies
  <2> QED
    BY <1>1, <2>4, <2>5, <2>6, <2>7, <2>8, StepOfOne
<1>3. CASE p \notin fresh
  <2>1. /\ GiveUp(p) \/ Changed(p)
        /\ archives' = archives \ Mine(p) /\ tail' = tail
    BY <1>3 DEF CheckIdentity
  <2>2. PICK t, s : Goto(p, t, s) /\ s = "list"
    BY <2>1 DEF Changed, NextTask, GiveUp
  <2>3. Shape'
    BY <1>1, <2>1, <2>2, GotoShape DEF LInv, Shape
  <2>4. \A l, g : /\ Kept(l, g) => Kept(l, g)'
                  /\ \A q : q # p /\ Own(l, g, q) => Own(l, g, q)'
    BY <1>1, <2>1, NobodyIsNoRun DEF Kept, Own, Mine
  <2>5. Relies(p)'
    BY <2>2, GotoShape, NothingToRely DEF LInv
  <2> QED
    BY <1>1, <2>1, <2>2, <2>3, <2>4, <2>5, GotoShape, StepOfOne DEF LInv
<1> QED
  BY <1>2, <1>3

LEMMA SettledShape ==
    ASSUME LInv, NEW p, archives' = Settled(p)
    PROVE  \A a \in archives' : Fields(a)
<1> SUFFICES ASSUME NEW a \in Mine(p)
             PROVE  Fields([a EXCEPT !.by = Nobody])
  BY DEF LInv, Shape, Settled
<1>1. a = [of |-> a.of, lines |-> a.lines, done |-> a.done,
           old |-> a.old, by |-> a.by, at |-> a.at]
  BY DEF LInv, Shape, Fields, Mine
<1>2. PICK b : b = [a EXCEPT !.by = Nobody]
  OBVIOUS
<1>3. b = [of |-> a.of, lines |-> a.lines, done |-> a.done,
           old |-> a.old, by |-> Nobody, at |-> a.at]
  BY <1>1, <1>2
<1>4. Fields(b)
  BY <1>3 DEF Fields
<1> QED
  BY <1>2, <1>4

\* Once it has settled, a run's own copies are kept.
LEMMA SettledKeeps ==
    ASSUME LInv, NEW p \in Procs, archives' = Settled(p),
           UNCHANGED <<retired, raced>>
    PROVE  \A l, g : /\ Kept(l, g) => Kept(l, g)'
                     /\ Own(l, g, p) => Kept(l, g)'
                     /\ \A q \in Procs \ {p} : Own(l, g, q) => Own(l, g, q)'
<1>1. \A a \in archives : a.by # p => a \in archives'
  BY DEF Settled, Mine
<1>2. ASSUME NEW a \in archives, a.by = p
      PROVE  \E b \in archives' : /\ b.of = a.of /\ b.done = a.done
                                  /\ b.lines = a.lines /\ b.by = Nobody
  <2>1. a = [of |-> a.of, lines |-> a.lines, done |-> a.done,
             old |-> a.old, by |-> a.by, at |-> a.at]
    BY DEF LInv, Shape, Fields
  <2>2. PICK b : b = [a EXCEPT !.by = Nobody]
    OBVIOUS
  <2>3. b = [of |-> a.of, lines |-> a.lines, done |-> a.done,
             old |-> a.old, by |-> Nobody, at |-> a.at]
    BY <2>1, <2>2
  <2>4. b \in archives'
    BY <1>2, <2>2 DEF Settled, Mine
  <2>5. /\ b.of = a.of /\ b.done = a.done
        /\ b.lines = a.lines /\ b.by = Nobody
    BY <2>3
  <2> QED
    BY <2>4, <2>5
<1>3. \A l, g : Kept(l, g) => Kept(l, g)'
  BY <1>1, NobodyIsNoRun DEF Kept
<1>4. \A l, g : \A q \in Procs \ {p} : Own(l, g, q) => Own(l, g, q)'
  BY <1>1 DEF Own
<1>5. \A l, g : Own(l, g, p) => Kept(l, g)'
  BY <1>2 DEF Own, Kept
<1> QED
  BY <1>3, <1>4, <1>5

LEMMA CutKeeps == ASSUME LInv, NEW p \in Procs, Cut(p) PROVE LInv'
<1>0. PICK f : f = task[p]
  OBVIOUS
<1>1. /\ UNCHANGED <<written, tail, retired, raced>>
      /\ stage[p] = "cut" /\ file' = [file EXCEPT ![f] = {}]
      /\ fresh' \subseteq fresh
  BY <1>0 DEF Cut
<1>2. Function(file, Files) /\ Function(file', Files)
  BY <1>1, FunctionUpdate DEF LInv, Shape
<1>3. \A g \in Files : file'[g] = IF g = f THEN {} ELSE file[g]
  BY <1>1, <1>2 DEF Function
<1>4. Active \subseteq Files
  BY DEF Files
<1>5. CASE f \in Active
  <2>1. Goto(p, f, "tail") /\ archives' = archives
    BY <1>0, <1>5 DEF Cut
  <2>2. Shape'
    BY <1>1, <1>2, <2>1, GotoShape DEF LInv, Shape
  <2>3. \A l, g : /\ Kept(l, g)' = Kept(l, g)
                  /\ \A q : Own(l, g, q)' = Own(l, g, q)
    BY <1>1, <2>1 DEF Kept, Own
  <2>4. /\ task'[p] = f /\ stage'[p] = "tail"
        /\ \A q \in Procs \ {p} : task'[q] = task[q] /\ stage'[q] = stage[q]
    BY <2>1, GotoShape DEF LInv
  <2>5. /\ \A l \in file[f] : Own(l, f, p) \/ Held(l, f)
        /\ \A l \in tail[p] : Own(l, f, p) \/ Kept(l, f)
    BY <1>0, <1>1, <1>5 DEF LInv, Relies
  <2>6. \A l : Own(l, f, p) => Held(l, f)'
    BY <2>3, <2>4 DEF Held
  <2>7. \A l, g : Held(l, g) => Held(l, g)'
    BY <1>1, <2>3, <2>4 DEF Held
  <2>8. \A g \in Active : \A l \in file[g] \ file'[g] : Held(l, g)'
    BY <1>3, <1>4, <2>5, <2>6, <2>7
  <2>9. Relies(p)'
    BY <1>1, <1>3, <1>4, <2>3, <2>4, <2>5 DEF Relies
  <2>10. \A g \in Active : \A l \in file'[g] : l \in file[g]
    BY <1>3, <1>4
  <2> QED
    BY <1>1, <2>2, <2>3, <2>4, <2>8, <2>9, <2>10, StepOfOne
<1>6. CASE f \notin Active
  <2>1. NextTask(p) /\ archives' = Settled(p)
    BY <1>0, <1>6 DEF Cut
  <2>2. PICK t, s : Goto(p, t, s) /\ s = "list"
    BY <2>1 DEF NextTask
  <2>3. Shape'
    BY <1>1, <1>2, <2>1, <2>2, SettledShape, GotoShape DEF LInv, Shape
  <2>4. Relies(p)'
    BY <2>2, GotoShape, NothingToRely DEF LInv
  <2>5. \A g \in Active : file'[g] = file[g]
    BY <1>3, <1>4, <1>6
  <2> QED
    BY <1>1, <2>1, <2>2, <2>3, <2>4, <2>5, SettledKeeps, GotoShape, StepOfOne
       DEF LInv
<1> QED
  BY <1>5, <1>6

LEMMA WriteTailKeeps ==
    ASSUME LInv, NEW p \in Procs, WriteTail(p) PROVE LInv'
<1>0. PICK f : f = task[p]
  OBVIOUS
<1>1. /\ UNCHANGED <<written, retired, raced>>
      /\ stage[p] = "tail" /\ tail' = [tail EXCEPT ![p] = {}]
      /\ fresh' \subseteq fresh /\ archives' = Settled(p) /\ NextTask(p)
  BY <1>0 DEF WriteTail
<1>2. PICK rest \in SUBSET file[f] :
        /\ tail[p] = {} => rest = file[f]
        /\ file' = [file EXCEPT ![f] = tail[p] \cup rest]
  BY <1>0 DEF WriteTail
<1>3. PICK t, s : Goto(p, t, s) /\ s = "list"
  BY <1>1 DEF NextTask
<1>4. Function(file, Files) /\ Function(file', Files)
  BY <1>2, FunctionUpdate DEF LInv, Shape
<1>5. \A g \in Files :
        file'[g] = IF g = f THEN tail[p] \cup rest ELSE file[g]
  BY <1>2, <1>4 DEF Function
<1>6. /\ Function(tail', Procs)
      /\ \A q \in Procs \ {p} : tail'[q] = tail[q]
  BY <1>1, FunctionUpdate DEF LInv, Shape, Function
<1>7. Shape'
  BY <1>1, <1>3, <1>4, <1>6, SettledShape, GotoShape DEF LInv, Shape
<1>8. Active \subseteq Files
  BY DEF Files
<1>9. \A q \in Procs \ {p} : task'[q] = task[q] /\ stage'[q] = stage[q]
  BY <1>3, GotoShape DEF LInv
<1>10. Relies(p)'
  BY <1>3, GotoShape, NothingToRely DEF LInv
<1>11. /\ \A l, g : /\ Kept(l, g) => Kept(l, g)'
                    /\ Own(l, g, p) => Kept(l, g)'
                    /\ \A q \in Procs \ {p} : Own(l, g, q) => Own(l, g, q)'
  BY <1>1, SettledKeeps DEF LInv
<1>12. \A l, g : Held(l, g) => Held(l, g)'
  BY <1>9, <1>11 DEF Held
<1>13. f \in Active => /\ \A l \in tail[p] : Own(l, f, p) \/ Kept(l, f)
                       /\ tail[p] # {} =>
                            \A l \in file[f] : Own(l, f, p) \/ Held(l, f)
  BY <1>0, <1>1 DEF LInv, Relies
<1>14. \A g \in Active : \A l \in file'[g] : l \in file[g] \/ Kept(l, g)'
  BY <1>5, <1>8, <1>11, <1>13
<1>15. \A g \in Active : \A l \in file[g] \ file'[g] : Held(l, g)'
  <2> SUFFICES ASSUME NEW g \in Active, NEW l \in file[g] \ file'[g]
               PROVE  Held(l, g)'
    OBVIOUS
  <2>1. g = f /\ tail[p] # {}
    BY <1>2, <1>5, <1>8
  <2>2. Own(l, g, p) \/ Held(l, g)
    BY <1>13, <2>1
  <2> QED
    BY <1>11, <1>12, <2>2 DEF Held
<1>16. \A q \in Procs \ {p} : q \in fresh' => q \in fresh
  BY <1>1
<1>17. \A g \in Active : \A l : Own(l, g, p) => Held(l, g)'
  BY <1>11 DEF Held
<1> QED
  BY <1>1, <1>6, <1>7, <1>9, <1>10, <1>11, <1>14, <1>15, <1>16, <1>17,
     StepOfOne

\* The steps of a sweep that delete nothing.
LEMMA SweepStepKeeps ==
    ASSUME LInv, NEW p \in Procs,
           ListExpired(p) \/ ListOverCap(p) \/ MissDue(p) \/ EndSweep(p)
    PROVE  LInv'
<1>1. PICK t, s : Goto(p, t, s) /\ s \in {"list", "expire", "prune"}
  BY DEF ListExpired, ListOverCap, MissDue, EndSweep, NextTask, GiveUp
<1>2. /\ UNCHANGED <<file, written, archives, fresh, tail, retired, raced>>
      /\ stage[p] # "tail"
  BY DEF ListExpired, ListOverCap, MissDue, EndSweep
<1>3. Shape'
  BY <1>1, <1>2, GotoShape DEF LInv, Shape
<1>4. Relies(p)'
  BY <1>1, GotoShape, NothingToRely DEF LInv
<1> QED
  BY <1>1, <1>2, <1>3, <1>4, GotoShape, QuietStep DEF LInv

LEMMA UnlinkDueKeeps ==
    ASSUME LInv, NEW p \in Procs, UnlinkDue(p) PROVE LInv'
<1>1. PICK a \in archives :
        /\ archives' = archives \ {a}
        /\ retired' = [retired EXCEPT ![a.of] =
                          IF a.done THEN @ \cup a.lines ELSE @]
  BY DEF UnlinkDue, InDirectory
<1>2. /\ UNCHANGED <<file, written, task, stage, fresh, tail, raced>>
      /\ stage[p] \in {"expire", "prune"}
  BY DEF UnlinkDue
<1>3. Function(retired, Files) /\ Function(retired', Files)
  BY <1>1, FunctionUpdate DEF LInv, Shape
<1>4. /\ \A f \in Files : retired[f] \subseteq retired'[f]
      /\ a.of \in Files /\ a.done => a.lines \subseteq retired'[a.of]
  BY <1>1, <1>3 DEF Function
<1>5. Shape'
  BY <1>1, <1>2, <1>3 DEF LInv, Shape
<1>6. Relies(p)'
  BY <1>2, NothingToRely
<1>7. \A f \in Active : \A l :
        /\ Kept(l, f) => Kept(l, f)'
        /\ \A q : Own(l, f, q) => Own(l, f, q)' \/ Kept(l, f)'
  <2> SUFFICES ASSUME NEW f \in Active, NEW l
        PROVE /\ Kept(l, f) => Kept(l, f)'
              /\ \A q : Own(l, f, q) => Own(l, f, q)' \/ Kept(l, f)'
    OBVIOUS
  <2>1. f \in Files
    BY DEF Files
  <2> QED
    BY <1>1, <1>2, <1>4, <2>1 DEF Kept, Own
<1> QED
  BY <1>2, <1>5, <1>6, <1>7, StepOfOne

\* An exception after the cut would remove the only copy.
LEMMA FailKeeps ==
    ASSUME LInv, ~CutMayFail, NEW p \in Procs, Fail(p) PROVE LInv'
<1>1. /\ UNCHANGED <<file, written, retired, raced>>
      /\ archives' = archives \ Mine(p) /\ Goto(p, "none", "list")
      /\ fresh' \subseteq fresh /\ tail' = [tail EXCEPT ![p] = {}]
      /\ stage[p] # "tail"
  BY DEF Fail, GiveUp
<1>2. /\ Function(tail', Procs)
      /\ \A q \in Procs \ {p} : tail'[q] = tail[q]
  BY <1>1, FunctionUpdate DEF LInv, Shape, Function
<1>3. Shape'
  BY <1>1, <1>2, GotoShape DEF LInv, Shape
<1>4. Relies(p)'
  BY <1>1, GotoShape, NothingToRely DEF LInv
<1>5. \A l, g : /\ Kept(l, g) => Kept(l, g)'
                /\ \A q : q # p /\ Own(l, g, q) => Own(l, g, q)'
  BY <1>1, NobodyIsNoRun DEF Kept, Own, Mine
<1> QED
  BY <1>1, <1>2, <1>3, <1>4, <1>5, GotoShape, StepOfOne DEF LInv

LEMMA CrashKeeps ==
    ASSUME LInv, NEW p \in Procs, Crash(p) PROVE LInv'
<1>1. /\ UNCHANGED <<file, written, retired, raced>>
      /\ archives' = Settled(p) /\ Goto(p, "none", "list")
      /\ fresh' \subseteq fresh /\ tail' = [tail EXCEPT ![p] = {}]
  BY DEF Crash, GiveUp
<1>2. /\ Function(tail', Procs)
      /\ \A q \in Procs \ {p} : tail'[q] = tail[q]
  BY <1>1, FunctionUpdate DEF LInv, Shape, Function
<1>3. Shape'
  BY <1>1, <1>2, SettledShape, GotoShape DEF LInv, Shape
<1>4. Relies(p)'
  BY <1>1, GotoShape, NothingToRely DEF LInv
<1>5. \A l, g : /\ Kept(l, g) => Kept(l, g)'
                /\ Own(l, g, p) => Kept(l, g)'
                /\ \A q \in Procs \ {p} : Own(l, g, q) => Own(l, g, q)'
  BY <1>1, SettledKeeps DEF LInv
<1>6. \A l, g : Kept(l, g)' => Held(l, g)'
  BY DEF Held
<1> QED
  BY <1>1, <1>2, <1>3, <1>4, <1>5, <1>6, GotoShape, StepOfOne DEF LInv
-----------------------------------------------------------------------------
(* The theorem.                                                            *)

LEMMA InitHolds == ASSUME LInit PROVE LInv
<1>1. /\ written = [f \in Files |-> IF f = "legacy" THEN quota[f] ELSE 0]
      /\ file = [f \in Files |-> 1..written[f]]
      /\ archives = {} /\ task = [p \in Procs |-> "none"]
      /\ stage = [p \in Procs |-> "list"]
      /\ tail = [p \in Procs |-> {}]
      /\ retired = [f \in Files |-> {}] /\ raced = [f \in Files |-> {}]
      /\ quota \in [Files -> Nat]
  BY MaintenanceBounds DEF LInit
<1>2. /\ Function(file, Files) /\ Function(written, Files)
      /\ Function(retired, Files) /\ Function(raced, Files)
      /\ Function(task, Procs) /\ Function(stage, Procs)
      /\ Function(tail, Procs)
  BY <1>1 DEF Function
<1>3. \A f \in Files : written[f] \in Nat
  BY <1>1
<1>4. Shape
  BY <1>1, <1>2, <1>3 DEF Shape
<1>5. \A f \in Active : f \in Files /\ f # "legacy"
  BY DEF Active, Files
<1>6. Accounted
  BY <1>1, <1>5 DEF Accounted
<1>7. \A p \in Procs : Relies(p)
  BY <1>1 DEF Relies
<1> QED
  BY <1>4, <1>6, <1>7 DEF LInv

LEMMA StutterKeeps ==
    ASSUME LInv,
           UNCHANGED lvars \/ \E p \in Procs : KillShell(p)
    PROVE  LInv'
<1>1. /\ UNCHANGED <<file, written, archives, task, stage, fresh>>
      /\ UNCHANGED <<tail, retired, raced>>
  BY DEF lvars, KillShell
<1>2. Shape'
  BY <1>1 DEF LInv, Shape
<1>3. \E p : p \notin Procs
  BY NobodyIsNoRun
<1> QED
  BY <1>1, <1>2, <1>3, QuietStep

LEMMA StepKeeps == ASSUME LInv, ~CutMayFail, LNext PROVE LInv'
<1>1. ASSUME NEW f \in Active, AppendLine(f) PROVE LInv'
  BY <1>1, AppendLineKeeps DEF Files
<1>2. CASE RetentionPasses
  BY <1>2, RetentionKeeps
<1>3. ASSUME NEW p \in Procs,
             \/ StartRun(p) \/ MaintainStep(p)
             \/ Fail(p) \/ Crash(p) \/ KillShell(p)
      PROVE  LInv'
  BY <1>3, StartRunKeeps, ListActiveKeeps, LegacyStepKeeps,
     CreateArchiveKeeps, FinishCopyKeeps, CheckIdentityKeeps, CutKeeps,
     WriteTailKeeps, SweepStepKeeps, UnlinkDueKeeps, FailKeeps, CrashKeeps,
     StutterKeeps DEF MaintainStep
<1> QED
  BY <1>1, <1>2, <1>3 DEF LNext

LEMMA LInvLosesNothing == ASSUME LInv PROVE NothingLost
<1> SUFFICES ASSUME NEW f \in Active, NEW l \in 1..written[f]
             PROVE  l \in Recoverable(f) \cup retired[f] \cup raced[f]
  BY DEF NothingLost
<1>1. l \in file[f] \/ Held(l, f)
  BY DEF LInv, Accounted
<1>2. Held(l, f) => \/ \E a \in archives : a.of = f /\ a.done /\ l \in a.lines
                    \/ l \in retired[f] \/ l \in raced[f]
  BY DEF Held, Kept, Own
<1>3. (\E a \in archives : a.of = f /\ a.done /\ l \in a.lines)
        => l \in LinesOf(archives, f)
  BY LineOf
<1> QED
  BY <1>1, <1>2, <1>3 DEF Recoverable

\* Every line written to a log or a ledger is in the file, in a finished
\* archive, deleted by a rule or written while the file was being rewritten:
\* for any number of overlapping runs, killed anywhere or failing before the
\* cut, whatever is appended meanwhile.
THEOREM NothingLostHolds == ASSUME ~CutMayFail PROVE LSpec => []NothingLost
<1>1. LInit => LInv
  BY InitHolds
<1>2. LInv /\ [LNext]_lvars => LInv'
  BY StepKeeps, StutterKeeps
<1>3. LInv => NothingLost
  BY LInvLosesNothing
<1> QED
  BY <1>1, <1>2, <1>3, PTL DEF LSpec
=============================================================================

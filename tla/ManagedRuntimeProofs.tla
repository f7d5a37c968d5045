------------------------ MODULE ManagedRuntimeProofs ------------------------
(***************************************************************************)
(* Theorems about ManagedRuntime: a game keeps its runtime, and what was   *)
(* left behind does not fail an installation, for any launches, pipelines, *)
(* files, mishaps and restarts.                                            *)
(*                                                                         *)
(* The argument: while the directories have one writer at a time, the      *)
(* component's directory never holds the marker of an installation, and    *)
(* nobody changes it before he has found it not ready, which stays so      *)
(* until he makes it ready.                                                *)
(***************************************************************************)
EXTENDS ManagedRuntime, TLAPS

Steps == Installing \union Repairing \union Over \union {"idle", "ensure", "wait"}

\* The directories have one writer.
Alone ==
    /\ \A s, t \in Tasks : Changes(at[s]) /\ Changes(at[t]) => s = t
    /\ \A t \in Tasks : Changes(at[t]) => late = {}
    /\ \A o, q \in late : o = q

\* What a task that is gone left behind finds the runtime not ready, too.
LeftBehind ==
    /\ "installing" \notin dest
    /\ late # {} => ~Marked(dest)
    /\ "place" \in late => "installing" \notin temp

\* A task has found the runtime not ready; a game that was not disturbed has it.
Placed(step) ==
    /\ step \in (Installing \ {"confirm"}) \union {"check", "strip"} => ~Marked(dest)
    /\ step = "write" => "ready" \notin dest
    /\ step \in {"seal", "place"} => "installing" \notin temp
Found(t) == Placed(at[t])
Kept(t) == at[t] = "using" /\ t \notin hit => Marked(dest)

\* An installation that was not disturbed has done its work so far.
Worked(step) ==
    /\ step \in {"make", "mark", "proof", "files", "unmark", "seal", "place"} => dest = {}
    /\ step \in {"mark", "proof", "files", "unmark", "seal", "place"} => "dir" \in temp
    /\ step \in {"files", "unmark", "seal", "place"} => "proof" \in temp
    /\ step = "files" => Files \subseteq temp \union todo
    /\ step \in {"unmark", "seal", "place"} => Files \subseteq temp
    /\ step = "place" => "ready" \in temp
    /\ step = "confirm" => Marked(dest)
    /\ step \notin {"undo", "failed"}
Sound(t) == t \notin hit => Worked(at[t])

Fine(t) == Found(t) /\ Kept(t) /\ Sound(t)
Orderly == Alone /\ LeftBehind /\ \A t \in Tasks : Fine(t)

IInv == TypeOK /\ (exposed \/ Orderly)

-----------------------------------------------------------------------------
(* Facts about steps and tasks.                                            *)

\* A task goes to its next step and no other task moves.
LEMMA Going ==
    ASSUME TypeOK, NEW t \in Tasks, NEW s \in Steps, Goes(t, s)
    PROVE  /\ at' \in [Tasks -> Steps] /\ at'[t] = s
           /\ \A u \in Tasks : u # t => at'[u] = at[u]
BY DEF TypeOK, Goes, Steps

\* A step by the one writer keeps him alone.
LEMMA StaysAlone ==
    ASSUME TypeOK, Alone, NEW t \in Tasks, NEW s \in Steps, Goes(t, s),
           Changes(at[t]) \/ ~Changes(s), UNCHANGED late
    PROVE  Alone'
<1>1. at'[t] = s /\ \A u \in Tasks : u # t => at'[u] = at[u]
  BY Going
<1> QED BY <1>1 DEF Alone

\* Who begins to change the directories alone is alone.
LEMMA BeginsAlone ==
    ASSUME TypeOK, Alone, ~exposed', Overlap, UNCHANGED late
    PROVE  Alone'
<1>1. ~Crowded(at')
  BY DEF Overlap
<1> QED BY <1>1 DEF Crowded, Alone

\* The others do not change the directories while one does.
LEMMA Others ==
    ASSUME Alone, NEW t \in Tasks, Changes(at[t]), NEW u \in Tasks, u # t
    PROVE  ~Changes(at[u])
BY DEF Alone

\* A task that stays where it is, and changes nothing, is fine as long as its game has its
\* runtime.
LEMMA OtherFine ==
    ASSUME NEW u \in Tasks, Fine(u), at'[u] = at[u], ~Changes(at[u]),
           hit \subseteq hit', at[u] = "using" /\ u \notin hit' => Marked(dest)'
    PROVE  Fine(u)'
BY DEF Fine, Found, Placed, Kept, Sound, Worked, Changes, Installing, Repairing

\* While a task has found the runtime not ready, no undisturbed game has it.
LEMMA NobodyPlays ==
    ASSUME NEW u \in Tasks, Fine(u), ~Marked(dest), u \notin hit
    PROVE  at[u] # "using"
BY DEF Fine, Kept

\* What is taken away does not make a runtime ready.
LEMMA LessUnmarked ==
    ASSUME NEW d, NEW e, e \subseteq d, ~Marked(d)
    PROVE  ~Marked(e)
BY DEF Marked, Verified

\* The step of one writer: the others are fine when the undisturbed games keep their runtime,
\* and the writer is fine when his next step's conditions hold.
LEMMA WriterSteps ==
    ASSUME TypeOK, Orderly, NEW t \in Tasks, NEW s \in Steps, Goes(t, s), Changes(at[t]),
           UNCHANGED late, hit \subseteq hit',
           LeftBehind', Placed(s)', s = "using" /\ t \notin hit' => Marked(dest)',
           t \notin hit' => Worked(s)',
           \A u \in Tasks : at[u] = "using" /\ u \notin hit' => Marked(dest)'
    PROVE  Orderly'
<1>1. at'[t] = s /\ \A u \in Tasks : u # t => at'[u] = at[u]
  BY Going
<1>2. Alone'
  BY StaysAlone DEF Orderly
<1>3. Fine(t)'
  BY <1>1 DEF Fine, Found, Kept, Sound, Placed, Worked
<1>4. ASSUME NEW u \in Tasks, u # t PROVE Fine(u)'
  <2>1. ~Changes(at[u]) /\ Fine(u)
    BY <1>4, Others DEF Orderly
  <2> QED BY <1>1, <1>4, <2>1, OtherFine
<1> QED BY <1>2, <1>3, <1>4 DEF Orderly

\* The step of a task that changes nothing and does not begin to.
LEMMA ReaderSteps ==
    ASSUME TypeOK, Orderly, NEW t \in Tasks, NEW s \in Steps, Goes(t, s), ~Changes(at[t]),
           ~Changes(s), s # "failed", UNCHANGED <<disk, late, hit, todo>>,
           s = "using" => Marked(dest)
    PROVE  Orderly'
<1>1. at'[t] = s /\ \A u \in Tasks : u # t => at'[u] = at[u]
  BY Going
<1>2. Alone'
  BY StaysAlone DEF Orderly
<1>3. Fine(t)'
  BY <1>1 DEF Fine, Found, Kept, Sound, Placed, Worked, Changes, Installing, Repairing, disk
<1>4. ASSUME NEW u \in Tasks, u # t PROVE Fine(u)'
  BY <1>1, <1>4 DEF Orderly, Fine, Found, Kept, Sound, Placed, Worked, disk
<1>5. LeftBehind'
  BY DEF Orderly, LeftBehind, disk
<1> QED BY <1>2, <1>3, <1>4, <1>5 DEF Orderly

\* The step of a task that begins to change the directories.
LEMMA BeginnerSteps ==
    ASSUME TypeOK, Orderly, NEW t \in Tasks, NEW s \in {"check", "cleanTemp"}, Goes(t, s),
           Overlap, ~exposed', UNCHANGED <<disk, late, hit, todo>>, ~Marked(dest)
    PROVE  Orderly'
<1>1. at'[t] = s /\ \A u \in Tasks : u # t => at'[u] = at[u]
  BY Going DEF Steps, Installing, Repairing
<1>2. Alone'
  BY BeginsAlone DEF Orderly
<1>3. Fine(t)'
  BY <1>1 DEF Fine, Found, Kept, Sound, Placed, Worked, disk
<1>4. ASSUME NEW u \in Tasks, u # t PROVE Fine(u)'
  BY <1>1, <1>4 DEF Orderly, Fine, Found, Kept, Sound, Placed, Worked, disk
<1>5. LeftBehind'
  BY DEF Orderly, LeftBehind, disk
<1> QED BY <1>2, <1>3, <1>4, <1>5 DEF Orderly

-----------------------------------------------------------------------------
(* Types.                                                                  *)

LEMMA InitTyped == Init => TypeOK
<1> SUFFICES ASSUME Init PROVE TypeOK
  OBVIOUS
<1>1. at \in [Tasks -> Installing \union Repairing \union Over \union {"idle", "ensure", "wait"}]
  BY DEF Init
<1>2. dest \subseteq Marks \union Files /\ temp \subseteq Marks \union Files
  BY DEF Init
<1>3. mishaps \in Nat /\ crashes \in Nat
  BY DEF Init
<1> QED BY <1>1, <1>2, <1>3 DEF Init, TypeOK

LEMMA DoesTyped ==
    ASSUME TypeOK, NEW o \in Operations \union {"files"}, Does(o)
    PROVE  dest' \subseteq Marks \union Files /\ temp' \subseteq Marks \union Files
BY DEF TypeOK, Does, Operations, After, Marks

LEMMA RemoveTyped ==
    ASSUME TypeOK, NEW o, RemoveEntry(o)
    PROVE  dest' \subseteq dest /\ temp' \subseteq temp
BY DEF TypeOK, RemoveEntry

LEMMA NextTyped == TypeOK /\ [Next]_vars => TypeOK'
<1> SUFFICES ASSUME TypeOK, [Next]_vars PROVE TypeOK'
  OBVIOUS
<1> USE DEF disk, bounds, Installing, Repairing, Over
<1>1. ASSUME NEW l \in Launches, Preflight(l) \/ Repair(l) \/ GameEnds(l) PROVE TypeOK'
  BY <1>1 DEF TypeOK, Preflight, Overlap, Repair, RepairCheck, RepairStrip, RepairWrite,
              RepairRecheck, Blocks, GameEnds, Goes, Tasks, Marks
<1>2. ASSUME NEW p \in Pipelines, Spawn(p) PROVE TypeOK'
  BY <1>2 DEF TypeOK, Spawn, Goes, Tasks
<1>3. ASSUME NEW t \in Tasks, Ensure(t) \/ Lock(t) \/ Fail(t) \/ Abort(t) PROVE TypeOK'
  <2>1. CASE Ensure(t)
    BY <2>1 DEF TypeOK, Ensure, Goes, Got
  <2>2. CASE Lock(t)
    BY <2>2 DEF TypeOK, Lock, Overlap, Goes, Got
  <2>3. CASE Fail(t)
    BY <2>3 DEF TypeOK, Fail, Errs, Goes
  <2>4. CASE Abort(t)
    <3>1. late' \subseteq Operations \union {"files"}
      BY <2>4 DEF TypeOK, Abort, Operations, After
    <3> QED BY <2>4, <3>1 DEF TypeOK, Abort, Goes
  <2> QED BY <1>3, <2>1, <2>2, <2>3, <2>4
<1>4. ASSUME NEW t \in Tasks, Install(t) PROVE TypeOK'
  <2>1. CASE Operate(t)
    <3>1. dest' \subseteq Marks \union Files /\ temp' \subseteq Marks \union Files
      BY <2>1, DoesTyped, RemoveTyped DEF Operate, TypeOK
    <3>2. at' \in [Tasks -> Installing \union Repairing \union Over \union {"idle", "ensure", "wait"}]
      BY <2>1 DEF Operate, TypeOK, Goes, Operations, After
    <3> QED BY <2>1, <3>1, <3>2 DEF Operate, TypeOK
  <2>2. CASE InstallFile(t)
    BY <2>2 DEF TypeOK, InstallFile, Marks
  <2>3. CASE FilesInstalled(t) \/ Stumble(t) \/ Undo(t) \/ Confirm(t)
    BY <2>3 DEF TypeOK, FilesInstalled, Stumble, Errs, Undo, Confirm, Goes, Got
  <2> QED BY <1>4, <2>1, <2>2, <2>3 DEF Install
<1>5. ASSUME NEW o \in Operations \union {"files"}, Late(o) PROVE TypeOK'
  <2>1. dest' \subseteq Marks \union Files /\ temp' \subseteq Marks \union Files
    BY <1>5, DoesTyped, RemoveTyped DEF Late, TypeOK
  <2> QED BY <1>5, <2>1 DEF Late, TypeOK
<1>6. CASE SuppressionEnds
  BY <1>6 DEF TypeOK, SuppressionEnds
<1>7. CASE Damage
  BY <1>7 DEF TypeOK, Damage
<1>8. CASE Crash
  BY <1>8 DEF TypeOK, Crash, Unlocked
<1>9. CASE UNCHANGED vars
  BY <1>9 DEF TypeOK, vars
<1> QED BY <1>1, <1>2, <1>3, <1>4, <1>5, <1>6, <1>7, <1>8, <1>9 DEF Next

-----------------------------------------------------------------------------
(* Every step of an orderly state that is not exposed leads to one.        *)

\* Nobody plays undisturbed on what is not ready.
LEMMA NoGames ==
    ASSUME Orderly, ~Marked(dest), hit \subseteq hit'
    PROVE  \A u \in Tasks : at[u] = "using" /\ u \notin hit' => Marked(dest)'
BY NobodyPlays DEF Orderly

\* The games keep their runtime when the component's directory stays as it is.
LEMMA GamesStay ==
    ASSUME Orderly, hit \subseteq hit', UNCHANGED dest
    PROVE  \A u \in Tasks : at[u] = "using" /\ u \notin hit' => Marked(dest)'
BY DEF Orderly, Fine, Kept

\* A writer leaves nothing to those that are gone.
LEMMA NothingLeft ==
    ASSUME Orderly, NEW t \in Tasks, Changes(at[t])
    PROVE  late = {}
BY DEF Orderly, Alone

LEMMA WriterLeaves ==
    ASSUME Orderly, NEW t \in Tasks, Changes(at[t]), UNCHANGED late, "installing" \notin dest'
    PROVE  LeftBehind'
BY NothingLeft DEF LeftBehind

LEMMA RepairOrderly ==
    ASSUME TypeOK, Orderly, NEW l \in Launches, Repair(l)
    PROVE  Orderly'
<1> USE DEF disk, Steps, Installing, Repairing, Over
<1>1. l \in Tasks /\ Changes(at[l])
  BY DEF Tasks, Repair, RepairCheck, RepairStrip, RepairWrite, RepairRecheck, Changes
<1>2. Found(l) /\ "installing" \notin dest /\ hit' = hit /\ UNCHANGED late
  BY <1>1 DEF Orderly, Fine, LeftBehind, Repair, RepairCheck, RepairStrip, RepairWrite,
              RepairRecheck
<1>3. CASE RepairCheck(l)
  <2>1. PICK s \in {"strip", "ended"} : Goes(l, s)
    BY <1>3 DEF RepairCheck, Blocks
  <2>2. UNCHANGED <<dest, temp, hit>> /\ ~Marked(dest)
    BY <1>2, <1>3 DEF RepairCheck, Found, Placed
  <2> QED BY <1>1, <1>2, <2>1, <2>2, WriterLeaves, GamesStay, WriterSteps DEF Placed, Worked
<1>4. CASE RepairStrip(l)
  <2>1. PICK s \in {"write", "ended"} : Goes(l, s) /\ (s = "write" => "ready" \notin dest')
    BY <1>4 DEF RepairStrip, Blocks
  <2>2. ~Marked(dest) /\ "installing" \notin dest'
    BY <1>2, <1>4 DEF RepairStrip, Found, Placed
  <2> QED BY <1>1, <1>2, <2>1, <2>2, WriterLeaves, NoGames, WriterSteps DEF Placed, Worked
<1>5. CASE RepairWrite(l)
  <2>1. PICK s \in {"recheck", "ended"} : Goes(l, s)
    BY <1>5 DEF RepairWrite, Blocks
  <2>2. "installing" \notin dest' /\ ~Marked(dest)
    BY <1>2, <1>5 DEF RepairWrite, Found, Placed, Marked
  <2> QED BY <1>1, <1>2, <2>1, <2>2, WriterLeaves, NoGames, WriterSteps DEF Placed, Worked
<1>6. CASE RepairRecheck(l)
  <2>1. PICK s \in {"ensure", "ended"} : Goes(l, s)
    BY <1>6 DEF RepairRecheck
  <2>2. UNCHANGED <<dest, temp, hit>>
    BY <1>6 DEF RepairRecheck
  <2> QED BY <1>1, <1>2, <2>1, <2>2, WriterLeaves, GamesStay, WriterSteps DEF Placed, Worked
<1> QED BY <1>3, <1>4, <1>5, <1>6 DEF Repair

LEMMA AskingOrderly ==
    ASSUME TypeOK, Orderly, ~exposed', NEW t \in Tasks,
           \/ Ensure(t) \/ Lock(t)
           \/ t \in Launches /\ (Preflight(t) \/ GameEnds(t))
           \/ t \in Pipelines /\ Spawn(t)
    PROVE  Orderly'
<1> USE DEF disk, Steps, Installing, Repairing, Over
<1>1. "installing" \notin dest
  BY DEF Orderly, LeftBehind
<1>2. CASE Ensure(t)
  <2>1. PICK s \in {"using", "ended", "wait"} : Goes(t, s) /\ (s = "using" => Marked(dest))
    BY <1>2 DEF Ensure, Got, Ready
  <2> QED BY <1>2, <2>1, ReaderSteps DEF Ensure, Changes
<1>3. CASE Lock(t)
  <2>1. CASE Settled
    <3>1. PICK s \in {"using", "ended"} : Goes(t, s) /\ Marked(dest)
      BY <1>3, <2>1 DEF Lock, Got, Settled, Ready
    <3> QED BY <1>3, <3>1, ReaderSteps DEF Lock, Changes
  <2>2. CASE ~Settled
    <3>1. Goes(t, "cleanTemp") /\ ~Marked(dest)
      BY <1>1, <1>3, <2>2 DEF Lock, Settled, Ready
    <3> QED BY <1>3, <3>1, BeginnerSteps DEF Lock
  <2> QED BY <2>1, <2>2
<1>4. CASE t \in Launches /\ Preflight(t)
  <2>1. CASE Goes(t, "check") /\ ~Marked(dest)
    BY <1>4, <2>1, BeginnerSteps DEF Preflight
  <2>2. CASE \E s \in {"ensure", "ended"} : Goes(t, s)
    BY <1>4, <2>2, ReaderSteps DEF Preflight, Changes
  <2> QED BY <1>4, <2>1, <2>2 DEF Preflight
<1>5. CASE t \in Launches /\ GameEnds(t)
  BY <1>5, ReaderSteps DEF GameEnds, Changes
<1>6. CASE t \in Pipelines /\ Spawn(t)
  BY <1>6, ReaderSteps DEF Spawn, Changes
<1> QED BY <1>2, <1>3, <1>4, <1>5, <1>6

LEMMA OperateOrderly ==
    ASSUME TypeOK, Orderly, NEW t \in Tasks, Operate(t)
    PROVE  Orderly'
<1> USE DEF disk, Steps, Installing, Repairing, Over
<1>1. Changes(at[t]) /\ at[t] \in Operations /\ hit' = hit /\ UNCHANGED late
  BY DEF Operate, Operations, After, Changes
<1>2. Found(t) /\ Sound(t) /\ "installing" \notin dest
  BY DEF Orderly, Fine, LeftBehind
<1>3. ~Marked(dest)
  BY <1>1, <1>2 DEF Found, Placed, Operations, After
<1>4. \A u \in Tasks : at[u] = "using" /\ u \notin hit' => Marked(dest)'
  BY <1>1, <1>3, NoGames
<1>5. CASE RemoveEntry(at[t]) /\ UNCHANGED at
  <2>1. dest' \subseteq dest /\ at[t] \in {"cleanTemp", "cleanDest"}
    BY <1>5 DEF RemoveEntry
  <2>2. Goes(t, at[t]) /\ at[t] \in Steps
    BY <1>5, <2>1 DEF Goes, TypeOK
  <2>3. ~Marked(dest')
    BY <1>3, <2>1, LessUnmarked
  <2>4. LeftBehind'
    BY <1>1, <1>2, <2>1, WriterLeaves
  <2>5. PICK s \in {"cleanTemp", "cleanDest"} : s = at[t]
    BY <2>1
  <2>6. Placed(s)' /\ Worked(s)'
    BY <2>3 DEF Placed, Worked
  <2> QED BY <1>1, <1>4, <2>2, <2>4, <2>5, <2>6, WriterSteps
<1>6. CASE Does(at[t]) /\ Goes(t, After[at[t]])
  <2>1. CASE at[t] = "cleanTemp"
    <3>1. Goes(t, "cleanDest") /\ dest' = dest
      BY <1>6, <2>1 DEF Does, After
    <3>2. LeftBehind' /\ Placed("cleanDest")' /\ Worked("cleanDest")'
      BY <1>1, <1>2, <1>3, <3>1, WriterLeaves DEF Placed, Worked
    <3> QED BY <1>1, <1>4, <3>1, <3>2, WriterSteps
  <2>2. CASE at[t] = "cleanDest"
    <3>1. Goes(t, "make") /\ dest' = {}
      BY <1>6, <2>2 DEF Does, After
    <3>2. ~Marked(dest')
      BY <3>1 DEF Marked
    <3>3. LeftBehind' /\ Placed("make")' /\ Worked("make")'
      BY <1>1, <3>1, <3>2, WriterLeaves DEF Placed, Worked
    <3> QED BY <1>1, <1>4, <3>1, <3>3, WriterSteps
  <2>3. CASE at[t] = "make"
    <3>1. Goes(t, "mark") /\ dest' = dest /\ temp' = temp \union {"dir"}
      BY <1>6, <2>3 DEF Does, After
    <3>2. LeftBehind' /\ Placed("mark")' /\ (t \notin hit => Worked("mark")')
      BY <1>1, <1>2, <1>3, <2>3, <3>1, WriterLeaves DEF Placed, Worked, Sound
    <3> QED BY <1>1, <1>4, <3>1, <3>2, WriterSteps
  <2>4. CASE at[t] = "mark"
    <3>1. Goes(t, "proof") /\ dest' = dest /\ temp' = temp \union {"installing"}
      BY <1>6, <2>4 DEF Does, After
    <3>2. LeftBehind' /\ Placed("proof")' /\ (t \notin hit => Worked("proof")')
      BY <1>1, <1>2, <1>3, <2>4, <3>1, WriterLeaves DEF Placed, Worked, Sound
    <3> QED BY <1>1, <1>4, <3>1, <3>2, WriterSteps
  <2>5. CASE at[t] = "proof"
    <3>1. Goes(t, "files") /\ dest' = dest /\ temp' = temp \union {"proof"} /\ todo' = Files
      BY <1>6, <2>5 DEF Does, After, Operate
    <3>2. LeftBehind' /\ Placed("files")' /\ (t \notin hit => Worked("files")')
      BY <1>1, <1>2, <1>3, <2>5, <3>1, WriterLeaves DEF Placed, Worked, Sound
    <3> QED BY <1>1, <1>4, <3>1, <3>2, WriterSteps
  <2>6. CASE at[t] = "unmark"
    <3>1. Goes(t, "seal") /\ dest' = dest /\ temp' = temp \ {"installing"}
      BY <1>6, <2>6 DEF Does, After
    <3>2. t \notin hit => Files \subseteq temp'
      BY <1>2, <2>6, <3>1, RuntimeAssumption DEF Sound, Worked, Marks
    <3>3. LeftBehind' /\ Placed("seal")' /\ (t \notin hit => Worked("seal")')
      BY <1>1, <1>2, <1>3, <2>6, <3>1, <3>2, WriterLeaves DEF Placed, Worked, Sound
    <3> QED BY <1>1, <1>4, <3>1, <3>3, WriterSteps
  <2>7. CASE at[t] = "seal"
    <3>1. Goes(t, "place") /\ dest' = dest /\ temp' = temp \union {"ready"}
      BY <1>6, <2>7 DEF Does, After
    <3>2. LeftBehind' /\ Placed("place")' /\ (t \notin hit => Worked("place")')
      BY <1>1, <1>2, <1>3, <2>7, <3>1, WriterLeaves DEF Placed, Worked, Sound, Found
    <3> QED BY <1>1, <1>4, <3>1, <3>2, WriterSteps
  <2>8. CASE at[t] = "place"
    <3>1. Goes(t, "confirm") /\ dest' = temp
      BY <1>6, <2>8 DEF Does, After
    <3>2. t \notin hit => Marked(temp)
      BY <1>2, <2>8 DEF Sound, Worked, Marked, Verified
    <3>3. LeftBehind' /\ Placed("confirm")' /\ (t \notin hit => Worked("confirm")')
      BY <1>1, <1>2, <2>8, <3>1, <3>2, WriterLeaves DEF Placed, Worked, Found
    <3> QED BY <1>1, <1>4, <3>1, <3>3, WriterSteps
  <2> QED BY <1>1, <2>1, <2>2, <2>3, <2>4, <2>5, <2>6, <2>7, <2>8 DEF Operations, After
<1> QED BY <1>5, <1>6 DEF Operate

LEMMA FilesOrderly ==
    ASSUME TypeOK, Orderly, NEW t \in Tasks, InstallFile(t) \/ FilesInstalled(t)
    PROVE  Orderly'
<1> USE DEF disk, Steps, Installing, Repairing, Over
<1>1. at[t] = "files" /\ Changes(at[t]) /\ UNCHANGED <<dest, late, hit>>
  BY DEF InstallFile, FilesInstalled, Changes
<1>2. Found(t) /\ Sound(t) /\ "installing" \notin dest
  BY DEF Orderly, Fine, LeftBehind
<1>3. \A u \in Tasks : at[u] = "using" /\ u \notin hit' => Marked(dest)'
  BY <1>1, GamesStay
<1>4. LeftBehind'
  BY <1>1, <1>2, WriterLeaves
<1>5. CASE InstallFile(t)
  <2>1. Goes(t, "files")
    BY <1>1, <1>5 DEF InstallFile, Goes, TypeOK
  <2>2. PICK f \in todo : temp' = temp \union {"dir", f} /\ todo' = todo \ {f}
    BY <1>5 DEF InstallFile
  <2>3. Placed("files")' /\ (t \notin hit => Worked("files")')
    BY <1>1, <1>2, <2>2 DEF Found, Placed, Sound, Worked
  <2> QED BY <1>1, <1>3, <1>4, <2>1, <2>3, WriterSteps
<1>6. CASE FilesInstalled(t)
  <2>1. PICK s \in {"unmark", "undo"} : Goes(t, s) /\ (s = "undo" => Java \notin temp)
    BY <1>6 DEF FilesInstalled
  <2>2. UNCHANGED temp /\ todo = {}
    BY <1>6 DEF FilesInstalled
  <2>3. Placed(s)' /\ (t \notin hit => Worked(s)')
    BY <1>1, <1>2, <2>1, <2>2, RuntimeAssumption DEF Found, Placed, Sound, Worked
  <2> QED BY <1>1, <1>3, <1>4, <2>1, <2>3, WriterSteps
<1> QED BY <1>5, <1>6

LEMMA EndingOrderly ==
    ASSUME TypeOK, Orderly, ~exposed', NEW t \in Tasks,
           Stumble(t) \/ Fail(t) \/ Undo(t) \/ Confirm(t)
    PROVE  Orderly'
<1> USE DEF disk, Steps, Installing, Repairing, Over
<1>1. Changes(at[t]) /\ UNCHANGED <<dest, late>> /\ hit \subseteq hit'
  BY DEF Stumble, Fail, Errs, Undo, Confirm, Changes
<1>2. Found(t) /\ Sound(t) /\ "installing" \notin dest
  BY DEF Orderly, Fine, LeftBehind
<1>3. \A u \in Tasks : at[u] = "using" /\ u \notin hit' => Marked(dest)'
  BY <1>1, GamesStay
<1>4. LeftBehind'
  BY <1>1, <1>2, WriterLeaves
<1>5. CASE Stumble(t)
  <2>1. t \in hit /\ UNCHANGED <<temp, hit>>
    BY <1>2, <1>5 DEF Stumble, Refused, Emptied, Sound, Worked
  <2>2. PICK s \in {"failed", "undo"} : Goes(t, s)
    BY <1>5 DEF Stumble, Refused, Errs
  <2>3. Placed(s)'
    BY <1>1, <1>2, <1>5, <2>2 DEF Placed, Found, Stumble, Refused
  <2> QED BY <1>1, <1>3, <1>4, <2>1, <2>2, <2>3, WriterSteps
<1>6. CASE Fail(t)
  <2>1. t \in hit' /\ UNCHANGED temp
    BY <1>6 DEF Fail
  <2>2. PICK s \in {"failed", "undo"} : Goes(t, s)
    BY <1>6 DEF Fail, Errs
  <2>3. Placed(s)'
    <3>1. s = "undo" => at[t] \in Installing \ {"confirm"}
      BY <1>6, <2>2 DEF Fail, Errs
    <3> QED BY <1>1, <1>2, <2>2, <3>1 DEF Placed, Found
  <2> QED BY <1>1, <1>3, <1>4, <2>1, <2>2, <2>3, WriterSteps
<1>7. CASE Undo(t)
  <2>1. t \in hit /\ hit' = hit /\ Goes(t, "failed")
    BY <1>2, <1>7 DEF Undo, Sound, Worked
  <2>2. Placed("failed")'
    BY DEF Placed
  <2> QED BY <1>1, <1>3, <1>4, <2>1, <2>2, WriterSteps
<1>8. CASE Confirm(t)
  <2>1. PICK s \in {"using", "ended", "failed"} :
            Goes(t, s) /\ (s = "failed" => ~Ready(dest)) /\ (s = "using" => Ready(dest))
    BY <1>8 DEF Confirm, Got
  <2>2. t \notin hit => Marked(dest) /\ Ready(dest)
    BY <1>2, <1>8 DEF Confirm, Sound, Worked, Ready
  <2>3. UNCHANGED <<temp, hit>>
    BY <1>8 DEF Confirm
  <2>4. Placed(s)' /\ (t \notin hit => Worked(s)') /\ (s = "using" /\ t \notin hit => Marked(dest)')
    BY <1>1, <2>1, <2>2, <2>3 DEF Placed, Worked
  <2> QED BY <1>1, <1>3, <1>4, <2>1, <2>3, <2>4, WriterSteps
<1> QED BY <1>5, <1>6, <1>7, <1>8

\* A task leaves, with at most one operation that goes on.
LEMMA AbortOrderly ==
    ASSUME TypeOK, Orderly, NEW t \in Tasks, Abort(t)
    PROVE  Orderly'
<1> USE DEF disk, Steps, Installing, Repairing, Over
<1>1. at[t] \in Installing \union {"wait"} /\ Goes(t, "ended") /\ UNCHANGED <<dest, temp, todo, hit>>
  BY DEF Abort
<1>2. at'[t] = "ended" /\ \A u \in Tasks : u # t => at'[u] = at[u]
  BY <1>1, Going
<1>3. PICK o : \/ late' = late
               \/ /\ late' = late \union {o} /\ at[t] \in Installing \ {"confirm"}
                  /\ o = "place" => at[t] = "place"
  BY DEF Abort, Operations, After
<1>4. Alone'
  <2>1. ~Changes(at'[t])
    BY <1>2 DEF Changes
  <2>2. \A r, s \in Tasks : Changes(at'[r]) /\ Changes(at'[s]) => r = s
    BY <1>2, <2>1 DEF Orderly, Alone
  <2>3. CASE late' = late
    BY <1>2, <2>1, <2>2, <2>3 DEF Orderly, Alone
  <2>4. CASE late' = late \union {o} /\ Changes(at[t])
    <3>1. late' = {o}
      BY <2>4, NothingLeft
    <3>2. \A u \in Tasks : ~Changes(at'[u])
      BY <1>2, <2>1, <2>4, Others DEF Orderly
    <3> QED BY <2>2, <3>1, <3>2 DEF Alone
  <2> QED BY <1>3, <2>3, <2>4 DEF Changes
<1>5. LeftBehind'
  <2>1. CASE late' = late
    BY <1>1, <2>1 DEF Orderly, LeftBehind
  <2>2. CASE late' = late \union {o} /\ at[t] \in Installing \ {"confirm"} /\ (o = "place" => at[t] = "place")
    <3>1. late' = {o} /\ ~Marked(dest) /\ (o = "place" => "installing" \notin temp)
      BY <2>2, NothingLeft DEF Orderly, Fine, Found, Placed, Changes
    <3> QED BY <1>1, <3>1 DEF Orderly, LeftBehind
  <2> QED BY <1>3, <2>1, <2>2
<1>6. ASSUME NEW u \in Tasks PROVE Fine(u)'
  <2>1. CASE u = t
    BY <1>2, <2>1 DEF Fine, Found, Kept, Sound, Placed, Worked
  <2>2. CASE u # t
    BY <1>1, <1>2, <2>2 DEF Orderly, Fine, Found, Kept, Sound, Placed, Worked
  <2> QED BY <2>1, <2>2
<1> QED BY <1>4, <1>5, <1>6 DEF Orderly

\* An operation that goes on finds no writer and no undisturbed game.
LEMMA LateOrderly ==
    ASSUME TypeOK, Orderly, NEW o \in Operations \union {"files"}, Late(o)
    PROVE  Orderly'
<1> USE DEF disk, Steps, Installing, Repairing, Over
<1>1. o \in late /\ UNCHANGED <<at, todo>> /\ hit \subseteq hit' /\ late' \subseteq late
  BY DEF Late
<1>2. /\ \A u \in Tasks : ~Changes(at[u]) /\ Fine(u)
      /\ "installing" \notin dest /\ ~Marked(dest) /\ ("place" \in late => "installing" \notin temp)
  BY <1>1 DEF Orderly, Alone, LeftBehind
<1>3. Alone'
  BY <1>1, <1>2 DEF Orderly, Alone
<1>4. LeftBehind'
  <2>1. CASE Does(o) /\ late' = late \ {o}
    <3>1. late' = {}
      BY <1>1, <2>1 DEF Orderly, Alone
    <3>2. dest' \subseteq dest \/ (o = "place" /\ dest' = temp)
      BY <2>1 DEF Does, Operations, After
    <3> QED BY <1>1, <1>2, <3>1, <3>2 DEF LeftBehind
  <2>2. CASE RemoveEntry(o) /\ UNCHANGED late
    <3>1. dest' \subseteq dest /\ temp' \subseteq temp
      BY <2>2, RemoveTyped
    <3> QED BY <1>2, <2>2, <3>1, LessUnmarked DEF LeftBehind
  <2>3. CASE UNCHANGED disk /\ late' = late \ {o}
    BY <1>2, <2>3 DEF LeftBehind
  <2> QED BY <2>1, <2>2, <2>3 DEF Late
<1>5. ASSUME NEW u \in Tasks PROVE Fine(u)'
  BY <1>1, <1>2, OtherFine, NobodyPlays
<1> QED BY <1>3, <1>4, <1>5 DEF Orderly

LEMMA DamageOrderly ==
    ASSUME TypeOK, Orderly, Damage
    PROVE  Orderly'
<1> USE DEF disk
<1>1. /\ UNCHANGED <<temp, at, todo, late>> /\ dest' \subseteq dest
      /\ hit' = hit \union {t \in Tasks : at[t] \in Installing \union {"using"}}
      /\ dest # {}
  BY DEF Damage
<1>2. Alone'
  BY <1>1 DEF Orderly, Alone
<1>3. ~Marked(dest) => ~Marked(dest')
  BY <1>1, LessUnmarked
<1>4. LeftBehind'
  BY <1>1, <1>3 DEF Orderly, LeftBehind
<1>5. ASSUME NEW u \in Tasks PROVE Fine(u)'
  <2>1. Fine(u) /\ at'[u] = at[u]
    BY <1>1 DEF Orderly
  <2>2. Found(u)'
    BY <1>1, <1>3, <2>1 DEF Fine, Found, Placed
  <2>3. Kept(u)'
    BY <1>1, <2>1 DEF Kept
  <2>4. Sound(u)'
    BY <1>1, <2>1 DEF Fine, Sound, Worked, Installing
  <2> QED BY <2>2, <2>3, <2>4 DEF Fine
<1> QED BY <1>2, <1>4, <1>5 DEF Orderly

LEMMA CrashOrderly ==
    ASSUME TypeOK, Orderly, Crash
    PROVE  Orderly'
BY DEF Orderly, Crash, Alone, LeftBehind, Fine, Found, Kept, Sound, Placed, Worked, Changes,
       Installing, Repairing, disk

-----------------------------------------------------------------------------
(* The theorems.                                                           *)

LEMMA InitIInv == Init => IInv
<1> SUFFICES ASSUME Init PROVE Orderly
  BY InitTyped DEF IInv
<1> QED BY DEF Init, Orderly, Alone, LeftBehind, Fine, Found, Kept, Sound, Placed, Worked,
               Changes, Installing, Repairing, Marked, Verified

LEMMA NextIInv == IInv /\ [Next]_vars => IInv'
<1> SUFFICES ASSUME IInv, [Next]_vars, ~exposed' PROVE Orderly'
  BY NextTyped DEF IInv
<1>1. TypeOK /\ Orderly
  <2>1. exposed => exposed'
    BY DEF Next, Preflight, Repair, RepairCheck, RepairStrip, RepairWrite, RepairRecheck,
           GameEnds, Spawn, Ensure, Lock, Install, Operate, InstallFile, FilesInstalled, Stumble,
           Undo, Confirm, Fail, Abort, Late, SuppressionEnds, Damage, Crash, Overlap, vars
  <2> QED BY <2>1 DEF IInv
<1>2. ASSUME NEW l \in Launches, Preflight(l) \/ Repair(l) \/ GameEnds(l) PROVE Orderly'
  <2>1. l \in Tasks
    BY DEF Tasks
  <2> QED BY <1>1, <1>2, <2>1, RepairOrderly, AskingOrderly
<1>3. ASSUME NEW p \in Pipelines, Spawn(p) PROVE Orderly'
  <2>1. p \in Tasks
    BY DEF Tasks
  <2> QED BY <1>1, <1>3, <2>1, AskingOrderly
<1>4. ASSUME NEW t \in Tasks, Ensure(t) \/ Lock(t) PROVE Orderly'
  BY <1>1, <1>4, AskingOrderly
<1>5. ASSUME NEW t \in Tasks, Install(t) \/ Fail(t) PROVE Orderly'
  BY <1>1, <1>5, OperateOrderly, FilesOrderly, EndingOrderly DEF Install
<1>6. ASSUME NEW t \in Tasks, Abort(t) PROVE Orderly'
  BY <1>1, <1>6, AbortOrderly
<1>7. ASSUME NEW o \in Operations \union {"files"}, Late(o) PROVE Orderly'
  BY <1>1, <1>7, LateOrderly
<1>8. CASE SuppressionEnds \/ UNCHANGED vars
  BY <1>1, <1>8 DEF SuppressionEnds, vars, disk, bounds, Orderly, Alone, LeftBehind, Fine, Found,
                    Kept, Sound, Placed, Worked
<1>9. CASE Damage \/ Crash
  BY <1>1, <1>9, DamageOrderly, CrashOrderly
<1> QED BY <1>2, <1>3, <1>4, <1>5, <1>6, <1>7, <1>8, <1>9 DEF Next

\* The inductive invariant: until two writers meet, or an installing marker stays behind,
\* each task has found the runtime as its step requires and an undisturbed game has it.
THEOREM Invariance == Spec => []IInv
<1> QED BY InitIInv, NextIInv, PTL DEF Spec

\* The variables keep their types.
THEOREM TypeCorrect == Spec => []TypeOK
<1>1. IInv => TypeOK
  BY DEF IInv
<1> QED BY <1>1, Invariance, PTL

\* RuntimeKept: until two tasks have changed the directory at a time (two installers, or
\* a repair that marks it ready beneath one), or an installing marker stayed behind, no
\* installation, of another launch or of a version install, removes a runtime a game has
\* resolved without the lock.
THEOREM GameKeepsRuntime == Spec => []RuntimeKept
<1>1. IInv => RuntimeKept
  BY DEF IInv, RuntimeKept, Orderly, Fine, Kept, Marked, Tasks
<1> QED BY <1>1, Invariance, PTL

\* LeftoversHarmless: as long as no two tasks have changed the directory at a time and no
\* installing marker stayed behind, an installation that no error and nothing from outside
\* disturbs does not fail, whatever was left on the disk before it.
THEOREM CleansUp == Spec => []LeftoversHarmless
<1>1. IInv => LeftoversHarmless
  BY DEF IInv, LeftoversHarmless, Orderly, Fine, Sound, Worked
<1> QED BY <1>1, Invariance, PTL

=============================================================================

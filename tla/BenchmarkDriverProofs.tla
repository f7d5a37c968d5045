------------------------ MODULE BenchmarkDriverProofs ------------------------
(***************************************************************************)
(* What the drivers of a benchmark suite promise for any number of runs,   *)
(* drivers, sessions, clients, crashes and failed writes.                  *)
(*                                                                         *)
(* TypeCorrect:    every variable keeps its type.                          *)
(* OneAtATime:     one driver of the suite has not ended.                  *)
(* StopsSoon:      a stopped driver launches at most the run in flight.    *)
(* ResumesOnce:    automatic resumption happens once.                      *)
(***************************************************************************)
EXTENDS BenchmarkDriver, FiniteSetTheorems, TLAPS

Resumable == Going \union {"interrupted"}
States == Going \union Over \union {"none"}

(* The loop of a driver that has ended has been told to stop.              *)
Told(d) == pc[d] # "none" /\ status[d] \notin Going => stop[d]

(* What it launched after that, it launched in its last turn.              *)
LastTurn(d) ==
    /\ late[d] <= 1
    /\ late[d] = 1 => /\ pc[d] \notin {"top", "decide", "prepare"}
                      /\ pc[d] = "none" \/ stop[d]

(* The copies of the status of d that are not written yet.                 *)
Of(d) == {e \in saving : e.of = d}
Passing(d) == \E e \in Of(d) : e.by = "pass"
Met(d) == \A e \in Of(d), f \in Of(d) : e # f => e.met
PassState(d) == \A e \in Of(d) : e.by = "pass" => e.state = "consumed"

(* d can be resumed again after a restart, or nothing will say so any more. *)
Revivable(d) ==
    \/ status[d] \in Resumable \/ disk[d] \in Resumable
    \/ \E e \in Of(d) : e.state \in Resumable
Settled(d) == disk[d] \notin Resumable /\ \A e \in Of(d) : e.state \notin Resumable

(* Between two resumptions of d a write of the pass has failed or met another. *)
Once(d) ==
    /\ resumed[d] <= missed[d] + 1
    /\ Revivable(d) \/ d \in resuming => resumed[d] <= missed[d]
    /\ d \in resuming => /\ status[d] = "consumed"
                         /\ Passing(d) \/ Settled(d) \/ resumed[d] < missed[d]
    /\ Met(d) /\ PassState(d)

(* New drivers get ids that are neither in memory nor on disk.             *)
Known(d) ==
    /\ d \in pending => status[d] = "interrupted"
    /\ status[d] # "none" => d <= lastDriver
    /\ up /\ disk[d] # "none" => d <= lastDriver
    /\ Of(d) # {} => status[d] # "none"
    /\ ~up => pc[d] = "none" /\ status[d] = "none"

Good(d) == Told(d) /\ LastTurn(d) /\ Once(d) /\ Known(d)
IInv == TypeOK /\ OneDriver /\ \A d \in Drivers : Good(d)

-----------------------------------------------------------------------------
LEMMA InitInv == Init => IInv
<1> SUFFICES ASSUME Init PROVE IInv
    OBVIOUS
<1>1. TypeOK
      BY BenchmarkAssumption
      DEF Init, TypeOK, Manifests, Unnamed, Places, Going, Over, Drivers, Sessions, Launchers
<1>2. ASSUME NEW d \in Drivers PROVE Good(d)
  <2>1. Of(d) = {}
        BY DEF Init, Of
  <2> QED BY <2>1 DEF Init, Good, Told, LastTurn, Once, Met, PassState, Passing, Revivable, Settled,
                      Known, Resumable, Going, Launchers
<1> QED BY <1>1, <1>2 DEF IInv, OneDriver, Init, Going

(* What a copy that joins the ones of its driver changes for it.           *)
Joins(d, by, state) ==
    /\ \A e \in Of(d)' : \/ e.state = state /\ e.by = by
                         \/ \E f \in Of(d) : e.state = f.state /\ e.by = f.by
    /\ Passing(d) \/ by = "pass" => Passing(d)'
    /\ Met(d)'

Distinct(C) == \A c \in C, k \in C : c.of = k.of => c = k

LEMMA PersistFacts ==
    ASSUME TypeOK, NEW C \in SUBSET Copies, Distinct(C), Persist(C)
    PROVE  /\ saving' \subseteq Copies
           /\ \A d \in Drivers : (\A c \in C : c.of # d) => Of(d)' = Of(d)
           /\ \A c \in C : Joins(c.of, c.by, c.state)
<1> DEFINE M(e) == [e EXCEPT !.met = @ \/ Meets(e, C)]
           N(c) == [c EXCEPT !.met = Meets(c, saving)]
<1>0. \A e, S : Meets(e, S) \in BOOLEAN
      BY DEF Meets
<1>1. saving' = {M(e) : e \in saving} \union {N(c) : c \in C} /\ saving \subseteq Copies
      BY DEF Persist, TypeOK
<1>2. \A e \in saving : /\ M(e) \in Copies /\ M(e).of = e.of /\ M(e).by = e.by
                        /\ M(e).state = e.state
                        /\ M(e).met = (e.met \/ Meets(e, C))
      BY <1>0, <1>1 DEF Copies
<1>3. \A c \in C : /\ N(c) \in Copies /\ N(c).of = c.of /\ N(c).by = c.by
                   /\ N(c).state = c.state /\ N(c).met = Meets(c, saving)
      BY <1>0 DEF Copies
<1>4. saving' \subseteq Copies
      BY <1>1, <1>2, <1>3
<1>5. ASSUME NEW d \in Drivers, \A c \in C : c.of # d PROVE Of(d)' = Of(d)
  <2>1. \A e \in Of(d) : M(e) = e
    <3> SUFFICES ASSUME NEW e \in Of(d) PROVE M(e) = e
        OBVIOUS
    <3>1. e \in Copies /\ e.of = d
          BY <1>1 DEF Of
    <3>2. ~Meets(e, C)
          BY <1>5, <3>1 DEF Meets
    <3>3. (e.met \/ Meets(e, C)) = e.met
          BY <3>1, <3>2 DEF Copies
    <3>4. M(e) = [e EXCEPT !.met = e.met]
          BY <3>3
    <3> QED BY <3>1, <3>4 DEF Copies
  <2> HIDE DEF M, N
  <2>2. \A e \in Of(d)' : e \in Of(d)
        BY <1>1, <1>2, <1>3, <1>5, <2>1 DEF Of
  <2>3. \A e \in Of(d) : e \in Of(d)'
        BY <1>1, <2>1 DEF Of
  <2> QED BY <2>2, <2>3
<1>6. ASSUME NEW c \in C PROVE Joins(c.of, c.by, c.state)
  <2> HIDE DEF M, N
  <2>1. N(c) \in Of(c.of)'
        BY <1>1, <1>3 DEF Of
  <2>2. \A e \in Of(c.of) : M(e) \in Of(c.of)'
        BY <1>1, <1>2 DEF Of
  <2>3. ASSUME NEW x \in Of(c.of)' PROVE x = N(c) \/ \E e \in Of(c.of) : x = M(e)
    <3>1. x \in saving' /\ x.of = c.of
          BY DEF Of
    <3>2. CASE \E e \in saving : x = M(e)
          BY <1>2, <3>1, <3>2 DEF Of
    <3>3. CASE \E k \in C : x = N(k)
          BY <1>3, <3>1, <3>3 DEF Distinct
    <3> QED BY <1>1, <3>1, <3>2, <3>3
  <2>4. \A e \in Of(c.of) : e \in saving /\ e.of = c.of
        BY DEF Of
  <2>5. \A x \in Of(c.of)' : \/ x.state = c.state /\ x.by = c.by
                             \/ \E f \in Of(c.of) : x.state = f.state /\ x.by = f.by
        BY <1>2, <1>3, <2>3, <2>4
  <2>6. Passing(c.of) \/ c.by = "pass" => Passing(c.of)'
        BY <1>2, <1>3, <2>1, <2>2, <2>4 DEF Passing
  <2>7. Met(c.of)'
    <3>1. CASE Of(c.of) = {}
          BY <2>3, <3>1 DEF Met
    <3>2. CASE Of(c.of) # {}
      <4>0. Meets(c, saving) /\ \A e \in Of(c.of) : Meets(e, C)
            BY <2>4, <3>2 DEF Meets
      <4>1. N(c).met
            BY <1>3, <4>0, Zenon
      <4>2. \A e \in Of(c.of) : M(e).met
            BY <1>2, <2>4, <4>0, Zenon
      <4> QED BY <2>3, <4>1, <4>2 DEF Met
    <3> QED BY <3>1, <3>2
  <2> QED BY <2>5, <2>6, <2>7 DEF Joins
<1> QED BY <1>4, <1>5, <1>6

LEMMA OneCopy ==
    ASSUME NEW d \in Drivers, NEW by \in Hands, NEW st \in Going \union Over
    PROVE  /\ {Copy(by, d, st)} \in SUBSET Copies /\ Distinct({Copy(by, d, st)})
           /\ Copy(by, d, st).of = d /\ Copy(by, d, st).by = by /\ Copy(by, d, st).state = st
BY DEF Copy, Copies, Distinct

LEMMA PersistOne ==
    ASSUME TypeOK, NEW d \in Drivers, NEW by \in Hands, NEW st \in Going \union Over,
           Persist({Copy(by, d, st)})
    PROVE  /\ saving' \subseteq Copies /\ Joins(d, by, st)
           /\ \A e \in Drivers \ {d} : Of(e)' = Of(e)
<1> DEFINE c == Copy(by, d, st)
<1>1. {c} \in SUBSET Copies /\ Distinct({c}) /\ c.of = d /\ c.by = by /\ c.state = st
      BY OneCopy
<1> HIDE DEF c
<1>2. Persist({c})
      BY DEF c
<1>3. /\ saving' \subseteq Copies /\ Joins(c.of, c.by, c.state)
      /\ \A e \in Drivers : (\A k \in {c} : k.of # e) => Of(e)' = Of(e)
      BY <1>1, <1>2, PersistFacts
<1> QED BY <1>1, <1>3

(* What keeps Once: nothing new to be resumed by.                          *)
LEMMA OnceKept ==
    ASSUME NEW d \in Drivers, Once(d), resumed'[d] = resumed[d], missed'[d] = missed[d],
           disk'[d] = disk[d], d \in resuming' => d \in resuming /\ status'[d] = status[d],
           status'[d] \in Resumable => status[d] \in Resumable,
           \/ Of(d)' = Of(d)
           \/ \E by \in Hands, st \in Going \union Over :
                 /\ Joins(d, by, st)
                 /\ by = "pass" => st = "consumed"
                 /\ st \in Resumable => status[d] \in Resumable
    PROVE  Once(d)'
<1>1. CASE Of(d)' = Of(d)
      BY <1>1 DEF Once, Revivable, Settled, Passing, Met, PassState
<1>2. CASE Of(d)' # Of(d)
  <2>1. PICK by \in Hands, st \in Going \union Over :
           /\ Joins(d, by, st)
           /\ by = "pass" => st = "consumed"
           /\ st \in Resumable => status[d] \in Resumable
        BY <1>2
  <2>2. Met(d)' /\ (Passing(d) => Passing(d)')
        BY <2>1 DEF Joins
  <2>3. PassState(d)'
        BY <2>1 DEF Joins, PassState, Once
  <2>4. Revivable(d)' => Revivable(d)
        BY <2>1 DEF Joins, Revivable
  <2>5. d \in resuming' /\ Settled(d) => Settled(d)'
        BY <2>1 DEF Joins, Settled, Once, Resumable, Going
  <2> QED BY <2>2, <2>3, <2>4, <2>5 DEF Once
<1> QED BY <1>1, <1>2

-----------------------------------------------------------------------------
(* A step of a loop or a request: it moves, and records something of its own driver. *)
Recorded(l) ==
    \/ Kept
    \/ /\ l \in Drivers /\ status[l] \in Going
       /\ \E st \in Going \union {"complete", "failed", "stopped"} :
             /\ status' = [status EXCEPT ![l] = st]
             /\ Persist({Copy("loop", l, st)})
             /\ \/ st \in Going /\ active' = active
                \/ st \notin Going /\ active' = 0 /\ pc'[l] = "none"

Step(l) ==
    /\ up /\ UNCHANGED <<up, stop, lastDriver, Resumption, Files>>
    /\ \E place \in Places : pc' = [pc EXCEPT ![l] = place]
    /\ l \in Drivers => pc[l] # "none" \/ pc'[l] = "none"
    /\ Recorded(l)

LEMMA EndedRecorded ==
    ASSUME TypeOK, NEW l \in Launchers,
           NEW st \in {"complete", "failed", "stopped", "none"}, l \in Drivers => st # "none",
           Ended(l, st)
    PROVE  Recorded(l) /\ \E place \in Places : pc' = [pc EXCEPT ![l] = place]
<1>1. pc' = [pc EXCEPT ![l] = "none"] /\ "none" \in Places
      BY DEF Ended, Moves, Places
<1>2. pc'[l] = "none"
      BY <1>1 DEF TypeOK
<1>3. CASE l \in Drivers /\ status[l] \in Going
  <2>1. status' = [status EXCEPT ![l] = st] /\ Persist({Copy("loop", l, st)}) /\ active' = 0
        BY <1>3 DEF Ended, RecordEnd
  <2> QED BY <1>1, <1>2, <1>3, <2>1 DEF Recorded, Going
<1>4. CASE ~(l \in Drivers /\ status[l] \in Going)
      BY <1>1, <1>4 DEF Ended, RecordEnd, Recorded
<1> QED BY <1>3, <1>4

LEMMA WaitsRecorded ==
    ASSUME TypeOK, NEW d \in Drivers, NEW st \in Going, Waits(d, st)
    PROVE  Recorded(d) /\ \E place \in Places : pc' = [pc EXCEPT ![d] = place]
<1>1. pc' = [pc EXCEPT ![d] = "sleep"] /\ "sleep" \in Places
      BY DEF Waits, Moves, Places
<1>2. CASE status[d] \in Going
  <2>1. status' = [status EXCEPT ![d] = st] /\ Persist({Copy("loop", d, st)}) /\ active' = active
        BY <1>2 DEF Waits, RecordGoing
  <2> QED BY <1>1, <1>2, <2>1 DEF Recorded
<1>3. CASE status[d] \notin Going
      BY <1>1, <1>3 DEF Waits, RecordGoing, Recorded
<1> QED BY <1>2, <1>3

LEMMA MovesRecorded ==
    ASSUME NEW l \in Launchers, NEW place \in Places, Moves(l, place), Kept
    PROVE  Recorded(l) /\ \E q \in Places : pc' = [pc EXCEPT ![l] = q]
BY DEF Moves, Recorded

LEMMA ProceedsRecorded ==
    ASSUME TypeOK, NEW l \in Launchers, Proceeds(l)
    PROVE  Recorded(l) /\ (\E place \in Places : pc' = [pc EXCEPT ![l] = place])
           /\ launched' \in [Launchers -> 0..MaxSessions]
<1>1. launched' \in [Launchers -> 0..MaxSessions]
      BY BenchmarkAssumption DEF Proceeds, TypeOK
<1>2. CASE pc[l] = "reserve"
      BY <1>1, <1>2, MovesRecorded DEF Proceeds, Places
<1>3. CASE pc[l] = "ran" /\ l \in Drivers
      BY <1>1, <1>3, WaitsRecorded DEF Proceeds, Going
<1>4. CASE pc[l] # "reserve" /\ ~(pc[l] = "ran" /\ l \in Drivers)
      BY <1>1, <1>4, EndedRecorded DEF Proceeds
<1> QED BY <1>2, <1>3, <1>4

(* The record types and everything but LastTurn after such a step.         *)
LEMMA StepKeeps ==
    ASSUME IInv, NEW l \in Launchers, Step(l)
    PROVE  /\ status' \in [Drivers -> States] /\ saving' \subseteq Copies
           /\ active' \in 0..MaxDrivers /\ pc' \in [Launchers -> Places]
           /\ OneDriver'
           /\ \A d \in Drivers : Told(d)' /\ Once(d)' /\ Known(d)'
<1>0. PICK place \in Places : pc' = [pc EXCEPT ![l] = place]
      BY DEF Step
<1>1. pc' \in [Launchers -> Places] /\ Drivers \subseteq Launchers
      BY <1>0 DEF IInv, TypeOK, Launchers
<1>2. /\ UNCHANGED <<up, stop, lastDriver, pending, resuming, resumed, disk, missed>> /\ up
      BY DEF Step, Resumption, Files
<1>3. CASE Kept
  <2>1. UNCHANGED <<status, saving, active>>
        BY <1>3 DEF Kept, Records
  <2>2. ASSUME NEW d \in Drivers PROVE Told(d)' /\ Once(d)' /\ Known(d)'
    <3>1. Good(d) /\ Of(d)' = Of(d)
          BY <2>1, <2>2 DEF IInv, Of
    <3>2. pc[d] # "none" \/ pc'[d] = "none"
          BY <1>0, <1>1 DEF Step, IInv, TypeOK
    <3>3. Once(d)'
          BY <1>2, <2>1, <3>1, OnceKept DEF Good
    <3> QED BY <1>2, <2>1, <3>1, <3>2, <3>3 DEF Good, Told, Known
  <2> QED BY <1>1, <2>1, <2>2 DEF IInv, TypeOK, States, OneDriver
<1>4. CASE ~Kept
  <2>0. l \in Drivers /\ status[l] \in Going /\ TypeOK
        BY <1>4 DEF Step, Recorded, IInv
  <2>1. PICK st \in Going \union {"complete", "failed", "stopped"} :
             /\ status' = [status EXCEPT ![l] = st]
             /\ Persist({Copy("loop", l, st)})
             /\ \/ st \in Going /\ active' = active
                \/ st \notin Going /\ active' = 0 /\ pc'[l] = "none"
        BY <1>4 DEF Step, Recorded
  <2>2. status' \in [Drivers -> States] /\ status'[l] = st
        BY <2>0, <2>1 DEF TypeOK, States, Over
  <2>3. st \in Going \union Over /\ "loop" \in Hands
        BY DEF Over, Hands
  <2>4. /\ saving' \subseteq Copies /\ Joins(l, "loop", st)
        /\ \A d \in Drivers \ {l} : Of(d)' = Of(d)
        BY <2>0, <2>1, <2>3, PersistOne
  <2>5. \A d \in Drivers \ {l} : status'[d] = status[d] /\ pc'[d] = pc[d]
        BY <1>0, <1>1, <2>1 DEF IInv, TypeOK
  <2>6. active' \in 0..MaxDrivers
        BY <2>1, BenchmarkAssumption DEF IInv, TypeOK
  <2>7. active = l /\ \A d \in Drivers \ {l} : status[d] \notin Going
        BY <2>0 DEF IInv, OneDriver
  <2>8. OneDriver'
        BY <2>1, <2>2, <2>5, <2>7 DEF OneDriver
  <2>9. ASSUME NEW d \in Drivers \ {l} PROVE Told(d)' /\ Once(d)' /\ Known(d)'
    <3>1. Good(d) /\ Of(d)' = Of(d)
          BY <2>4, <2>9 DEF IInv
    <3>2. Once(d)'
          BY <1>2, <2>5, <2>9, <3>1, OnceKept DEF Good
    <3> QED BY <1>2, <2>5, <2>9, <3>1, <3>2 DEF Good, Told, Known
  <2>10. Told(l)'
        BY <2>1, <2>2 DEF Told
  <2>11. Good(l) /\ l \notin resuming /\ l \notin pending /\ l <= lastDriver
    <3>1. Good(l)
          BY <2>0 DEF IInv
    <3> QED BY <2>0, <3>1 DEF Good, Once, Known, Going
  <2>12. Once(l)'
    <3>1. status[l] \in Resumable
          BY <2>0 DEF Resumable
    <3> QED BY <1>2, <2>0, <2>3, <2>4, <2>11, <3>1, OnceKept DEF Good
  <2>13. Known(l)'
    <3>1. st # "none"
          BY DEF Going
    <3> QED BY <1>2, <2>0, <2>2, <2>11, <3>1 DEF Known, Good
  <2> QED BY <1>1, <2>2, <2>4, <2>6, <2>8, <2>9, <2>10, <2>12, <2>13
<1> QED BY <1>3, <1>4

(* The types of what a step does to the manifest, the sessions and its own data. *)
Data ==
    /\ file \in {"absent", "whole", "torn"} /\ manifest \in Manifests
    /\ session \in [Sessions -> {"none", "queued", "live", "over", "ghost"}]
    /\ lastSession \in 0..MaxSessions
    /\ view \in [Launchers -> Manifests]
    /\ writing \in [Launchers -> {"no", "open", "fill"}]
    /\ pick \in [Launchers -> Nat] /\ launched \in [Launchers -> 0..MaxSessions]
    /\ late \in [Drivers -> Nat]
    /\ crashes \in 0..MaxCrashes /\ requests \in 0..MaxRequests

LEMMA TypeData == TypeOK => Data
BY DEF TypeOK, Data

LEMMA StepInv ==
    ASSUME IInv, NEW l \in Launchers, Step(l), Data',
           \/ late' = late
           \/ l \in Drivers /\ late[l] = 0 /\ stop[l] /\ late' = [late EXCEPT ![l] = 1],
           l \in Drivers /\ late'[l] = 1 => pc'[l] \notin {"top", "decide", "prepare"}
    PROVE  IInv'
<1>1. /\ status' \in [Drivers -> States] /\ saving' \subseteq Copies
      /\ active' \in 0..MaxDrivers /\ pc' \in [Launchers -> Places]
      /\ OneDriver'
      /\ \A d \in Drivers : Told(d)' /\ Once(d)' /\ Known(d)'
      BY StepKeeps
<1>2. TypeOK'
      BY <1>1 DEF IInv, TypeOK, Data, Step, Resumption, Files, States
<1>3. ASSUME NEW d \in Drivers PROVE LastTurn(d)'
  <2>1. Good(d) /\ stop' = stop /\ late \in [Drivers -> Nat]
        BY DEF IInv, TypeOK, Step
  <2>2. d # l => pc'[d] = pc[d] /\ late'[d] = late[d]
        BY <2>1 DEF Step, IInv, TypeOK, Launchers
  <2>3. CASE d # l
        BY <2>1, <2>2, <2>3 DEF Good, LastTurn
  <2>4. CASE d = l /\ late' = late
        BY <2>1, <2>4 DEF Good, LastTurn, Step
  <2>5. CASE d = l /\ late' # late
    <3>1. stop[d] /\ late'[d] = 1
          BY <2>1, <2>5
    <3> QED BY <2>1, <2>5, <3>1 DEF LastTurn
  <2> QED BY <2>3, <2>4, <2>5
<1> QED BY <1>1, <1>2, <1>3 DEF IInv, Good

-----------------------------------------------------------------------------
(* The loop, the requests and the writes.                                  *)

LEMMA LoopTopInv == ASSUME IInv, NEW d \in Drivers, LoopTop(d) PROVE IInv'
<1>1. d \in Launchers /\ TypeOK /\ Data /\ Good(d)
      BY TypeData DEF IInv, Launchers
<1>2. Recorded(d) /\ \E place \in Places : pc' = [pc EXCEPT ![d] = place]
  <2>1. CASE stop[d] \/ ~Readable
        BY <1>1, <2>1, EndedRecorded DEF LoopTop
  <2>2. CASE ~stop[d] /\ Readable
        BY <1>1, <2>2, MovesRecorded DEF LoopTop, Places
  <2> QED BY <2>1, <2>2
<1>3. Step(d) /\ late' = late
      BY <1>1, <1>2 DEF LoopTop, Step, Up
<1>4. Data'
      BY <1>1 DEF LoopTop, Data, Suite, Games, Locals, Bounds
<1>5. late[d] # 1
      BY <1>1 DEF LoopTop, Good, LastTurn
<1> QED BY <1>1, <1>3, <1>4, <1>5, StepInv

LEMMA PicksRecorded ==
    ASSUME TypeOK, NEW l \in Launchers, NEW r \in Runs, Picks(l, r)
    PROVE  /\ Recorded(l) /\ \E place \in Places : pc' = [pc EXCEPT ![l] = place]
           /\ pick' \in [Launchers -> Nat] /\ view' \in [Launchers -> Manifests]
           /\ UNCHANGED <<writing, launched>>
<1>1. Unnamed \in Manifests
      BY BenchmarkAssumption DEF Unnamed, Manifests
<1>2. pick' \in [Launchers -> Nat] /\ view' \in [Launchers -> Manifests]
      BY <1>1 DEF Picks, TypeOK, Runs
<1> QED BY <1>2, MovesRecorded DEF Picks, Places

LEMMA ForgetsData ==
    ASSUME TypeOK, NEW l \in Launchers, Forgets(l)
    PROVE  view' \in [Launchers -> Manifests] /\ UNCHANGED <<writing, pick, launched>>
BY BenchmarkAssumption DEF Forgets, TypeOK, Unnamed, Manifests

LEMMA DecideInv == ASSUME IInv, NEW d \in Drivers, Decide(d) PROVE IInv'
<1>1. d \in Launchers /\ TypeOK /\ Data /\ Good(d)
      BY TypeData DEF IInv, Launchers
<1>2. /\ Recorded(d) /\ \E place \in Places : pc' = [pc EXCEPT ![d] = place]
      /\ pick' \in [Launchers -> Nat] /\ view' \in [Launchers -> Manifests]
      /\ UNCHANGED <<writing, launched>>
  <2>1. CASE Active(view[d])
    <3>1. Waits(d, "active") /\ Forgets(d)
          BY <2>1 DEF Decide
    <3>2. pick' \in [Launchers -> Nat] /\ view' \in [Launchers -> Manifests]
          /\ UNCHANGED <<writing, launched>>
          BY <1>1, <3>1, ForgetsData DEF Data
    <3> QED BY <1>1, <3>1, <3>2, WaitsRecorded DEF Going
  <2>2. CASE ~Active(view[d]) /\ Pending(view[d]) = {}
    <3>1. Ended(d, "complete") /\ Forgets(d)
          BY <2>2 DEF Decide
    <3>2. pick' \in [Launchers -> Nat] /\ view' \in [Launchers -> Manifests]
          /\ UNCHANGED <<writing, launched>>
          BY <1>1, <3>1, ForgetsData DEF Data
    <3> QED BY <1>1, <3>1, <3>2, EndedRecorded
  <2>3. CASE ~Active(view[d]) /\ Pending(view[d]) # {}
    <3>1. PICK r \in Runs : Picks(d, r)
          BY <2>3 DEF Decide
    <3> QED BY <1>1, <3>1, PicksRecorded
  <2> QED BY <2>1, <2>2, <2>3
<1>3. Step(d) /\ late' = late
      BY <1>1, <1>2 DEF Decide, Step, Up
<1>4. Data'
      BY <1>1, <1>2 DEF Decide, Data, Suite, Games, Bounds
<1>5. late[d] # 1
      BY <1>1 DEF Decide, Good, LastTurn
<1> QED BY <1>1, <1>3, <1>4, <1>5, StepInv

LEMMA WakeInv == ASSUME IInv, NEW d \in Drivers, Wake(d) PROVE IInv'
<1>1. d \in Launchers /\ TypeOK /\ Data /\ Good(d)
      BY TypeData DEF IInv, Launchers
<1>2. Recorded(d) /\ \E place \in Places : pc' = [pc EXCEPT ![d] = place]
  <2>1. CASE stop[d]
        BY <1>1, <2>1, EndedRecorded DEF Wake
  <2>2. CASE ~stop[d]
        BY <1>1, <2>2, MovesRecorded DEF Wake, Places
  <2> QED BY <2>1, <2>2
<1>3. Step(d) /\ late' = late
      BY <1>1, <1>2 DEF Wake, Step, Up
<1>4. Data'
      BY <1>1 DEF Wake, Data, Suite, Games, Locals, Bounds
<1>5. late[d] = 1 => pc'[d] \notin {"top", "decide", "prepare"}
  <2>1. CASE stop[d]
    <3>1. pc' = [pc EXCEPT ![d] = "none"]
          BY <2>1 DEF Wake, Ended, Moves
    <3> QED BY <1>1, <3>1 DEF TypeOK
  <2>2. CASE ~stop[d]
        BY <1>1, <2>2 DEF Wake, Good, LastTurn
  <2> QED BY <2>1, <2>2
<1> QED BY <1>1, <1>3, <1>4, <1>5, StepInv

LEMMA ClientLate ==
    ASSUME NEW c \in Clients, TypeOK PROVE c \notin Drivers /\ c \in Launchers
BY BenchmarkAssumption DEF Drivers, Launchers

LEMMA AskInv == ASSUME IInv, NEW c \in Clients, Ask(c) PROVE IInv'
<1>1. c \in Launchers /\ c \notin Drivers /\ TypeOK /\ Data
      BY TypeData, ClientLate DEF IInv
<1>2. /\ Recorded(c) /\ \E place \in Places : pc' = [pc EXCEPT ![c] = place]
      /\ pick' \in [Launchers -> Nat] /\ view' \in [Launchers -> Manifests]
      /\ UNCHANGED <<writing, launched>>
  <2>1. CASE /\ Moves(c, "decide")
             /\ view' = [view EXCEPT ![c] = manifest]
             /\ Kept /\ UNCHANGED <<writing, pick, launched>>
    <3>1. pick' \in [Launchers -> Nat] /\ view' \in [Launchers -> Manifests]
          BY <1>1, <2>1 DEF Data
    <3> QED BY <1>1, <2>1, <3>1, MovesRecorded DEF Places
  <2>2. ASSUME NEW r \in Runs, Picks(c, r) PROVE <1>2!1 /\ <1>2!2 /\ <1>2!3
        BY <1>1, <2>2, PicksRecorded
  <2> QED BY <2>1, <2>2 DEF Ask
<1>3. Step(c) /\ late' = late
      BY <1>1, <1>2 DEF Ask, Step, Up
<1>4. Data'
      BY <1>1, <1>2, BenchmarkAssumption DEF Ask, Data, Suite, Games
<1> QED BY <1>1, <1>3, <1>4, StepInv

LEMMA AnswerInv == ASSUME IInv, NEW c \in Clients, Answer(c) PROVE IInv'
<1>1. c \in Launchers /\ c \notin Drivers /\ TypeOK /\ Data
      BY TypeData, ClientLate DEF IInv
<1>2. /\ Recorded(c) /\ \E place \in Places : pc' = [pc EXCEPT ![c] = place]
      /\ pick' \in [Launchers -> Nat] /\ view' \in [Launchers -> Manifests]
      /\ UNCHANGED <<writing, launched>>
  <2>1. ASSUME Ended(c, "none"), Forgets(c) PROVE <1>2!1 /\ <1>2!2 /\ <1>2!3
    <3>1. pick' \in [Launchers -> Nat] /\ view' \in [Launchers -> Manifests]
          /\ UNCHANGED <<writing, launched>>
          BY <1>1, <2>1, ForgetsData DEF Data
    <3> QED BY <1>1, <2>1, <3>1, EndedRecorded
  <2>2. ASSUME NEW r \in Runs, Picks(c, r) PROVE <1>2!1 /\ <1>2!2 /\ <1>2!3
        BY <1>1, <2>2, PicksRecorded
  <2> QED BY <2>1, <2>2 DEF Answer
<1>3. Step(c) /\ late' = late
      BY <1>1, <1>2 DEF Answer, Step, Up
<1>4. Data'
      BY <1>1, <1>2 DEF Answer, Data, Suite, Games, Bounds
<1> QED BY <1>1, <1>3, <1>4, StepInv

LEMMA PrepareInv == ASSUME IInv, NEW l \in Launchers, Prepare(l) PROVE IInv'
<1>1. TypeOK /\ Data /\ pc[l] = "prepare" /\ up /\ UNCHANGED up
      BY TypeData DEF IInv, Prepare, Up
<1>2. pick' \in [Launchers -> Nat]
      BY <1>1 DEF Prepare, Data
<1>3. l \in Drivers => Good(l) /\ late[l] = 0
      BY <1>1 DEF IInv, Good, LastTurn, Data
<1>4. CASE Ended(l, "failed") /\ UNCHANGED <<Games, view, writing, launched, late>>
  <2>1. Recorded(l) /\ \E place \in Places : pc' = [pc EXCEPT ![l] = place]
        BY <1>1, <1>4, EndedRecorded
  <2>2. Step(l)
        BY <1>1, <2>1 DEF Prepare, Step
  <2>3. Data'
        BY <1>1, <1>2, <1>4 DEF Prepare, Data, Suite, Games, Bounds
  <2> QED BY <1>3, <1>4, <2>2, <2>3, StepInv
<1>5. CASE ~(Ended(l, "failed") /\ UNCHANGED <<Games, view, writing, launched, late>>)
  <2>1. /\ lastSession < MaxSessions /\ lastSession' = lastSession + 1
        /\ session' = [session EXCEPT ![lastSession'] = "queued"]
        /\ late' = IF l \in Drivers /\ status[l] \notin Going
                   THEN [late EXCEPT ![l] = @ + 1] ELSE late
        BY <1>5 DEF Prepare
  <2>2. lastSession' \in 0..MaxSessions
        /\ session' \in [Sessions -> {"none", "queued", "live", "over", "ghost"}]
    <3>1. lastSession' \in 0..MaxSessions
          BY <1>1, <2>1, BenchmarkAssumption DEF Data
    <3>2. session' = [session EXCEPT ![lastSession'] = "queued"]
          BY <2>1
    <3>3. session' \in [Sessions -> {"none", "queued", "live", "over", "ghost"}]
          BY <1>1, <3>2 DEF Data
    <3> QED BY <3>1, <3>3
  <2>3. \/ late' = late
        \/ l \in Drivers /\ late[l] = 0 /\ stop[l] /\ late' = [late EXCEPT ![l] = 1]
    <3>1. CASE l \in Drivers /\ status[l] \notin Going
      <4>1. stop[l] /\ late[l] = 0
            BY <1>1, <1>3, <3>1 DEF Good, Told
      <4>2. late' = [late EXCEPT ![l] = late[l] + 1]
            BY <2>1, <3>1
      <4>3. late[l] + 1 = 1
            BY <4>1
      <4>4. late' = [late EXCEPT ![l] = 1]
            BY <4>2, <4>3
      <4> QED BY <3>1, <4>1, <4>4
    <3>2. CASE ~(l \in Drivers /\ status[l] \notin Going)
          BY <2>1, <3>2
    <3> QED BY <3>1, <3>2
  <2>4. late' \in [Drivers -> Nat]
        BY <1>1, <2>3 DEF Data
  <2>5. /\ Recorded(l) /\ \E place \in Places : pc' = [pc EXCEPT ![l] = place]
        /\ pc'[l] \in {"none", "reserve"}
        /\ view' \in [Launchers -> Manifests] /\ writing' \in [Launchers -> {"no", "open", "fill"}]
        /\ launched' \in [Launchers -> 0..MaxSessions]
    <3>1. CASE Readable
      <4>1. /\ launched' = [launched EXCEPT ![l] = lastSession']
            /\ BeginWrite(l, [manifest EXCEPT ![pick[l]] = lastSession'])
            /\ Moves(l, "reserve") /\ Kept
            BY <1>5, <3>1 DEF Prepare
      <4>2. [manifest EXCEPT ![pick[l]] = lastSession'] \in Manifests
            BY <1>1, <2>2 DEF Data, Manifests
      <4>3. /\ view' \in [Launchers -> Manifests]
            /\ writing' \in [Launchers -> {"no", "open", "fill"}]
            BY <1>1, <4>1, <4>2 DEF BeginWrite, Data
      <4>4. launched' \in [Launchers -> 0..MaxSessions] /\ pc'[l] = "reserve"
            BY <1>1, <2>2, <4>1 DEF Moves, Data, TypeOK
      <4> QED BY <4>1, <4>3, <4>4, MovesRecorded DEF Places
    <3>2. CASE ~Readable
      <4>1. Ended(l, "failed") /\ UNCHANGED <<view, writing, launched>>
            BY <1>5, <3>2 DEF Prepare
      <4>2. pc'[l] = "none"
            BY <1>1, <4>1 DEF Ended, Moves, TypeOK
      <4> QED BY <1>1, <4>1, <4>2, EndedRecorded DEF Data
    <3> QED BY <3>1, <3>2
  <2>6. Step(l)
        BY <1>1, <2>5 DEF Prepare, Step
  <2>7. Data'
        BY <1>1, <1>2, <2>2, <2>4, <2>5 DEF Prepare, Data, Suite, Bounds
  <2> QED BY <2>3, <2>5, <2>6, <2>7, StepInv
<1> QED BY <1>4, <1>5

LEMMA SpawnInv == ASSUME IInv, NEW l \in Launchers, Spawn(l) PROVE IInv'
<1>1. TypeOK /\ Data /\ pc[l] = "launch" /\ pc' = pc
      BY TypeData DEF IInv, Spawn
<1>2. pc' = [pc EXCEPT ![l] = "launch"] /\ "launch" \in Places
      BY <1>1 DEF TypeOK, Places
<1>3. Step(l) /\ late' = late
      BY <1>1, <1>2 DEF Spawn, Step, Recorded, Kept, Up
<1>4. session' = [session EXCEPT ![launched[l]] = "live"]
      BY DEF Spawn
<1>5. session' \in [Sessions -> {"none", "queued", "live", "over", "ghost"}]
      BY <1>1, <1>4 DEF Data
<1>6. Data'
      BY <1>1, <1>5 DEF Spawn, Data, Suite, Locals, Bounds
<1> QED BY <1>1, <1>3, <1>6, StepInv

LEMMA StandsInv == ASSUME IInv, NEW l \in Launchers, Stands(l) PROVE IInv'
<1>1. TypeOK /\ Data /\ pc[l] = "launch"
      BY TypeData DEF IInv, Stands
<1>2. Moves(l, "ran") /\ pc'[l] = "ran" /\ "ran" \in Places
      BY <1>1 DEF TypeOK, Places, Stands, Moves
<1>3. Step(l) /\ late' = late
      BY <1>1, <1>2 DEF Stands, Step, Recorded, Kept, Up, Moves
<1>4. PICK state \in {"none", "queued", "live", "over", "ghost"} :
         session' = [session EXCEPT ![launched[l]] = state]
  <2>1. CASE launched[l] \in Sessions
        BY <1>1, <2>1 DEF Stands, Data
  <2>2. CASE launched[l] \notin Sessions
    <3>1. PICK x : session' = [session EXCEPT ![launched[l]] = x]
          BY DEF Stands
    <3>2. [session EXCEPT ![launched[l]] = x] = [session EXCEPT ![launched[l]] = "over"]
          BY <1>1, <2>2 DEF Data
    <3> QED BY <3>1, <3>2
  <2> QED BY <2>1, <2>2
<1>5. session' \in [Sessions -> {"none", "queued", "live", "over", "ghost"}]
      BY <1>1, <1>4 DEF Data
<1>6. Data'
      BY <1>1, <1>5 DEF Stands, Data, Suite, Locals, Bounds
<1> QED BY <1>2, <1>3, <1>6, StepInv

LEMMA FailsInv == ASSUME IInv, NEW l \in Launchers, Fails(l) PROVE IInv'
<1>1. TypeOK /\ Data /\ pc[l] = "launch"
      BY TypeData DEF IInv, Fails
<1>2. Moves(l, "failed") /\ pc'[l] = "failed" /\ "failed" \in Places
      BY <1>1 DEF TypeOK, Places, Fails, Moves
<1>3. Step(l) /\ late' = late
      BY <1>1, <1>2 DEF Fails, Step, Recorded, Kept, Up, Moves
<1>4. session' = [session EXCEPT ![launched[l]] = "over"]
      BY DEF Fails
<1>5. session' \in [Sessions -> {"none", "queued", "live", "over", "ghost"}]
      BY <1>1, <1>4 DEF Data
<1>6. Data'
      BY <1>1, <1>5 DEF Fails, Data, Suite, Locals, Bounds
<1> QED BY <1>2, <1>3, <1>6, StepInv

(* After a report or a write a loop sleeps, launches or ends.              *)
LEMMA ProceedsAway ==
    ASSUME TypeOK, NEW l \in Launchers, Proceeds(l)
    PROVE  /\ pc'[l] \notin {"top", "decide", "prepare"}
           /\ pc[l] = "none" => pc'[l] = "none"
<1>1. CASE pc[l] = "reserve"
      BY <1>1 DEF Proceeds, Moves, TypeOK
<1>2. CASE pc[l] = "ran" /\ l \in Drivers
      BY <1>2 DEF Proceeds, Waits, Moves, TypeOK
<1>3. CASE pc[l] # "reserve" /\ ~(pc[l] = "ran" /\ l \in Drivers)
      BY <1>3 DEF Proceeds, Ended, Moves, TypeOK
<1> QED BY <1>1, <1>2, <1>3

LEMMA TellInv == ASSUME IInv, NEW l \in Launchers, Tell(l) PROVE IInv'
<1>1. TypeOK /\ Data /\ pc[l] \in {"ran", "failed", "stopped"}
      BY TypeData DEF IInv, Tell
<1>2. CASE BeginWrite(l, manifest) /\ Kept /\ UNCHANGED <<pc, launched>>
  <2>1. pc' = [pc EXCEPT ![l] = pc[l]] /\ pc[l] \in Places
        BY <1>1, <1>2 DEF TypeOK
  <2>2. Step(l) /\ late' = late
        BY <1>1, <1>2, <2>1 DEF Tell, Step, Recorded, Up
  <2>3. view' \in [Launchers -> Manifests] /\ writing' \in [Launchers -> {"no", "open", "fill"}]
        BY <1>1, <1>2 DEF BeginWrite, Data
  <2>4. Data'
        BY <1>1, <1>2, <2>3 DEF Tell, Data, Suite, Games, Bounds
  <2> QED BY <1>1, <1>2, <2>2, <2>4, StepInv
<1>3. CASE Proceeds(l) /\ UNCHANGED <<view, writing>>
  <2>1. /\ Recorded(l) /\ \E place \in Places : pc' = [pc EXCEPT ![l] = place]
        /\ launched' \in [Launchers -> 0..MaxSessions]
        BY <1>1, <1>3, ProceedsRecorded
  <2>2. Step(l) /\ late' = late
        BY <1>1, <2>1 DEF Tell, Step, Up
  <2>3. Data'
        BY <1>1, <1>3, <2>1 DEF Tell, Data, Suite, Games, Bounds
  <2> QED BY <1>1, <1>3, <2>2, <2>3, ProceedsAway, StepInv
<1> QED BY <1>2, <1>3 DEF Tell

LEMMA DropInv == ASSUME IInv, NEW c \in Clients, Drop(c) PROVE IInv'
<1>1. c \in Launchers /\ c \notin Drivers /\ TypeOK /\ Data
      BY TypeData, ClientLate DEF IInv
<1>2. Step(c) /\ late' = late
      BY <1>1 DEF Drop, Step, Recorded, Kept, Up, Moves, Places
<1>3. launched' \in [Launchers -> 0..MaxSessions]
      BY <1>1, BenchmarkAssumption DEF Drop, Data
<1>4. Data'
      BY <1>1, <1>3 DEF Drop, Data, Suite, Games, Bounds
<1> QED BY <1>1, <1>2, <1>4, StepInv

LEMMA TruncateInv == ASSUME IInv, NEW l \in Launchers, Truncate(l) PROVE IInv'
<1>1. TypeOK /\ Data /\ pc' = pc
      BY TypeData DEF IInv, Truncate
<1>2. pc' = [pc EXCEPT ![l] = pc[l]] /\ pc[l] \in Places /\ pc'[l] = pc[l]
      BY <1>1 DEF TypeOK
<1>3. Step(l) /\ late' = late
      BY <1>1, <1>2 DEF Truncate, Step, Recorded, Kept, Up
<1>4. Unnamed \in Manifests
      BY BenchmarkAssumption DEF Unnamed, Manifests
<1>5. Data'
      BY <1>1, <1>4 DEF Truncate, Data, Games, Bounds
<1>6. l \in Drivers /\ late'[l] = 1 => pc'[l] \notin {"top", "decide", "prepare"}
      BY <1>1, <1>3 DEF IInv, Good, LastTurn
<1> QED BY <1>3, <1>5, <1>6, StepInv

LEMMA FillInv == ASSUME IInv, NEW l \in Launchers, Fill(l) PROVE IInv'
<1>1. TypeOK /\ Data /\ Proceeds(l)
      BY TypeData DEF IInv, Fill
<1>2. /\ Recorded(l) /\ \E place \in Places : pc' = [pc EXCEPT ![l] = place]
      /\ launched' \in [Launchers -> 0..MaxSessions]
      BY <1>1, ProceedsRecorded
<1>3. Step(l) /\ late' = late
      BY <1>1, <1>2, ProceedsAway DEF Fill, Step, Up
<1>4. Unnamed \in Manifests /\ view[l] \in Manifests
      BY <1>1, BenchmarkAssumption DEF Unnamed, Manifests, Data
<1>5. /\ file' \in {"absent", "whole", "torn"} /\ manifest' \in Manifests
      /\ view' \in [Launchers -> Manifests] /\ writing' \in [Launchers -> {"no", "open", "fill"}]
      BY <1>1, <1>4 DEF Fill, Data
<1>6. Data'
      BY <1>1, <1>2, <1>5 DEF Fill, Data, Games, Bounds
<1> QED BY <1>1, <1>3, <1>6, ProceedsAway, StepInv

LEMMA WriteRefusedInv == ASSUME IInv, NEW l \in Launchers, WriteRefused(l) PROVE IInv'
<1>1. TypeOK /\ Data
      BY TypeData DEF IInv
<1>2. /\ Recorded(l) /\ \E place \in Places : pc' = [pc EXCEPT ![l] = place]
      /\ launched' \in [Launchers -> 0..MaxSessions]
      /\ pc'[l] \notin {"top", "decide", "prepare"}
      /\ pc[l] = "none" => pc'[l] = "none"
  <2>1. CASE pc[l] = "reserve"
    <3>1. Ended(l, "failed") /\ launched' = [launched EXCEPT ![l] = 0]
          BY <2>1 DEF WriteRefused
    <3>2. launched' \in [Launchers -> 0..MaxSessions] /\ pc'[l] = "none"
          BY <1>1, <3>1, BenchmarkAssumption DEF Data, Ended, Moves, TypeOK
    <3> QED BY <1>1, <3>1, <3>2, EndedRecorded
  <2>2. CASE pc[l] # "reserve"
        BY <1>1, <2>2, ProceedsRecorded, ProceedsAway DEF WriteRefused
  <2> QED BY <2>1, <2>2
<1>3. Step(l) /\ late' = late
      BY <1>1, <1>2 DEF WriteRefused, Step, Up
<1>4. Unnamed \in Manifests
      BY BenchmarkAssumption DEF Unnamed, Manifests
<1>5. view' \in [Launchers -> Manifests] /\ writing' \in [Launchers -> {"no", "open", "fill"}]
      BY <1>1, <1>4 DEF WriteRefused, Data
<1>6. Data'
      BY <1>1, <1>2, <1>5 DEF WriteRefused, Data, Suite, Games, Bounds
<1> QED BY <1>2, <1>3, <1>6, StepInv

LEMMA StopGameInv ==
    ASSUME IInv, NEW c \in Clients, NEW s \in Sessions, StopGame(c, s) PROVE IInv'
<1>1. c \in Launchers /\ c \notin Drivers /\ TypeOK /\ Data
      BY TypeData, ClientLate DEF IInv
<1>2. Step(c) /\ late' = late
      BY <1>1 DEF StopGame, Step, Recorded, Kept, Up, Moves, Places
<1>3. launched' \in [Launchers -> 0..MaxSessions] /\ requests' \in 0..MaxRequests
      BY <1>1, BenchmarkAssumption DEF StopGame, Data, Sessions
<1>4. session' \in [Sessions -> {"none", "queued", "live", "over", "ghost"}]
      BY <1>1 DEF StopGame, Data
<1>5. Data'
      BY <1>1, <1>3, <1>4 DEF StopGame, Data, Suite
<1> QED BY <1>1, <1>2, <1>5, StepInv

-----------------------------------------------------------------------------
(* The games, and the requests about drivers.                              *)

LEMMA GameEndsInv == ASSUME IInv, NEW s \in Sessions, GameEnds(s) PROVE IInv'
<1>1. /\ UNCHANGED <<up, pc, status, disk, saving, missed, active, lost, stop, lastDriver, pending,
                     resuming, resumed, late, crashes, requests, file, manifest, lastSession, view,
                     writing, pick, launched>>
      /\ session' = [session EXCEPT ![s] = "over"]
      BY DEF GameEnds, Up, Suite, Locals, Records, Files, Resumption, Bounds
<1>2. TypeOK'
      BY <1>1 DEF IInv, TypeOK
<1>3. OneDriver'
      BY <1>1 DEF IInv, OneDriver
<1>4. ASSUME NEW d \in Drivers PROVE Good(d)'
  <2>1. Good(d) /\ Of(d)' = Of(d)
        BY <1>1 DEF IInv, Of
  <2>2. Once(d)'
        BY <1>1, <2>1, OnceKept DEF Good
  <2> QED BY <1>1, <2>1, <2>2 DEF Good, Told, LastTurn, Known
<1> QED BY <1>2, <1>3, <1>4 DEF IInv

LEMMA StopInv == ASSUME IInv, NEW d \in Drivers, Stop(d) PROVE IInv'
<1>1. /\ up /\ status[d] # "none"
      /\ UNCHANGED <<up, pc, lastDriver, pending, resuming, resumed, disk, missed, lost, late,
                     crashes, file, manifest, session, lastSession, view, writing, pick, launched>>
      /\ stop' = [stop EXCEPT ![d] = pc[d] # "none"]
      /\ requests < MaxRequests /\ requests' = requests + 1
      /\ Persist({Copy("stop", d, status'[d])})
      BY DEF Stop, Up, Suite, Games, Locals, Resumption, Files
<1>2. /\ TypeOK /\ Good(d) /\ d \in Launchers
      /\ status \in [Drivers -> States] /\ stop \in [Drivers -> BOOLEAN]
      BY DEF IInv, TypeOK, States, Launchers
<1>3. /\ status' \in [Drivers -> States]
      /\ \A e \in Drivers \ {d} : status'[e] = status[e]
      /\ status'[d] = IF status[d] \in Going THEN "stopped" ELSE status[d]
      /\ active' \in 0..MaxDrivers
      /\ active' = active \/ (status[d] \in Going /\ active = d)
  <2>1. CASE status[d] \in Going
    <3>1. status' = [status EXCEPT ![d] = "stopped"] /\ active' = IF active = d THEN 0 ELSE active
          BY <2>1 DEF Stop
    <3>2. active' \in 0..MaxDrivers /\ (active' = active \/ active = d)
          BY <1>2, <3>1, BenchmarkAssumption DEF TypeOK
    <3>3. status' \in [Drivers -> States] /\ status'[d] = "stopped"
          BY <1>2, <3>1 DEF States, Over
    <3>4. \A e \in Drivers \ {d} : status'[e] = status[e]
          BY <1>2, <3>1
    <3> QED BY <2>1, <3>2, <3>3, <3>4
  <2>2. CASE status[d] \notin Going
    <3>1. status' = status /\ active' = active
          BY <2>2 DEF Stop
    <3>2. active \in 0..MaxDrivers
          BY <1>2 DEF TypeOK
    <3> QED BY <1>2, <2>2, <3>1, <3>2
  <2> QED BY <2>1, <2>2
<1>4. status'[d] \in Going \union Over /\ "stop" \in Hands
      BY <1>1, <1>2, <1>3 DEF States, Over, Hands
<1>5. /\ saving' \subseteq Copies /\ Joins(d, "stop", status'[d])
      /\ \A e \in Drivers \ {d} : Of(e)' = Of(e)
      BY <1>1, <1>2, <1>4, PersistOne
<1>6. TypeOK'
  <2>1. stop' \in [Drivers -> BOOLEAN]
        BY <1>1, <1>2
  <2>2. requests' \in 0..MaxRequests
        BY <1>1, <1>2, BenchmarkAssumption DEF TypeOK
  <2> QED BY <1>1, <1>2, <1>3, <1>5, <2>1, <2>2 DEF TypeOK, States
<1>7. OneDriver'
      BY <1>2, <1>3 DEF IInv, OneDriver, Going
<1>8. ASSUME NEW e \in Drivers \ {d} PROVE Good(e)'
  <2>1. Good(e) /\ stop'[e] = stop[e] /\ Of(e)' = Of(e)
        BY <1>1, <1>2, <1>5 DEF IInv
  <2>2. Once(e)'
        BY <1>1, <1>3, <2>1, OnceKept DEF Good
  <2> QED BY <1>1, <1>3, <1>8, <2>1, <2>2 DEF Good, Told, LastTurn, Known
<1>9. Good(d)'
  <2>1. stop'[d] = (pc[d] # "none")
        BY <1>1, <1>2
  <2>2. Told(d)' /\ LastTurn(d)'
        BY <1>1, <1>2, <2>1 DEF Told, LastTurn, Good
  <2>3. status'[d] \in Resumable => status[d] \in Resumable
        BY <1>3 DEF Resumable, Going
  <2>4. d \in resuming' => d \in resuming /\ status'[d] = status[d]
        BY <1>1, <1>2, <1>3 DEF Good, Once, Going
  <2>5. Once(d)'
        BY <1>1, <1>2, <1>4, <1>5, <2>3, <2>4, OnceKept DEF Good
  <2>6. Known(d)'
        BY <1>1, <1>2, <1>3 DEF Known, Good, Going
  <2> QED BY <2>2, <2>5, <2>6 DEF Good
<1> QED BY <1>6, <1>7, <1>8, <1>9 DEF IInv

(* A write that ends: what lands was copied, or the status is gone.        *)
LEMMA SaveInv == ASSUME IInv, NEW d \in Drivers, NEW by \in Hands, Save(d, by) PROVE IInv'
<1>1. /\ up /\ UNCHANGED <<up, pc, status, active, stop, lastDriver, pending, resuming, resumed, late,
                           crashes, requests, file, manifest, session, lastSession, view, writing,
                           pick, launched>>
      BY DEF Save, Up, Suite, Games, Locals, Resumption, Bounds
<1>2. PICK e \in UnderWay(d, by) :
          /\ \/ saving' = saving \ {e}
             \/ by = "stop" /\ e.met /\ UNCHANGED saving
          /\ \/ \E state \in Landed(e) : disk' = [disk EXCEPT ![d] = state]
                /\ missed' = [missed EXCEPT ![d] = IF by = "pass" /\ e.met THEN @ + 1 ELSE @]
                /\ UNCHANGED lost
             \/ /\ lost < MaxLost /\ lost' = lost + 1
                /\ \E state \in {disk[d], "none"} : disk' = [disk EXCEPT ![d] = state]
                /\ missed' = [missed EXCEPT ![d] = IF by = "pass" THEN @ + 1 ELSE @]
      BY DEF Save
<1>3. /\ TypeOK /\ Good(d) /\ e \in Of(d) /\ e \in Copies /\ e.by = by /\ e.of = d
      /\ disk \in [Drivers -> States] /\ missed \in [Drivers -> Nat] /\ resumed[d] \in Nat
      BY DEF IInv, TypeOK, UnderWay, Of, States
<1>4. saving' \subseteq Copies /\ saving' \subseteq saving
      BY <1>2, <1>3 DEF TypeOK
<1>5. PICK state \in States :
        /\ disk' = [disk EXCEPT ![d] = state]
        /\ state = "none" \/ state = disk[d] \/ \E f \in Of(d) : state = f.state
        /\ state \in Landed(e) \/ by # "pass" \/ missed'[d] = missed[d] + 1
  <2>1. CASE \E st \in Landed(e) : disk' = [disk EXCEPT ![d] = st]
             /\ missed' = [missed EXCEPT ![d] = IF by = "pass" /\ e.met THEN @ + 1 ELSE @]
    <3>1. PICK st \in Landed(e) : disk' = [disk EXCEPT ![d] = st]
             /\ missed' = [missed EXCEPT ![d] = IF by = "pass" /\ e.met THEN @ + 1 ELSE @]
          BY <2>1
    <3>2. st = "none" \/ \E f \in Of(d) : st = f.state
          BY <1>3, <3>1 DEF Landed, Of
    <3>3. st \in States
          BY <1>3, <3>2 DEF TypeOK, Of, Copies, States
    <3> QED BY <3>1, <3>2, <3>3
  <2>2. CASE /\ \E st \in {disk[d], "none"} : disk' = [disk EXCEPT ![d] = st]
             /\ missed' = [missed EXCEPT ![d] = IF by = "pass" THEN @ + 1 ELSE @]
    <3>1. PICK st \in {disk[d], "none"} : disk' = [disk EXCEPT ![d] = st]
          BY <2>2
    <3>2. st \in States
          BY <1>3 DEF States
    <3>3. by # "pass" \/ missed'[d] = missed[d] + 1
          BY <1>3, <2>2
    <3> QED BY <3>1, <3>2, <3>3
  <2> QED BY <1>2, <2>1, <2>2
<1>6. /\ disk' \in [Drivers -> States] /\ disk'[d] = state
      /\ \A p \in Drivers \ {d} : disk'[p] = disk[p] /\ missed'[p] = missed[p]
      /\ missed' \in [Drivers -> Nat]
      /\ missed'[d] = missed[d] \/ missed'[d] = missed[d] + 1
      /\ lost' \in 0..MaxLost
  <2>1. disk' \in [Drivers -> States] /\ disk'[d] = state
        /\ \A p \in Drivers \ {d} : disk'[p] = disk[p]
        BY <1>3, <1>5
  <2>2. PICK n \in Nat : missed' = [missed EXCEPT ![d] = n] /\ (n = missed[d] \/ n = missed[d] + 1)
        BY <1>2, <1>3
  <2>3. lost' \in 0..MaxLost
        BY <1>2, <1>3, BenchmarkAssumption DEF TypeOK
  <2> QED BY <1>3, <2>1, <2>2, <2>3
<1>7. TypeOK'
      BY <1>1, <1>3, <1>4, <1>6 DEF TypeOK, States
<1>8. OneDriver'
      BY <1>1 DEF IInv, OneDriver
<1>9. ASSUME NEW p \in Drivers \ {d} PROVE Good(p)'
  <2>1. Good(p) /\ Of(p)' = Of(p)
        BY <1>2, <1>3 DEF IInv, Of
  <2>2. Once(p)'
        BY <1>1, <1>6, <1>9, <2>1, OnceKept DEF Good
  <2> QED BY <1>1, <1>6, <1>9, <2>1, <2>2 DEF Good, Told, LastTurn, Known
<1>10. Good(d)'
  <2>1. Of(d)' \subseteq Of(d)
        BY <1>4 DEF Of
  <2>2. Told(d)' /\ LastTurn(d)' /\ Known(d)'
        BY <1>1, <1>3, <2>1 DEF Good, Told, LastTurn, Known
  <2>3. Met(d)' /\ PassState(d)'
        BY <1>3, <2>1 DEF Good, Once, Met, PassState
  <2>4. Revivable(d)' => Revivable(d)
        BY <1>1, <1>5, <1>6, <2>1 DEF Revivable, Resumable, Going
  <2>5. Settled(d) => Settled(d)'
        BY <1>5, <1>6, <2>1 DEF Settled, Resumable, Going
  <2>6. d \in resuming /\ Passing(d) => Passing(d)' \/ Settled(d)' \/ resumed'[d] < missed'[d]
    <3> SUFFICES ASSUME d \in resuming, Passing(d)
                 PROVE  Passing(d)' \/ Settled(d)' \/ resumed'[d] < missed'[d]
        OBVIOUS
    <3>1. resumed[d] <= missed[d] /\ missed[d] \in Nat
          BY <1>3 DEF Good, Once
    <3>2. CASE by # "pass"
      <4>1. PICK q \in Of(d) : q.by = "pass"
            BY DEF Passing
      <4>2. q \in Of(d)'
            BY <1>2, <1>3, <3>2, <4>1 DEF Of
      <4> QED BY <4>1, <4>2 DEF Passing
    <3>3. CASE missed'[d] = missed[d] + 1
          BY <1>1, <1>3, <3>1, <3>3
    <3>4. CASE by = "pass" /\ missed'[d] # missed[d] + 1
      <4>1. state \in Landed(e) /\ ~e.met
        <5>1. CASE e.met
              BY <1>2, <1>3, <3>4, <5>1
        <5>2. CASE ~e.met
              BY <1>5, <3>4, <5>2
        <5> QED BY <5>1, <5>2
      <4>2. \A f \in Of(d) : f = e
            BY <1>3, <4>1 DEF Good, Once, Met
      <4>3. state = e.state
            BY <1>3, <4>1, <4>2 DEF Landed, Of
      <4>4. e.state = "consumed"
            BY <1>3, <3>4 DEF Good, Once, PassState
      <4>5. Of(d)' = {}
            BY <1>2, <2>1, <3>4, <4>2 DEF Of
      <4> QED BY <1>6, <4>3, <4>4, <4>5 DEF Settled, Resumable, Going
    <3> QED BY <3>2, <3>3, <3>4
  <2>7. Once(d)'
    <3>1. missed[d] \in Nat /\ missed'[d] \in Nat /\ missed[d] <= missed'[d]
          /\ missed'[d] <= missed[d] + 1
          BY <1>3, <1>6
    <3>2. Once(d) /\ resumed'[d] = resumed[d] /\ status'[d] = status[d] /\ resuming' = resuming
          BY <1>1, <1>3 DEF Good
    <3>3. resumed'[d] <= missed'[d] + 1
          BY <1>3, <3>1, <3>2 DEF Once
    <3>4. Revivable(d)' \/ d \in resuming' => resumed'[d] <= missed'[d]
          BY <1>3, <2>4, <3>1, <3>2 DEF Once
    <3>5. d \in resuming' => Passing(d)' \/ Settled(d)' \/ resumed'[d] < missed'[d]
          BY <1>3, <2>5, <2>6, <3>1, <3>2 DEF Once
    <3>6. d \in resuming' => status'[d] = "consumed"
          BY <3>2 DEF Once
    <3> QED BY <2>3, <3>3, <3>4, <3>5, <3>6 DEF Once
  <2> QED BY <2>2, <2>7 DEF Good
<1> QED BY <1>7, <1>8, <1>9, <1>10 DEF IInv

(* A fresh driver.                                                         *)
LEMMA StartedInv ==
    ASSUME IInv, up, up' = up, Started, Data', NEW n \in Drivers, n = lastDriver',
           saving' \subseteq Copies, Joins(n, "loop", "scheduled"),
           \A e \in Drivers \ {n} : Of(e)' = Of(e) \/ status[e] # "none",
           resumed' \in [Drivers -> Nat], resumed'[n] = 0,
           \A e \in Drivers \ {n} : Once(e)',
           pending' = pending, resuming' \subseteq resuming
    PROVE  IInv'
<1>1. /\ n = lastDriver + 1 /\ lastDriver' = n /\ n \in Launchers
      /\ n \in 0..MaxDrivers
      BY BenchmarkAssumption DEF Started, Drivers, Launchers
<1>2. /\ status' = [status EXCEPT ![n] = "scheduled"] /\ stop' = [stop EXCEPT ![n] = FALSE]
      /\ active' = n /\ pc' = [pc EXCEPT ![n] = "top"] /\ late' = [late EXCEPT ![n] = 0]
      /\ missed' = [missed EXCEPT ![n] = 0] /\ UNCHANGED <<disk, lost>>
      BY DEF Started
<1>3. status \in [Drivers -> States] /\ status' \in [Drivers -> States]
      BY <1>2 DEF IInv, TypeOK, States, Going
<1>4. missed' \in [Drivers -> Nat] /\ missed'[n] = 0
      BY <1>2 DEF IInv, TypeOK
<1>5. TypeOK'
  <2>1. pc' \in [Launchers -> Places] /\ stop' \in [Drivers -> BOOLEAN]
        BY <1>2 DEF IInv, TypeOK, Places
  <2>2. pending' \subseteq Drivers /\ resuming' \subseteq Drivers
        BY DEF IInv, TypeOK
  <2> QED BY <1>1, <1>2, <1>3, <1>4, <2>1, <2>2 DEF IInv, TypeOK, Data, States
<1>6. \A e \in Drivers : status[e] \notin Going
  <2> SUFFICES ASSUME NEW e \in Drivers, status[e] \in Going PROVE FALSE
      OBVIOUS
  <2>1. active = e /\ e # 0
        BY DEF IInv, OneDriver, Drivers
  <2> QED BY <2>1 DEF Started, Conflict
<1>7. OneDriver'
      BY <1>2, <1>3, <1>6 DEF OneDriver
<1>8. ASSUME NEW e \in Drivers \ {n} PROVE Good(e)'
  <2>1. /\ Good(e) /\ e \in Launchers /\ status'[e] = status[e] /\ stop'[e] = stop[e]
        /\ pc'[e] = pc[e] /\ late'[e] = late[e]
        BY <1>1, <1>2, <1>8 DEF IInv, TypeOK, Launchers
  <2>2. Told(e)' /\ LastTurn(e)'
        BY <2>1 DEF Good, Told, LastTurn
  <2>3. e \in Nat /\ lastDriver \in Nat
        BY DEF Drivers, IInv, TypeOK
  <2>4. Known(e)'
        BY <1>1, <1>2, <2>1, <2>3 DEF Known, Good
  <2> QED BY <2>2, <2>4 DEF Good
<1>9. Good(n)'
  <2>1. /\ status'[n] = "scheduled" /\ pc'[n] = "top" /\ late'[n] = 0
        BY <1>1, <1>2 DEF IInv, TypeOK
  <2>2. Told(n)' /\ LastTurn(n)'
        BY <2>1 DEF Told, LastTurn, Going
  <2>3. Good(n) /\ lastDriver \in Nat /\ n \in Nat
        BY <1>1 DEF IInv, TypeOK
  <2>4. status[n] = "none" /\ n \notin pending /\ n \notin resuming /\ Of(n) = {}
        BY <1>1, <2>3 DEF Good, Known, Once
  <2>5. Once(n)'
    <3>1. Met(n)' /\ PassState(n)'
          BY <2>4 DEF Joins, PassState
    <3> QED BY <1>4, <2>4, <3>1 DEF Once
  <2>6. Known(n)'
        BY <1>1, <2>1, <2>3, <2>4 DEF Known
  <2> QED BY <2>2, <2>5, <2>6 DEF Good
<1> QED BY <1>5, <1>7, <1>8, <1>9 DEF IInv

LEMMA FreshId ==
    ASSUME IInv, Started
    PROVE  /\ lastDriver' \in Drivers /\ late' \in [Drivers -> Nat]
           /\ "scheduled" \in Going \union Over /\ "loop" \in Hands
           /\ \A e \in Drivers \ {lastDriver'} : /\ status'[e] = status[e]
                                                 /\ missed'[e] = missed[e] /\ disk'[e] = disk[e]
<1>1. lastDriver' \in Drivers
      BY BenchmarkAssumption DEF Started, IInv, TypeOK, Drivers
<1>2. late' = [late EXCEPT ![lastDriver'] = 0]
      BY DEF Started
<1>3. late' \in [Drivers -> Nat]
      BY <1>2 DEF IInv, TypeOK
<1>4. /\ status' = [status EXCEPT ![lastDriver'] = "scheduled"]
      /\ missed' = [missed EXCEPT ![lastDriver'] = 0] /\ disk' = disk
      BY DEF Started
<1>5. \A e \in Drivers \ {lastDriver'} : /\ status'[e] = status[e]
                                         /\ missed'[e] = missed[e] /\ disk'[e] = disk[e]
      BY <1>1, <1>4 DEF IInv, TypeOK
<1> QED BY <1>1, <1>3, <1>5 DEF Going, Hands

LEMMA StartInv == ASSUME IInv, Start PROVE IInv'
<1>0. Started
      BY DEF Start
<1>1. PICK n \in Drivers : n = lastDriver'
      BY <1>0, FreshId
<1>2. /\ up /\ up' = up /\ Persist({Copy("loop", n, "scheduled")})
      /\ resumed' = [resumed EXCEPT ![n] = 0] /\ UNCHANGED <<pending, resuming>>
      BY <1>1 DEF Start, Up
<1>3. Data'
      BY <1>0, FreshId, TypeData DEF Start, IInv, Data, Suite, Games, Locals, Bounds
<1>4. TypeOK /\ "scheduled" \in Going \union Over /\ "loop" \in Hands
      BY <1>0, FreshId DEF IInv
<1>5. /\ saving' \subseteq Copies /\ Joins(n, "loop", "scheduled")
      /\ \A e \in Drivers \ {n} : Of(e)' = Of(e)
      BY <1>2, <1>4, PersistOne
<1>6. /\ resumed' \in [Drivers -> Nat] /\ resumed'[n] = 0
      /\ \A e \in Drivers \ {n} : resumed'[e] = resumed[e]
      BY <1>2, <1>4 DEF TypeOK
<1>7. ASSUME NEW e \in Drivers \ {n} PROVE Once(e)'
  <2>1. Once(e) /\ status'[e] = status[e] /\ missed'[e] = missed[e] /\ disk'[e] = disk[e]
        BY <1>0, <1>1, <1>7, FreshId DEF IInv, Good
  <2> QED BY <1>2, <1>5, <1>6, <1>7, <2>1, OnceKept
<1> QED BY <1>0, <1>1, <1>2, <1>3, <1>5, <1>6, <1>7, StartedInv

(* After the writes of the pass: d has been resumed once more, or not.     *)
LEMMA TurnOnce ==
    ASSUME IInv, NEW d \in Drivers, d \in resuming, ~Passing(d), d \notin resuming',
           Joins(d, "pass", "consumed"), status'[d] = status[d],
           missed'[d] = missed[d], disk'[d] = disk[d],
           resumed'[d] = resumed[d] \/ resumed'[d] = resumed[d] + 1
    PROVE  Once(d)'
<1>1. /\ Once(d) /\ resumed[d] \in Nat /\ missed[d] \in Nat /\ status[d] = "consumed"
      /\ resumed[d] <= missed[d]
      BY DEF IInv, Good, Once, TypeOK
<1>2. Met(d)' /\ PassState(d)'
      BY <1>1 DEF Joins, PassState, Once
<1>3. Settled(d) => ~Revivable(d)'
      BY <1>1 DEF Settled, Revivable, Joins, Resumable, Going
<1>4. Revivable(d)' => resumed[d] < missed[d]
      BY <1>1, <1>3 DEF Once
<1> QED BY <1>1, <1>2, <1>4 DEF Once

LEMMA ResumeNextInv == ASSUME IInv, NEW d \in Drivers, ResumeNext(d) PROVE IInv'
<1>1. /\ up /\ up' = up /\ d \in resuming /\ resuming' = resuming \ {d}
      /\ pending' = pending /\ Good(d) /\ status[d] = "consumed" /\ TypeOK
      BY DEF ResumeNext, Up, IInv, Good, Once
<1>2. ~Passing(d)
      BY DEF ResumeNext, UnderWay, Passing, Of
<1>3. "consumed" \in Going \union Over /\ "pass" \in Hands
      BY DEF Over, Hands
<1>4. CASE /\ Started
           /\ resumed' = [resumed EXCEPT ![lastDriver'] = 0, ![d] = @ + 1]
           /\ Persist({Copy("loop", lastDriver', "scheduled"), Copy("pass", d, "consumed")})
  <2>1. PICK n \in Drivers : n = lastDriver'
        BY <1>4, FreshId
  <2>2. n # d
    <3>1. n = lastDriver + 1 /\ d <= lastDriver /\ lastDriver \in Nat
          BY <1>1, <1>4, <2>1 DEF Started, Good, Known, TypeOK
    <3> QED BY <3>1
  <2>3. Data'
        BY <1>4, FreshId, TypeData DEF ResumeNext, IInv, Data, Suite, Games, Locals, Bounds
  <2>4. /\ resumed' \in [Drivers -> Nat] /\ resumed'[n] = 0 /\ resumed'[d] = resumed[d] + 1
        /\ \A e \in Drivers \ {n, d} : resumed'[e] = resumed[e]
        BY <1>1, <1>4, <2>1, <2>2 DEF TypeOK
  <2> DEFINE c == Copy("loop", n, "scheduled")
             k == Copy("pass", d, "consumed")
  <2>5. /\ c \in Copies /\ c.of = n /\ c.by = "loop" /\ c.state = "scheduled"
        /\ k \in Copies /\ k.of = d /\ k.by = "pass" /\ k.state = "consumed"
        BY DEF Copy, Copies, Hands, Going, Over
  <2> HIDE DEF c, k
  <2>6. Persist({c, k}) /\ {c, k} \in SUBSET Copies /\ Distinct({c, k})
    <3>1. Persist({c, k})
          BY <1>4, <2>1 DEF c, k
    <3> QED BY <2>2, <2>5, <3>1 DEF Distinct
  <2>7. /\ saving' \subseteq Copies
        /\ Joins(c.of, c.by, c.state) /\ Joins(k.of, k.by, k.state)
        /\ \A e \in Drivers : (\A x \in {c, k} : x.of # e) => Of(e)' = Of(e)
    <3>1. /\ saving' \subseteq Copies
          /\ \A e \in Drivers : (\A x \in {c, k} : x.of # e) => Of(e)' = Of(e)
          /\ \A x \in {c, k} : Joins(x.of, x.by, x.state)
          BY <1>1, <2>6, PersistFacts
    <3> QED BY <3>1
  <2>8. /\ Joins(n, "loop", "scheduled") /\ Joins(d, "pass", "consumed")
        /\ \A e \in Drivers \ {n, d} : Of(e)' = Of(e)
        BY <2>5, <2>7
  <2>9. ASSUME NEW e \in Drivers \ {n} PROVE Once(e)'
    <3>1. Once(e) /\ status'[e] = status[e] /\ missed'[e] = missed[e] /\ disk'[e] = disk[e]
          BY <1>4, <2>1, <2>9, FreshId DEF IInv, Good
    <3>2. CASE e = d
          BY <1>1, <1>2, <2>4, <2>8, <3>1, <3>2, TurnOnce
    <3>3. CASE e # d
          BY <1>1, <2>4, <2>8, <2>9, <3>1, <3>3, OnceKept
    <3> QED BY <3>2, <3>3
  <2>10. \A e \in Drivers \ {n} : Of(e)' = Of(e) \/ status[e] # "none"
        BY <1>1, <2>8
  <2> QED BY <1>1, <1>4, <2>1, <2>3, <2>4, <2>7, <2>8, <2>9, <2>10, StartedInv
<1>5. CASE /\ Persist({Copy("pass", d, "consumed")})
           /\ UNCHANGED <<pc, status, stop, active, lastDriver, late, resumed, Files>>
  <2>1. /\ saving' \subseteq Copies /\ Joins(d, "pass", "consumed")
        /\ \A e \in Drivers \ {d} : Of(e)' = Of(e)
        BY <1>1, <1>3, <1>5, PersistOne
  <2>2. UNCHANGED <<disk, missed, lost>>
        BY <1>5 DEF Files
  <2>3. TypeOK'
        BY <1>1, <1>5, <2>1, <2>2 DEF ResumeNext, Suite, Games, Locals, Bounds, TypeOK
  <2>4. OneDriver'
        BY <1>5 DEF IInv, OneDriver
  <2>5. ASSUME NEW e \in Drivers PROVE Good(e)'
    <3>1. Good(e)
          BY DEF IInv
    <3>2. Told(e)' /\ LastTurn(e)'
          BY <1>5, <3>1 DEF Good, Told, LastTurn
    <3>3. Once(e)'
      <4>1. CASE e = d
            BY <1>1, <1>2, <1>5, <2>1, <2>2, <4>1, TurnOnce
      <4>2. CASE e # d
            BY <1>1, <1>5, <2>1, <2>2, <3>1, <4>2, OnceKept DEF Good
      <4> QED BY <4>1, <4>2
    <3>4. Known(e)'
          BY <1>1, <1>5, <2>1, <2>2, <3>1 DEF Good, Known
    <3> QED BY <3>2, <3>3, <3>4 DEF Good
  <2> QED BY <2>3, <2>4, <2>5 DEF IInv
<1> QED BY <1>4, <1>5 DEF ResumeNext

-----------------------------------------------------------------------------
(* Crash and restart.                                                      *)

LEMMA CrashInv == ASSUME IInv, Crash PROVE IInv'
<1>1. TypeOK'
  <2>1. Unnamed \in Manifests
        BY BenchmarkAssumption DEF Unnamed, Manifests
  <2>2. crashes' \in 0..MaxCrashes
        BY BenchmarkAssumption DEF Crash, IInv, TypeOK
  <2>3. session' \in [Sessions -> {"none", "queued", "live", "over", "ghost"}]
        BY DEF Crash
  <2>4. /\ view' \in [Launchers -> Manifests] /\ launched' \in [Launchers -> 0..MaxSessions]
        /\ pick' \in [Launchers -> Nat] /\ writing' \in [Launchers -> {"no", "open", "fill"}]
        /\ pc' \in [Launchers -> Places]
        BY <2>1, BenchmarkAssumption DEF Crash, Places
  <2>5. /\ status' \in [Drivers -> Going \union Over \union {"none"}] /\ saving' \subseteq Copies
        /\ stop' \in [Drivers -> BOOLEAN] /\ late' \in [Drivers -> Nat]
        BY DEF Crash
  <2>6. active' \in 0..MaxDrivers /\ lastDriver' \in 0..MaxDrivers
        BY BenchmarkAssumption DEF Crash
  <2> QED BY <2>2, <2>3, <2>4, <2>5, <2>6 DEF Crash, IInv, TypeOK, Suite, Files
<1>2. OneDriver'
      BY DEF Crash, OneDriver, Going
<1>3. ASSUME NEW d \in Drivers PROVE Good(d)'
  <2>1. /\ Good(d) /\ d \in Launchers /\ ~up' /\ Of(d)' = {}
        /\ pc'[d] = "none" /\ status'[d] = "none" /\ late'[d] = 0
        /\ UNCHANGED <<disk, missed, resumed>> /\ pending' = {} /\ resuming' = {}
        BY DEF Crash, IInv, Launchers, Of, Files
  <2>2. Once(d)'
        BY <2>1 DEF Good, Once, Revivable, Met, PassState, Resumable, Going
  <2> QED BY <2>1, <2>2 DEF Good, Told, LastTurn, Known, Going
<1> QED BY <1>1, <1>2, <1>3 DEF IInv

(* A write of load_from_paths changes a status on disk to the one in memory, removes it,
   or leaves it. *)
LEMMA WrittenFacts ==
    ASSUME TypeOK, NEW D \in SUBSET Drivers, Written(D), status' \in [Drivers -> States]
    PROVE  /\ disk' \in [Drivers -> States] /\ lost' \in 0..MaxLost
           /\ \A d \in Drivers : disk'[d] \in {status'[d], disk[d], "none"}
<1>1. PICK F \in SUBSET D : \E G \in SUBSET F :
        /\ lost + Cardinality(F) <= MaxLost
        /\ lost' = lost + Cardinality(F)
        /\ disk' = [d \in Drivers |-> IF d \in G THEN "none"
                                      ELSE IF d \in D \ F THEN status'[d] ELSE disk[d]]
      BY DEF Written
<1>2. IsFiniteSet(Drivers)
      BY FS_Interval, BenchmarkAssumption DEF Drivers
<1>3. Cardinality(F) \in Nat
      BY <1>1, <1>2, FS_Subset, FS_CardinalityType
<1>4. lost' \in 0..MaxLost
      BY <1>1, <1>3, BenchmarkAssumption DEF TypeOK
<1>5. disk \in [Drivers -> States] /\ "none" \in States
      BY DEF TypeOK, States
<1> QED BY <1>1, <1>4, <1>5

LEMMA RestartInv == ASSUME IInv, Restart PROVE IInv'
<1>1. /\ ~up /\ up' /\ up' \in BOOLEAN
      /\ UNCHANGED <<pc, saving, stop, active, resuming, resumed, missed, late, crashes, requests,
                     file, manifest, session, lastSession, view, writing, pick, launched>>
      BY DEF Restart, Suite, Games, Locals, Bounds
<1>2. PICK P \in SUBSET Interrupted :
        /\ pending' = P
        /\ status' = [d \in Drivers |-> IF d \in P THEN "interrupted"
                                        ELSE IF d \in Interrupted THEN "consumed" ELSE disk[d]]
      BY DEF Restart
<1>3. PICK n \in 0..MaxDrivers :
        lastDriver' = n /\ \A d \in Drivers : disk[d] # "none" => d <= n
      BY DEF Restart
<1>4. TypeOK /\ disk \in [Drivers -> States] /\ Interrupted \subseteq Drivers
      BY DEF IInv, TypeOK, States, Interrupted
<1>5. status' \in [Drivers -> States]
      BY <1>2, <1>4 DEF States, Over
<1>6. PICK D \in SUBSET Interrupted : Written(D)
      BY DEF Restart
<1>7. D \in SUBSET Drivers
      BY <1>4
<1>8. /\ disk' \in [Drivers -> States] /\ lost' \in 0..MaxLost
      /\ \A d \in Drivers : disk'[d] \in {status'[d], disk[d], "none"}
      BY <1>4, <1>5, <1>6, <1>7, WrittenFacts
<1>9. TypeOK'
  <2>1. pending' \subseteq Drivers
        BY <1>2, <1>4
  <2> QED BY <1>1, <1>3, <1>4, <1>5, <1>8, <2>1 DEF TypeOK, States
<1>10. \A d \in Drivers : d \in Interrupted <=> disk[d] \in Resumable
      BY DEF Interrupted, Resumable
<1>11. ASSUME NEW d \in Drivers
       PROVE  /\ status'[d] \notin Going
              /\ status'[d] \in Resumable => disk[d] \in Resumable
              /\ status'[d] # "none" => disk[d] # "none"
              /\ disk[d] # "none" => status'[d] # "none"
       BY <1>2, <1>10 DEF Resumable, Going
<1>12. OneDriver'
      BY <1>11 DEF OneDriver
<1>13. ASSUME NEW d \in Drivers PROVE Good(d)'
  <2>1. Good(d) /\ pc[d] = "none" /\ status[d] = "none"
        BY <1>1 DEF IInv, Good, Known
  <2>2. Of(d) = {} /\ Of(d)' = {} /\ d \notin resuming
        BY <1>1, <2>1 DEF Good, Known, Once, Of
  <2>3. Told(d)' /\ LastTurn(d)'
        BY <1>1, <2>1 DEF Good, Told, LastTurn
  <2>4. Revivable(d)' => Revivable(d)
        BY <1>8, <1>11, <2>2 DEF Revivable, Resumable, Going
  <2>5. Once(d)'
        BY <1>1, <2>1, <2>2, <2>4 DEF Good, Once, Met, PassState
  <2>6. d \in pending' => status'[d] = "interrupted"
        BY <1>2
  <2>7. Known(d)'
        BY <1>1, <1>3, <1>8, <1>11, <2>2, <2>6 DEF Known
  <2> QED BY <2>3, <2>5, <2>7 DEF Good
<1> QED BY <1>9, <1>12, <1>13 DEF IInv

LEMMA TakePendingInv == ASSUME IInv, TakePending PROVE IInv'
<1>1. /\ up /\ up' = up /\ pending' = {} /\ resuming' = pending
      /\ status' = [d \in Drivers |-> IF d \in pending THEN "consumed" ELSE status[d]]
      /\ UNCHANGED <<pc, stop, active, lastDriver, resumed, disk, missed, lost, late, crashes,
                     requests, file, manifest, session, lastSession, view, writing, pick, launched>>
      BY DEF TakePending, Up, Suite, Games, Locals, Bounds, Files
<1>2. TypeOK /\ pending \in SUBSET Drivers /\ status \in [Drivers -> States]
      BY DEF IInv, TypeOK, States
<1>3. status' \in [Drivers -> States]
      BY <1>1, <1>2 DEF States, Over
<1>4. /\ saving' \subseteq Copies
      /\ \A d \in pending : Joins(d, "pass", "consumed")
      /\ \A d \in Drivers \ pending : Of(d)' = Of(d)
  <2> DEFINE C == {Copy("pass", d, "consumed") : d \in pending}
  <2>0. \A d \in pending : /\ Copy("pass", d, "consumed") \in Copies
                           /\ Copy("pass", d, "consumed").of = d
                           /\ Copy("pass", d, "consumed").by = "pass"
                           /\ Copy("pass", d, "consumed").state = "consumed"
        BY <1>2 DEF Copy, Copies, Hands, Over
  <2>9. \A c \in C : \E d \in pending : c = Copy("pass", d, "consumed")
        OBVIOUS
  <2>1. \A c \in C : c \in Copies /\ c.of \in pending /\ c.by = "pass" /\ c.state = "consumed"
        BY <2>0, <2>9
  <2>2. \A d \in pending : \E c \in C : c.of = d
        BY <2>0
  <2>3. Distinct(C)
        BY <2>0, <2>9 DEF Distinct
  <2>4. Persist(C)
        BY DEF TakePending
  <2>5. C \in SUBSET Copies
        BY <2>1
  <2> HIDE DEF C
  <2>6. /\ saving' \subseteq Copies
        /\ \A d \in Drivers : (\A c \in C : c.of # d) => Of(d)' = Of(d)
        /\ \A c \in C : Joins(c.of, c.by, c.state)
        BY <1>2, <2>3, <2>4, <2>5, PersistFacts
  <2>7. ASSUME NEW d \in pending PROVE Joins(d, "pass", "consumed")
    <3>1. PICK c \in C : c.of = d
          BY <2>2
    <3>2. Joins(c.of, c.by, c.state) /\ c.by = "pass" /\ c.state = "consumed"
          BY <2>1, <2>6
    <3> QED BY <3>1, <3>2
  <2>8. ASSUME NEW d \in Drivers \ pending PROVE Of(d)' = Of(d)
        BY <2>1, <2>6, <2>8
  <2> QED BY <2>6, <2>7, <2>8
<1>5. TypeOK'
      BY <1>1, <1>2, <1>3, <1>4 DEF TypeOK, States
<1>6. \A d \in Drivers : status'[d] \in Going => status[d] \in Going
      BY <1>1 DEF Going
<1>7. OneDriver'
      BY <1>1, <1>6 DEF IInv, OneDriver
<1>8. ASSUME NEW d \in Drivers PROVE Good(d)'
  <2>1. Good(d)
        BY DEF IInv
  <2>2. CASE d \notin pending
    <3>1. status'[d] = status[d] /\ d \notin resuming' /\ Of(d)' = Of(d)
          BY <1>1, <1>4, <2>2
    <3>2. Once(d)'
          BY <1>1, <2>1, <3>1, OnceKept DEF Good
    <3> QED BY <1>1, <2>1, <2>2, <3>1, <3>2 DEF Good, Told, LastTurn, Known
  <2>3. CASE d \in pending
    <3>1. status[d] = "interrupted" /\ d <= lastDriver
          BY <2>1, <2>3 DEF Good, Known
    <3>2. status'[d] = "consumed" /\ Joins(d, "pass", "consumed")
          BY <1>1, <1>4, <2>3
    <3>3. Told(d)' /\ LastTurn(d)'
          BY <1>1, <2>1, <3>1 DEF Good, Told, LastTurn, Going
    <3>4. resumed[d] <= missed[d]
          BY <2>1, <3>1 DEF Good, Once, Revivable, Resumable
    <3>5. Met(d)' /\ PassState(d)' /\ Passing(d)'
          BY <2>1, <3>2 DEF Joins, PassState, Good, Once
    <3>6. resumed[d] \in Nat /\ missed[d] \in Nat
          BY <1>2 DEF TypeOK
    <3>7. Once(d)'
          BY <1>1, <3>2, <3>4, <3>5, <3>6 DEF Once
    <3>8. Known(d)'
          BY <1>1, <2>1, <3>1, <3>2 DEF Good, Known
    <3> QED BY <3>3, <3>7, <3>8 DEF Good
  <2> QED BY <2>2, <2>3
<1> QED BY <1>5, <1>7, <1>8 DEF IInv

-----------------------------------------------------------------------------
LEMMA StutterInv == ASSUME IInv, UNCHANGED vars PROVE IInv'
<1>1. TypeOK'
      BY DEF IInv, TypeOK, vars
<1>2. OneDriver'
      BY DEF IInv, OneDriver, vars
<1>3. ASSUME NEW d \in Drivers PROVE Good(d)'
  <2>1. Good(d) /\ Of(d)' = Of(d)
        BY DEF IInv, vars, Of
  <2>2. Once(d)'
        BY <2>1, OnceKept DEF Good, vars
  <2> QED BY <2>1, <2>2 DEF Good, Told, LastTurn, Known, vars
<1> QED BY <1>1, <1>2, <1>3 DEF IInv

LEMMA LaunchInv == ASSUME IInv, NEW l \in Launchers, Launch(l) PROVE IInv'
BY PrepareInv, SpawnInv, StandsInv, FailsInv, TellInv DEF Launch

LEMMA LoopInv == ASSUME IInv, NEW d \in Drivers, Loop(d) PROVE IInv'
<1>1. d \in Launchers
      BY DEF Launchers
<1> QED BY <1>1, LoopTopInv, DecideInv, WakeInv, LaunchInv DEF Loop

LEMMA RequestInv == ASSUME IInv, NEW c \in Clients, Request(c) PROVE IInv'
<1>1. c \in Launchers
      BY DEF Launchers
<1> QED BY <1>1, AnswerInv, LaunchInv DEF Request

LEMMA NextInv == ASSUME IInv, [Next]_vars PROVE IInv'
<1>1. CASE Start
      BY <1>1, StartInv
<1>2. ASSUME NEW d \in Drivers, Resume(d) \/ Stop(d) \/ Loop(d) \/ ResumeNext(d) PROVE IInv'
      BY <1>2, StartInv, StopInv, LoopInv, ResumeNextInv DEF Resume
<1>9. ASSUME NEW d \in Drivers, NEW by \in Hands, Save(d, by) PROVE IInv'
      BY <1>9, SaveInv
<1>3. ASSUME NEW c \in Clients, Ask(c) \/ Request(c) \/ Drop(c) PROVE IInv'
      BY <1>3, AskInv, RequestInv, DropInv
<1>4. ASSUME NEW c \in Clients, NEW s \in Sessions, StopGame(c, s) PROVE IInv'
      BY <1>4, StopGameInv
<1>5. ASSUME NEW l \in Launchers, Write(l) PROVE IInv'
      BY <1>5, TruncateInv, FillInv, WriteRefusedInv DEF Write
<1>6. ASSUME NEW s \in Sessions, GameEnds(s) PROVE IInv'
      BY <1>6, GameEndsInv
<1>7. CASE Crash \/ Restart \/ TakePending
      BY <1>7, CrashInv, RestartInv, TakePendingInv
<1>8. CASE UNCHANGED vars
      BY <1>8, StutterInv
<1> QED BY <1>1, <1>2, <1>3, <1>4, <1>5, <1>6, <1>7, <1>8, <1>9 DEF Next

LEMMA Invariant == Spec => []IInv
<1>1. IInv /\ [Next]_vars => IInv'
      BY NextInv
<1> QED BY InitInv, <1>1, PTL DEF Spec

\* Every variable of the drivers keeps its type, for any number of runs, drivers,
\* sessions, clients, crashes and failed writes.
THEOREM TypeCorrect == Spec => []TypeOK
<1>1. IInv => TypeOK
      BY DEF IInv
<1> QED BY <1>1, Invariant, PTL

\* However many drivers are started, stopped, interrupted and resumed, one of them at
\* most has not ended, and it is the one the entry of the suite names.
THEOREM OneAtATime == Spec => []OneDriver
<1>1. IInv => OneDriver
      BY DEF IInv
<1> QED BY <1>1, Invariant, PTL

\* A driver that was told to stop prepares at most one more session, wherever its loop
\* was when it was told.
THEOREM StopsSoon == Spec => []StopIsPrompt
<1>1. IInv => StopIsPrompt
      BY DEF IInv, StopIsPrompt, Good, LastTurn
<1> QED BY <1>1, Invariant, PTL

\* Over any number of crashes and restarts the resume pass starts a driver for an
\* interrupted one once, and once more for each of its writes of that driver which failed
\* or met the write of a stop, whatever order the writes land in.
THEOREM ResumesOnce == Spec => []ResumedOnce
<1>1. IInv => ResumedOnce
      BY DEF IInv, ResumedOnce, Good, Once
<1> QED BY <1>1, Invariant, PTL
=============================================================================

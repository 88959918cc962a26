--------------------------- MODULE FollowUpProofs ---------------------------
(***************************************************************************)
(* For any family of tasks, any number of fires and calls: the quota of a  *)
(* fire holds, and a chain of tasks keeps its distance.                    *)
(***************************************************************************)
EXTENDS FollowUps, FiniteSetTheorems, TLAPS

-----------------------------------------------------------------------------
(* Types                                                                   *)

(* The state keeps its types (scheduled_messages, and what a fire holds).  *)
THEOREM TypeCorrect == Spec => []TypeOK
<1>0. /\ Quota \in Nat /\ Lead \in Nat /\ Backoff \in Nat /\ Ahead \in Nat
      /\ MaxRetries \in Nat /\ MaxFaults \in Nat /\ MaxTime \in Nat
  BY FollowUpConstants
<1> USE <1>0
<1>1. Init => TypeOK
  BY DEF Init, TypeOK, Row, Fire, NoFire, NoCall
<1>2. TypeOK /\ [Next]_vars => TypeOK'
  <2> SUFFICES ASSUME TypeOK, [Next]_vars PROVE TypeOK'
    OBVIOUS
  <2>0. /\ row \in [Task -> Row] /\ fire \in [Slot -> Fire]
        /\ call \in [Slot -> [Call -> Statement \cup {NoCall}]]
        /\ now \in Nat /\ faults \in Nat
    BY DEF TypeOK
  <2>1. ASSUME NEW s \in Slot, NEW p \in Task, Begin(s, p) PROVE TypeOK'
    <3>1. fire' \in [Slot -> Fire]
      BY <2>0, <2>1 DEF Begin, Row, Fire, NoFire
    <3> QED
      BY <2>0, <2>1, <3>1 DEF Begin, TypeOK
  <2>2. ASSUME NEW s \in Slot, NEW p \in Task, Succeeds(s, p) PROVE TypeOK'
    <3>1. row' \in [Task -> Row]
      BY <2>0, <2>2 DEF Succeeds, Row
    <3>2. fire' \in [Slot -> Fire]
      BY <2>0, <2>2 DEF Succeeds, Ended, Fire, NoFire
    <3> QED
      BY <2>0, <2>2, <3>1, <3>2 DEF Succeeds, Ended, TypeOK
  <2>3. ASSUME NEW s \in Slot, NEW p \in Task, Fails(s, p) PROVE TypeOK'
    <3>1. fire[s].tries \in 0..MaxRetries
      BY <2>0 DEF Fire
    <3>4. ASSUME fire[s].tries < MaxRetries
          PROVE  [row[p] EXCEPT !.tries = fire[s].tries + 1, !.after = now + Backoff] \in Row
      <4>1. fire[s].tries + 1 \in 0..MaxRetries /\ now + Backoff \in Nat
        BY <2>0, <3>1, <3>4
      <4> QED
        BY <2>0, <4>1 DEF Row
    <3>5. [row[p] EXCEPT !.status = "failed"] \in Row
      BY <2>0 DEF Row
    <3>2. row' \in [Task -> Row]
      BY <2>0, <2>3, <3>4, <3>5 DEF Fails
    <3>3. fire' \in [Slot -> Fire]
      BY <2>0, <2>3 DEF Fails, Ended, Fire, NoFire
    <3> QED
      BY <2>0, <2>3, <3>2, <3>3 DEF Fails, Ended, TypeOK
  <2>4. ASSUME NEW s \in Slot, NEW p \in Task, Crash(s, p) PROVE TypeOK'
    <3>1. fire' \in [Slot -> Fire]
      BY <2>0, <2>4 DEF Crash, Fire, NoFire
    <3> QED
      BY <2>0, <2>4, <3>1 DEF Crash, Fault, TypeOK
  <2>5. ASSUME NEW s \in Slot, NEW c \in Call, NEW u \in Task,
               NEW at \in now..(now + Ahead), ScheduleTask(s, c, u, at)
        PROVE  TypeOK'
    <3>1. [op |-> "insert", uuid |-> u, at |-> at] \in Statement
      BY <2>0 DEF Statement
    <3>3. [fire[s] EXCEPT !.used = @ + 1] \in Fire
      BY <2>0 DEF Fire
    <3>2. fire' \in [Slot -> Fire]
      BY <2>0, <2>5, <3>3 DEF ScheduleTask, Counted
    <3> QED
      BY <2>0, <2>5, <3>1, <3>2 DEF ScheduleTask, TypeOK
  <2>6. ASSUME NEW s \in Slot, NEW c \in Call, NEW u \in Task,
               NEW at \in now..(now + Ahead), RenewTask(s, c, u, at)
        PROVE  TypeOK'
    <3>1. [op |-> "update", uuid |-> u, at |-> at] \in Statement
      BY <2>0 DEF Statement
    <3> QED
      BY <2>0, <2>6, <3>1 DEF RenewTask, TypeOK
  <2>7. ASSUME NEW s \in Slot, NEW c \in Call, NEW u \in Task, CancelTask(s, c, u)
        PROVE  TypeOK'
    <3>1. row' \in [Task -> Row]
      BY <2>0, <2>7 DEF CancelTask, Row
    <3> QED
      BY <2>0, <2>7, <3>1 DEF CancelTask, TypeOK
  <2>8. ASSUME NEW s \in Slot, NEW c \in Call, CreateTask(s, c) PROVE TypeOK'
    <3>1. call[s][c].uuid \in Task /\ call[s][c].at \in Nat
      BY <2>0, <2>8 DEF CreateTask, Awaits, Statement, NoCall
    <3>2. row' \in [Task -> Row]
      BY <2>0, <2>8, <3>1 DEF CreateTask, Row
    <3>4. [fire[s] EXCEPT !.made = @ + 1] \in Fire
      BY <2>0 DEF Fire
    <3>3. fire' \in [Slot -> Fire]
      BY <2>0, <2>8, <3>4 DEF CreateTask
    <3> QED
      BY <2>0, <2>8, <3>2, <3>3 DEF CreateTask, Returns, TypeOK
  <2>9. ASSUME NEW s \in Slot, NEW c \in Call, CreateFails(s, c) PROVE TypeOK'
    BY <2>0, <2>9 DEF CreateFails, Returns, Fault, TypeOK
  <2>10. ASSUME NEW s \in Slot, NEW c \in Call, UpdateTask(s, c) PROVE TypeOK'
    <3>1. call[s][c].uuid \in Task /\ call[s][c].at \in Nat
      BY <2>0, <2>10 DEF UpdateTask, Awaits, Statement, NoCall
    <3>2. row' \in [Task -> Row]
      BY <2>0, <2>10, <3>1 DEF UpdateTask, Row
    <3> QED
      BY <2>0, <2>10, <3>2 DEF UpdateTask, Returns, TypeOK
  <2>11. ASSUME NEW u \in Task, UserCancels(u) PROVE TypeOK'
    <3>1. row' \in [Task -> Row]
      BY <2>0, <2>11 DEF UserCancels, Row
    <3> QED
      BY <2>0, <2>11, <3>1 DEF UserCancels, TypeOK
  <2>12. ASSUME Advance PROVE TypeOK'
    BY <2>0, <2>12 DEF Advance, TypeOK
  <2>13. CASE UNCHANGED vars
    BY <2>0, <2>13 DEF vars, TypeOK
  <2> QED
    BY <2>1, <2>2, <2>3, <2>4, <2>5, <2>6, <2>7, <2>8, <2>9, <2>10, <2>11, <2>12, <2>13
       DEF Next, Loop, Asks, Answers
<1> QED
  BY <1>1, <1>2, PTL DEF Spec

-----------------------------------------------------------------------------
(* A chain keeps its distance                                              *)

(* The earliest moment of a task of its depth.                             *)
Due(u) == Depth[u] * Lead

(* Who is there was scheduled by a fire of its parent, which was due.      *)
Grown == \A u \in Task : row[u].status # "absent" => now + Lead >= Due(u)
FiresDue == \A s \in Slot, p \in Task : Fires(s, p) => now >= Due(p)
CallsDue ==
    \A s \in Slot, c \in Call :
        call[s][c] # NoCall =>
            /\ call[s][c].at >= Due(call[s][c].uuid)
            /\ now + Lead >= Due(call[s][c].uuid)

Slow == ChainIsSlow /\ Grown /\ FiresDue /\ CallsDue

(* What the arithmetic of the depth comes to.                              *)
LEMMA Distance ==
    /\ \A u \in Task : Due(u) \in Nat
    /\ \A u \in Root : Due(u) = 0
    /\ \A u \in Task \ Root : Due(u) = Due(Parent[u]) + Lead
<1>0. Lead \in Nat /\ Root \subseteq Task /\ Depth \in [Task -> Nat]
      /\ Parent \in [Task \ Root -> Task]
  BY FollowUpConstants
<1>1. ASSUME NEW m \in Nat, NEW n \in Nat
      PROVE  m * n \in Nat /\ 0 * n = 0 /\ (m + 1) * n = m * n + n
  OBVIOUS
<1>2. \A u \in Task : Due(u) \in Nat
  BY <1>0, <1>1 DEF Due
<1>3. \A u \in Root : Due(u) = 0
  BY <1>0, <1>1, FollowUpConstants DEF Due
<1>4. ASSUME NEW u \in Task \ Root PROVE Due(u) = Due(Parent[u]) + Lead
  <2>1. Depth[u] = Depth[Parent[u]] + 1 /\ Depth[Parent[u]] \in Nat
    BY <1>0, FollowUpConstants
  <2>2. (Depth[Parent[u]] + 1) * Lead = Depth[Parent[u]] * Lead + Lead
    BY <2>1, <1>0, <1>1
  <2> QED
    BY <2>1, <2>2 DEF Due
<1> QED
  BY <1>2, <1>3, <1>4

(* What a step leaves as it is keeps its distance, as time only passes.    *)
LEMMA StillDue ==
    ASSUME TypeOK, Slow, now' \in Nat, now' >= now
    PROVE  /\ row' = row => ChainIsSlow' /\ Grown'
           /\ fire' = fire => FiresDue'
           /\ call' = call => CallsDue'
<1>0. now \in Nat /\ Lead \in Nat /\ \A u \in Task : Due(u) \in Nat
  BY FollowUpConstants, Distance DEF TypeOK
<1>1. row' = row => ChainIsSlow'
  BY DEF Slow, ChainIsSlow
<1>2. row' = row => Grown'
  BY <1>0 DEF Slow, Grown, Due
<1>3. fire' = fire => FiresDue'
  BY <1>0 DEF Slow, FiresDue, Fires, Due
<1>4. ASSUME call' = call, NEW s \in Slot, NEW c \in Call, call[s][c] # NoCall
      PROVE  call[s][c].at >= Due(call[s][c].uuid) /\ now' + Lead >= Due(call[s][c].uuid)
  <2>1. call[s][c] \in Statement
    BY <1>4 DEF TypeOK
  <2>2. call[s][c].uuid \in Task
    BY <2>1 DEF Statement
  <2> QED
    BY <1>0, <1>4, <2>2 DEF Slow, CallsDue
<1> QED
  BY <1>1, <1>2, <1>3, <1>4 DEF CallsDue, Due

(* A row that is claimed is due, and so is who is fired.                   *)
LEMMA BeginSlow ==
    ASSUME TypeOK, Slow, NEW s \in Slot, NEW p \in Task, Begin(s, p)
    PROVE  Slow'
<1>0. now \in Nat /\ row[p].at \in Nat /\ Due(p) \in Nat
  BY Distance DEF TypeOK, Row
<1>1. ChainIsSlow' /\ Grown' /\ CallsDue'
  BY <1>0, StillDue DEF Begin
<1>2. now >= Due(p)
  BY <1>0 DEF Begin, Slow, ChainIsSlow, Due
<1>3. FiresDue'
  <2> SUFFICES ASSUME NEW t \in Slot, NEW q \in Task, fire'[t].task = q
               PROVE  now >= Due(q)
    BY DEF FiresDue, Fires, Begin, Due
  <2>1. CASE t = s
    BY <1>2, <2>1 DEF Begin, TypeOK, NoFire
  <2>2. CASE t # s
    BY <2>2 DEF Begin, TypeOK, Slow, FiresDue, Fires
  <2> QED
    BY <2>1, <2>2
<1> QED
  BY <1>1, <1>3 DEF Slow

(* A fire that ends, and one that dies, take nothing with them that is     *)
(* owed; a row that ends keeps no date.                                    *)
LEMMA EndSlow ==
    ASSUME TypeOK, Slow, NEW s \in Slot, NEW p \in Task,
           Succeeds(s, p) \/ Fails(s, p) \/ Crash(s, p)
    PROVE  Slow'
<1>0. now \in Nat /\ Lead \in Nat /\ now' = now /\ NULL \notin Task
  BY FollowUpConstants DEF TypeOK, Succeeds, Fails, Crash, Ended
<1>1. ASSUME NEW u \in Task
      PROVE  /\ row'[u].status = "pending" => row[u].status = "pending" /\ row'[u].at = row[u].at
             /\ row'[u].status # "absent" => row[u].status # "absent"
  <2>1. CASE Succeeds(s, p)
    BY <2>1 DEF TypeOK, Succeeds, OwnRow, Exists, Row
  <2>2. CASE Fails(s, p)
    BY <2>2 DEF TypeOK, Fails, OwnRow, Exists, Row
  <2>3. CASE Crash(s, p)
    BY <2>3 DEF Crash
  <2> QED
    BY <2>1, <2>2, <2>3
<1>2. ChainIsSlow' /\ Grown'
  BY <1>0, <1>1 DEF Slow, ChainIsSlow, Grown, Due
<1>3. FiresDue'
  <2>1. fire' = [fire EXCEPT ![s] = NoFire]
    BY DEF Succeeds, Fails, Crash, Ended
  <2> QED
    BY <1>0, <2>1 DEF TypeOK, Slow, FiresDue, Fires, NoFire, Due
<1>4. CallsDue'
  <2>1. CASE call' = call
    BY <1>0, <2>1, StillDue
  <2>2. CASE call' = [call EXCEPT ![s] = [c \in Call |-> NoCall]]
    BY <1>0, <2>2 DEF TypeOK, Slow, CallsDue, Due
  <2> QED
    BY <2>1, <2>2 DEF Succeeds, Fails, Crash, Ended
<1> QED
  BY <1>2, <1>3, <1>4 DEF Slow
(* A call that asks for a follow-up, or for a later time, is made by a     *)
(* fire that is due, and asks for a time that is a lead away.              *)
LEMMA AskSlow ==
    ASSUME TypeOK, Slow, NEW s \in Slot, NEW c \in Call, NEW u \in Task,
           NEW at \in now..(now + Ahead),
           \/ u \notin Root /\ Parent[u] = fire[s].task /\ ScheduleTask(s, c, u, at)
           \/ RenewTask(s, c, u, at)
    PROVE  Slow'
<1>0. now \in Nat /\ Lead \in Nat /\ now' = now /\ NULL \notin Task /\ at \in Nat
      /\ row' = row /\ Due(u) \in Nat
  BY FollowUpConstants, Distance DEF TypeOK, ScheduleTask, RenewTask
<1>1. at >= now + Lead
  BY DEF ScheduleTask, RenewTask, FarEnough
<1>2. now + Lead >= Due(u)
  <2>1. CASE u \notin Root /\ Parent[u] = fire[s].task /\ ScheduleTask(s, c, u, at)
    <3>1. Parent[u] \in Task
      BY <2>1, FollowUpConstants
    <3>2. now >= Due(Parent[u]) /\ Due(Parent[u]) \in Nat
      BY <2>1, <3>1, Distance DEF Slow, FiresDue, Fires
    <3> QED
      BY <1>0, <2>1, <3>2, Distance
  <2>2. CASE RenewTask(s, c, u, at)
    BY <2>2 DEF RenewTask, Slow, Grown
  <2> QED
    BY <2>1, <2>2
<1>3. PICK op \in {"insert", "update"} :
         call' = [call EXCEPT ![s][c] = [op |-> op, uuid |-> u, at |-> at]]
  BY DEF ScheduleTask, RenewTask
<1>4. CallsDue'
  <2> SUFFICES ASSUME NEW t \in Slot, NEW d \in Call, call'[t][d] # NoCall
               PROVE  /\ call'[t][d].at >= Due(call'[t][d].uuid)
                      /\ now + Lead >= Due(call'[t][d].uuid)
    BY <1>0 DEF CallsDue, Due
  <2>1. CASE t = s /\ d = c
    <3>1. call'[t][d] = [op |-> op, uuid |-> u, at |-> at]
      BY <1>3, <2>1 DEF TypeOK
    <3> QED
      BY <1>0, <1>1, <1>2, <3>1
  <2>2. CASE ~(t = s /\ d = c)
    <3>1. call'[t][d] = call[t][d]
      BY <1>3, <2>2 DEF TypeOK
    <3> QED
      BY <3>1 DEF Slow, CallsDue
  <2> QED
    BY <2>1, <2>2
<1>5. ChainIsSlow' /\ Grown'
  BY <1>0, StillDue
<1>6. FiresDue'
  <2>1. \A t \in Slot : fire'[t].task = fire[t].task
    BY DEF ScheduleTask, RenewTask, Counted, TypeOK, Fire
  <2> QED
    BY <1>0, <2>1 DEF Slow, FiresDue, Fires, Due
<1> QED
  BY <1>4, <1>5, <1>6 DEF Slow

(* What is written is what was asked for.                                  *)
LEMMA AnswerSlow ==
    ASSUME TypeOK, Slow, NEW s \in Slot, NEW c \in Call, Answers(s, c)
    PROVE  Slow'
<1>0. now \in Nat /\ Lead \in Nat /\ now' = now
  BY FollowUpConstants DEF TypeOK, Answers, CreateTask, CreateFails, UpdateTask
<1> DEFINE u == call[s][c].uuid
           at == call[s][c].at
<1>1. /\ call[s][c] # NoCall /\ u \in Task /\ at \in Nat
      /\ call' = [call EXCEPT ![s][c] = NoCall]
  BY DEF TypeOK, Answers, CreateTask, CreateFails, UpdateTask, Awaits, Returns,
         Statement, NoCall
<1>2. at >= Due(u) /\ now + Lead >= Due(u)
  BY <1>1 DEF Slow, CallsDue
<1>3. \A v \in Task : \/ row'[v] = row[v]
                      \/ v = u /\ row'[v].at = at
  <2>1. CASE CreateTask(s, c)
    BY <1>1, <2>1 DEF CreateTask, TypeOK
  <2>2. CASE CreateFails(s, c)
    BY <2>2 DEF CreateFails
  <2>3. CASE UpdateTask(s, c)
    BY <1>1, <2>3 DEF UpdateTask, TypeOK, Row
  <2> QED
    BY <2>1, <2>2, <2>3 DEF Answers
<1>4. ChainIsSlow' /\ Grown'
  BY <1>0, <1>1, <1>2, <1>3 DEF Slow, ChainIsSlow, Grown, Due
<1>5. FiresDue'
  <2>1. \A t \in Slot : fire'[t].task = fire[t].task
    BY DEF Answers, CreateTask, CreateFails, UpdateTask, TypeOK, Fire
  <2> QED
    BY <1>0, <2>1 DEF Slow, FiresDue, Fires, Due
<1>6. CallsDue'
  <2>1. \A t \in Slot, d \in Call : call'[t][d] \in {call[t][d], NoCall}
    BY <1>1 DEF TypeOK
  <2> QED
    BY <1>0, <2>1 DEF Slow, CallsDue, Due
<1> QED
  BY <1>4, <1>5, <1>6 DEF Slow

(* Cancelling takes a row away; time passes.                               *)
LEMMA OtherSlow ==
    ASSUME TypeOK, Slow,
           \/ \E s \in Slot, c \in Call, u \in Task : CancelTask(s, c, u)
           \/ \E u \in Task : UserCancels(u)
           \/ Advance
           \/ UNCHANGED vars
    PROVE  Slow'
<1>0. now \in Nat /\ now' \in Nat /\ now' >= now
  BY DEF TypeOK, CancelTask, UserCancels, Advance, vars
<1>1. CASE row' = row
  BY <1>0, <1>1, StillDue DEF CancelTask, UserCancels, Advance, vars, Slow
<1>2. ASSUME NEW u \in Task, Exists(u), row' = [row EXCEPT ![u].status = "gone"],
             fire' = fire, call' = call, now' = now
      PROVE  Slow'
  <2>1. FiresDue' /\ CallsDue'
    BY <1>0, <1>2, StillDue
  <2>2. ASSUME NEW v \in Task
        PROVE  /\ row'[v].status = "pending" => row'[v] = row[v]
               /\ row'[v].status # "absent" => row[v].status # "absent"
    BY <1>2 DEF TypeOK, Row, Exists
  <2>3. ChainIsSlow' /\ Grown'
    BY <1>2, <2>2 DEF Slow, ChainIsSlow, Grown, Due
  <2> QED
    BY <2>1, <2>3 DEF Slow
<1> QED
  BY <1>1, <1>2 DEF CancelTask, UserCancels, Advance, vars

(* A chain of tasks that schedule each other runs no faster than one link  *)
(* per MIN_SCHEDULE_LEAD_MS (agentic-fire.js, scheduleTask, renewTask).    *)
THEOREM ChainsAreSlow == Spec => []ChainIsSlow
<1>1. Init => Slow
  <2> SUFFICES ASSUME Init PROVE Slow
    OBVIOUS
  <2>1. NULL \notin Task /\ Lead \in Nat
    BY FollowUpConstants
  <2>2. \A u \in Task : row[u].status # "absent" => u \in Root /\ row[u].at = 0
    BY DEF Init
  <2>3. ChainIsSlow
    BY <2>2, Distance DEF ChainIsSlow, Due
  <2>4. Grown
    BY <2>1, <2>2, Distance DEF Grown, Init
  <2>5. FiresDue /\ CallsDue
    BY <2>1 DEF Init, FiresDue, CallsDue, Fires, NoFire
  <2> QED
    BY <2>3, <2>4, <2>5 DEF Slow
<1>2. TypeOK /\ Slow /\ [Next]_vars => Slow'
  <2> SUFFICES ASSUME TypeOK, Slow, [Next]_vars PROVE Slow'
    OBVIOUS
  <2>1. ASSUME NEW s \in Slot, NEW p \in Task, Loop(s, p) PROVE Slow'
    BY <2>1, BeginSlow, EndSlow DEF Loop
  <2>2. ASSUME NEW s \in Slot, NEW c \in Call, Asks(s, c) PROVE Slow'
    BY <2>2, AskSlow, OtherSlow DEF Asks
  <2>3. ASSUME NEW s \in Slot, NEW c \in Call, Answers(s, c) PROVE Slow'
    BY <2>3, AnswerSlow
  <2> QED
    BY <2>1, <2>2, <2>3, OtherSlow DEF Next
<1> QED
  BY <1>1, <1>2, TypeCorrect, PTL DEF Spec, Slow

-----------------------------------------------------------------------------
(* The quota                                                               *)

(* The insertions a fire has under way.                                    *)
Inserts(s) == {c \in Call : call[s][c].op = "insert"}

(* What is there and what is coming has been counted, and no more than     *)
(* that was allowed.                                                       *)
Budget ==
    \A s \in Slot :
        /\ fire[s].made + Cardinality(Inserts(s)) <= fire[s].used
        /\ fire[s].used <= Quota

(* What a step may do to the calls of one fire.                            *)
LEMMA CountInserts ==
    ASSUME TypeOK, NEW s \in Slot
    PROVE  /\ IsFiniteSet(Inserts(s)) /\ Cardinality(Inserts(s)) \in Nat
           /\ \A c \in Call : Cardinality(Inserts(s) \cup {c}) <= Cardinality(Inserts(s)) + 1
           /\ \A c \in Inserts(s) :
                 /\ Cardinality(Inserts(s) \ {c}) = Cardinality(Inserts(s)) - 1
<1>1. IsFiniteSet(Inserts(s))
  BY FollowUpConstants, FS_Subset DEF Inserts
<1>2. Cardinality(Inserts(s)) \in Nat
  BY <1>1, FS_CardinalityType
<1>3. ASSUME NEW c \in Call
      PROVE  Cardinality(Inserts(s) \cup {c}) <= Cardinality(Inserts(s)) + 1
  <2>1. Cardinality(Inserts(s) \cup {c}) =
           IF c \in Inserts(s) THEN Cardinality(Inserts(s)) ELSE Cardinality(Inserts(s)) + 1
    BY <1>1, FS_AddElement
  <2> QED
    BY <1>2, <2>1
<1>4. ASSUME NEW c \in Inserts(s)
      PROVE  Cardinality(Inserts(s) \ {c}) = Cardinality(Inserts(s)) - 1
  BY <1>1, <1>4, FS_RemoveElement
<1> QED
  BY <1>1, <1>2, <1>3, <1>4

(* A fire whose calls and counters are left alone.                         *)
LEMMA SameBudget ==
    ASSUME Budget, NEW s \in Slot, fire'[s] = fire[s], call'[s] = call[s]
    PROVE  /\ fire'[s].made + Cardinality(Inserts(s)') <= fire'[s].used
           /\ fire'[s].used <= Quota
<1>1. Inserts(s)' = Inserts(s)
  BY DEF Inserts
<1> QED
  BY <1>1 DEF Budget

(* A fire that is new, or over, owes nothing.                              *)
LEMMA LoopBudget ==
    ASSUME TypeOK, Budget, NEW s \in Slot, NEW p \in Task, Loop(s, p)
    PROVE  Budget'
<1> SUFFICES ASSUME NEW t \in Slot
             PROVE  /\ fire'[t].made + Cardinality(Inserts(t)') <= fire'[t].used
                    /\ fire'[t].used <= Quota
  BY DEF Budget, Inserts
<1>0. Quota \in Nat
  BY FollowUpConstants
<1>1. CASE t # s
  <2>1. fire'[t] = fire[t] /\ call'[t] = call[t]
    BY <1>1 DEF Loop, Begin, Succeeds, Fails, Ended, Crash, TypeOK
  <2> QED
    BY <2>1, SameBudget
<1>2. CASE t = s
  <2>1. CASE Begin(s, p)
    <3>1. Inserts(s)' = Inserts(s)
      BY <2>1 DEF Begin, Inserts
    <3>2. fire[s].made = 0 /\ fire[s].used = 0 /\ fire'[s].made = 0 /\ fire'[s].used = 0
      BY <2>1 DEF Begin, NoFire, TypeOK
    <3>3. fire[s].made + Cardinality(Inserts(s)) <= fire[s].used
      BY DEF Budget
    <3> QED
      BY <1>0, <1>2, <3>1, <3>2, <3>3, CountInserts
  <2>2. CASE Succeeds(s, p) \/ Fails(s, p) \/ Crash(s, p)
    <3>1. \A c \in Call : call'[s][c] = NoCall
      BY <2>2 DEF Succeeds, Fails, Ended, Crash, TypeOK
    <3>2. Inserts(s)' = {}
      BY <3>1 DEF Inserts, NoCall
    <3>3. fire'[s].made = 0 /\ fire'[s].used = 0
      BY <2>2 DEF Succeeds, Fails, Ended, Crash, NoFire, TypeOK
    <3> QED
      BY <1>0, <1>2, <3>2, <3>3, FS_EmptySet
  <2> QED
    BY <2>1, <2>2 DEF Loop
<1> QED
  BY <1>1, <1>2

(* A call is counted in the stretch that finds the quota not used up.      *)
LEMMA AskBudget ==
    ASSUME TypeOK, Budget, NEW s \in Slot, NEW c \in Call, Asks(s, c)
    PROVE  Budget'
<1> SUFFICES ASSUME NEW t \in Slot
             PROVE  /\ fire'[t].made + Cardinality(Inserts(t)') <= fire'[t].used
                    /\ fire'[t].used <= Quota
  BY DEF Budget, Inserts
<1>0. /\ fire[t].made \in Nat /\ fire[t].used \in Nat /\ Quota \in Nat
      /\ fire[t].made + Cardinality(Inserts(t)) <= fire[t].used /\ fire[t].used <= Quota
  BY FollowUpConstants DEF TypeOK, Fire, Budget
<1>1. CASE t # s
  <2>1. fire'[t] = fire[t] /\ call'[t] = call[t]
    BY <1>1 DEF Asks, ScheduleTask, RenewTask, CancelTask, Counted, TypeOK
  <2> QED
    BY <2>1, SameBudget
<1>2. ASSUME t = s, NEW u \in Task, NEW at \in now..(now + Ahead), ScheduleTask(s, c, u, at)
      PROVE  /\ fire'[t].made + Cardinality(Inserts(t)') <= fire'[t].used
             /\ fire'[t].used <= Quota
  <2>1. Inserts(t)' = Inserts(t) \cup {c}
    BY <1>2 DEF ScheduleTask, Inserts, TypeOK
  <2>2. fire'[t].made = fire[t].made /\ fire'[t].used = fire[t].used + 1 /\ fire[t].used < Quota
    BY <1>2 DEF ScheduleTask, Counted, TypeOK, Fire
  <2>3. Cardinality(Inserts(t)) \in Nat /\ Cardinality(Inserts(t) \cup {c}) <= Cardinality(Inserts(t)) + 1
    BY CountInserts
  <2>4. Cardinality(Inserts(t) \cup {c}) \in Nat
    BY CountInserts, FS_AddElement, FS_CardinalityType
  <2> QED
    BY <1>0, <2>1, <2>2, <2>3, <2>4
<1>3. ASSUME t = s, NEW u \in Task, NEW at \in now..(now + Ahead), RenewTask(s, c, u, at)
      PROVE  /\ fire'[t].made + Cardinality(Inserts(t)') <= fire'[t].used
             /\ fire'[t].used <= Quota
  <2>1. Inserts(t)' = Inserts(t)
    BY <1>3 DEF RenewTask, Free, NoCall, Inserts, TypeOK
  <2>2. fire'[t] = fire[t]
    BY <1>3 DEF RenewTask
  <2> QED
    BY <1>0, <2>1, <2>2
<1>4. ASSUME NEW u \in Task, CancelTask(s, c, u)
      PROVE  fire'[t] = fire[t] /\ call'[t] = call[t]
  BY <1>4 DEF CancelTask
<1> QED
  BY <1>1, <1>2, <1>3, <1>4, SameBudget DEF Asks

(* A row that comes was an insertion under way.                            *)
LEMMA AnswerBudget ==
    ASSUME TypeOK, Budget, NEW s \in Slot, NEW c \in Call, Answers(s, c)
    PROVE  Budget'
<1> SUFFICES ASSUME NEW t \in Slot
             PROVE  /\ fire'[t].made + Cardinality(Inserts(t)') <= fire'[t].used
                    /\ fire'[t].used <= Quota
  BY DEF Budget, Inserts
<1>0. /\ fire[t].made \in Nat /\ fire[t].used \in Nat /\ Quota \in Nat
      /\ fire[t].made + Cardinality(Inserts(t)) <= fire[t].used /\ fire[t].used <= Quota
  BY FollowUpConstants DEF TypeOK, Fire, Budget
<1>1. CASE t # s
  <2>1. fire'[t] = fire[t] /\ call'[t] = call[t]
    BY <1>1 DEF Answers, CreateTask, CreateFails, UpdateTask, Returns, TypeOK
  <2> QED
    BY <2>1, SameBudget
<1>2. CASE t = s
  <2>1. Inserts(t)' = Inserts(t) \ {c}
    BY <1>2 DEF Answers, CreateTask, CreateFails, UpdateTask, Returns, Inserts, NoCall, TypeOK
  <2>2. CASE CreateTask(s, c)
    <3>1. c \in Inserts(t)
      BY <1>2, <2>2 DEF CreateTask, Awaits, Inserts
    <3>2. fire'[t].made <= fire[t].made + 1 /\ fire'[t].made \in Nat /\ fire'[t].used = fire[t].used
      BY <1>2, <2>2 DEF CreateTask, TypeOK, Fire
    <3>3. Cardinality(Inserts(t)) \in Nat /\ Cardinality(Inserts(t) \ {c}) = Cardinality(Inserts(t)) - 1
      BY <3>1, CountInserts
    <3> QED
      BY <1>0, <2>1, <3>2, <3>3
  <2>3. CASE CreateFails(s, c) \/ UpdateTask(s, c)
    <3>1. fire'[t] = fire[t]
      BY <2>3 DEF CreateFails, UpdateTask
    <3>2. c \in Inserts(t) \/ Inserts(t) \ {c} = Inserts(t)
      OBVIOUS
    <3>5. Cardinality(Inserts(t)) \in Nat /\ Cardinality(Inserts(t)) <= Cardinality(Inserts(t))
      BY CountInserts
    <3>6. c \in Inserts(t) => Cardinality(Inserts(t) \ {c}) = Cardinality(Inserts(t)) - 1
      BY CountInserts
    <3>3. Cardinality(Inserts(t)) \in Nat /\ Cardinality(Inserts(t) \ {c}) <= Cardinality(Inserts(t))
      BY <3>2, <3>5, <3>6
    <3>4. Cardinality(Inserts(t) \ {c}) \in Nat
      BY CountInserts, FS_Subset, FS_CardinalityType
    <3> QED
      BY <1>0, <2>1, <3>1, <3>3, <3>4
  <2> QED
    BY <2>2, <2>3 DEF Answers
<1> QED
  BY <1>1, <1>2

(* A fire leaves no more new rows than maxScheduledTasksPerFire, however   *)
(* its calls overlap (agentic-fire.js, scheduledTaskCount).                *)
THEOREM QuotaIsKept == Spec => []QuotaHolds
<1>1. Init => Budget
  <2> SUFFICES ASSUME Init, NEW s \in Slot
               PROVE  fire[s].made + Cardinality(Inserts(s)) <= fire[s].used /\ fire[s].used <= Quota
    BY DEF Budget
  <2>1. Inserts(s) = {}
    BY DEF Init, Inserts, NoCall
  <2> QED
    BY <2>1, FS_EmptySet, FollowUpConstants DEF Init, NoFire
<1>2. TypeOK /\ Budget /\ [Next]_vars => Budget'
  <2> SUFFICES ASSUME TypeOK, Budget, [Next]_vars PROVE Budget'
    OBVIOUS
  <2>1. ASSUME fire' = fire, call' = call PROVE Budget'
    BY <2>1 DEF Budget, Inserts
  <2>2. ASSUME NEW s \in Slot, NEW p \in Task, Loop(s, p) PROVE Budget'
    BY <2>2, LoopBudget
  <2>3. ASSUME NEW s \in Slot, NEW c \in Call, Asks(s, c) \/ Answers(s, c) PROVE Budget'
    BY <2>3, AskBudget, AnswerBudget
  <2> QED
    BY <2>1, <2>2, <2>3 DEF Next, UserCancels, Advance, vars
<1>3. TypeOK /\ Budget => QuotaHolds
  <2> SUFFICES ASSUME TypeOK, Budget, NEW s \in Slot PROVE fire[s].made <= Quota
    BY DEF QuotaHolds
  <2>1. fire[s].made \in Nat /\ fire[s].used \in Nat /\ Quota \in Nat
    BY FollowUpConstants DEF TypeOK, Fire
  <2> QED
    BY <2>1, CountInserts DEF Budget
<1> QED
  BY <1>1, <1>2, <1>3, TypeCorrect, PTL DEF Spec
=============================================================================

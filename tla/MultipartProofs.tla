-------------------------- MODULE MultipartProofs --------------------------
(***************************************************************************)
(* A multipart payload is handed on at most once, and handed on when all   *)
(* its chunks have arrived in time, for every number of arrivals and       *)
(* chunks, wherever the worker is stopped or a request fails.              *)
(***************************************************************************)
EXTENDS Multipart, SequenceTheorems, FiniteSetTheorems, TLAPS

(* The done marker outlives the pushes of its message: no clock of a       *)
(* behaviour reaches the end of a marker set at any time in it.            *)
MarkerOutlives == MaxTime < 2 * TTL

-----------------------------------------------------------------------------
(* The inductive invariant                                                 *)

InTime == now <= MaxTime /\ \A a \in Arrival : call[a].stamp <= now

(* Only the head of the chain is accepting its chunk.                      *)
InTurn == \A a \in Arrival : call[a].pc \in Accepting => Turn(a)

(* A marker that exists is live to the end; nobody forgets or purges it.   *)
MarkerLive ==
    /\ done > 0 => done > MaxTime
    /\ \A a \in Arrival : call[a].pc \notin {"purgingDone", "forgetting"}

(* Whoever has got past the marker has found none, and none has been set   *)
(* since.                                                                  *)
PastMarker ==
    \A a \in Arrival : call[a].pc \in Accepting \ {"checking"} => done = 0

(* The payload is in the hands of one call, or handed on, or neither; and  *)
(* in the first two cases the message is marked.                           *)
OneHolder ==
    /\ \A a \in Arrival : At(a, "restored") => done > 0 /\ handed = 0
    /\ \A a, b \in Arrival : At(a, "restored") /\ At(b, "restored") => a = b
    /\ handed \in {0, 1}
    /\ handed = 1 => done > 0

Assembly == TypeOK /\ InTime /\ InTurn /\ MarkerLive /\ PastMarker /\ OneHolder

-----------------------------------------------------------------------------
(* A call that joins the chain does not become its head, unless it was     *)
(* empty.                                                                  *)
LEMMA JoinKeepsHead ==
    ASSUME NEW a \in Arrival, NEW s \in Seq(Arrival)
    PROVE  /\ Append(s, a) \in Seq(Arrival)
           /\ Append(s, a) # <<>>
           /\ s # <<>> => Head(Append(s, a)) = Head(s)
BY AppendProperties

LEMMA Stages ==
    {"idle", "queued", "restored", "listing", "purging", "sweeping", "listingDone",
     "purgingDone", "checking", "forgetting", "reading", "dropping", "testing",
     "storing", "saving", "completing", "restoring", "clearing", "discarding",
     "emptying", "marking", "over", "stopped"} \subseteq Stage
BY DEF Stage, Cleaning, Accepting, Over

(* The ways in which actions change a call.                                *)
LEMMA CallUpdate ==
    ASSUME TypeOK, NEW a \in Arrival, NEW pc \in Stage, NEW n \in Nat,
           Goto(a, pc) \/ Rest(a, pc) \/ GotoAt(a, pc, n) \/ GotoWith(a, pc, n)
    PROVE  call' \in [Arrival -> Call]
<1>1. CASE Goto(a, pc)         BY <1>1 DEF TypeOK, Call, Goto
<1>2. CASE GotoAt(a, pc, n)    BY <1>2 DEF TypeOK, Call, GotoAt
<1>3. CASE GotoWith(a, pc, n)
    <2>1. [call[a] EXCEPT !.pc = pc, !.count = n, !.stamp = 0] \in Call
        BY DEF TypeOK, Call
    <2>2. call' = [call EXCEPT ![a] = [call[a] EXCEPT !.pc = pc, !.count = n, !.stamp = 0]]
        BY <1>3 DEF TypeOK, GotoWith
    <2>3. QED BY <2>1, <2>2 DEF TypeOK
<1>4. CASE Rest(a, pc)         BY <1>4 DEF TypeOK, Call, Rest
<1>5. QED BY <1>1, <1>2, <1>3, <1>4

LEMMA AssemblyInit == ASSUME Init PROVE Assembly
<1>1. call \in [Arrival -> Call]
    BY MultipartConstants, Stages DEF Init, Call, Index
<1>2. chain \in Seq(Arrival)
    BY DEF Init
<1>3. TypeOK
    BY <1>1, <1>2 DEF Init, TypeOK
<1>4. InTime /\ InTurn /\ MarkerLive /\ PastMarker /\ OneHolder
    BY MultipartConstants
       DEF Init, InTime, InTurn, MarkerLive, PastMarker, OneHolder, At, Accepting
<1>5. QED BY <1>3, <1>4 DEF Assembly

-----------------------------------------------------------------------------
(* Type correctness                                                        *)

(* A call whose turn it is can leave the chain.                            *)
LEMMA LeaveKeepsType ==
    ASSUME TypeOK, NEW a \in Arrival, Turn(a), NEW pc \in Stage, Leave(a, pc)
    PROVE  call' \in [Arrival -> Call] /\ chain' \in Seq(Arrival)
<1>1. call' \in [Arrival -> Call]
    BY CallUpdate DEF Leave
<1>2. chain \in Seq(Arrival) /\ chain # <<>>
    BY DEF TypeOK, Turn
<1>3. QED BY <1>1, <1>2, HeadTailProperties DEF Leave

LEMMA CleaningType ==
    ASSUME TypeOK, NEW a \in Arrival,
           \/ ListExpired(a) \/ PurgePending(a) \/ SweepChunks(a)
           \/ ListDone(a) \/ PurgeDone(a)
    PROVE  TypeOK'
<1>1. call' \in [Arrival -> Call]
    <2>1. PICK pc \in Stage : Goto(a, pc) \/ Rest(a, pc)
        BY Stages DEF ListExpired, PurgePending, SweepChunks, ListDone, PurgeDone, Queue
    <2>2. QED BY <2>1, CallUpdate
<1>2. chain' \in Seq(Arrival)
    BY JoinKeepsHead
       DEF ListExpired, PurgePending, SweepChunks, ListDone, PurgeDone, Queue, TypeOK
<1>3. pending' \in Nat /\ done' \in Nat /\ chunks' \subseteq Index
    BY DEF ListExpired, PurgePending, SweepChunks, ListDone, PurgeDone, TypeOK, stores
<1>4. UNCHANGED <<now, fits, faults, handed, interrupted>> /\ expired' \in BOOLEAN
    BY DEF ListExpired, PurgePending, SweepChunks, ListDone, PurgeDone, TypeOK,
           historyVars
<1>5. QED BY <1>1, <1>2, <1>3, <1>4 DEF TypeOK

(* Accepting a chunk, up to the point where it is stored.                  *)
LEMMA CheckingType ==
    ASSUME TypeOK, InTurn, NEW a \in Arrival,
           \/ Begin(a) \/ CheckDone(a) \/ ForgetDone(a)
           \/ ReadPending(a) \/ DropExpired(a) \/ TestChunk(a)
    PROVE  TypeOK'
<1>1. call' \in [Arrival -> Call]
    <2>1. call[a].count + 1 \in Nat /\ pending \in Nat /\ now \in Nat
        BY DEF TypeOK, Call
    <2>2. \E pc \in Stage, n \in Nat :
             Goto(a, pc) \/ Rest(a, pc) \/ GotoAt(a, pc, n) \/ GotoWith(a, pc, n)
        BY <2>1, Stages
           DEF Begin, CheckDone, ForgetDone, ReadPending, DropExpired, TestChunk, Leave, Rest
    <2>3. QED BY <2>2, CallUpdate
<1>2. chain' \in Seq(Arrival)
    <2>1. CASE chain' = chain
        BY <2>1 DEF TypeOK
    <2>2. CASE chain' # chain
        <3>1. Turn(a) /\ chain' = Tail(chain)
            BY <2>2 DEF InTurn, Begin, CheckDone, ForgetDone, ReadPending, DropExpired,
                        TestChunk, Leave, Rest, At, Accepting
        <3>2. QED BY <3>1, HeadTailProperties DEF Turn, TypeOK
    <2>3. QED BY <2>1, <2>2
<1>3. pending' \in Nat /\ done' \in Nat /\ chunks' \subseteq Index
    BY DEF Begin, CheckDone, ForgetDone, ReadPending, DropExpired, TestChunk, TypeOK, stores
<1>4. UNCHANGED <<now, fits, faults, handed, interrupted>> /\ expired' \in BOOLEAN
    BY DEF Begin, CheckDone, ForgetDone, ReadPending, DropExpired, TestChunk, TypeOK,
           historyVars
<1>5. QED BY <1>1, <1>2, <1>3, <1>4 DEF TypeOK

(* Accepting a chunk, from the point where it is stored.                   *)
LEMMA StoringType ==
    ASSUME TypeOK, InTurn, NEW a \in Arrival,
           \/ Discard(a) \/ StoreChunk(a) \/ SavePending(a) \/ Complete(a) \/ Restore(a)
           \/ EmptyChunks(a) \/ ClearChunks(a) \/ MarkDone(a) \/ HandOn(a)
    PROVE  TypeOK'
<1>1. call' \in [Arrival -> Call]
    <2>1. PICK pc \in Stage : Goto(a, pc) \/ Rest(a, pc)
        BY Stages
           DEF Discard, StoreChunk, SavePending, Complete, Restore, EmptyChunks,
               ClearChunks, MarkDone, HandOn, Leave, Rest
    <2>2. QED BY <2>1, CallUpdate
<1>2. chain' \in Seq(Arrival)
    <2>1. CASE chain' = chain
        BY <2>1 DEF TypeOK
    <2>2. CASE chain' # chain
        <3>1. Turn(a) /\ chain' = Tail(chain)
            BY <2>2 DEF InTurn, Discard, StoreChunk, SavePending, Complete, Restore,
                        EmptyChunks, ClearChunks, MarkDone, HandOn, Leave, Rest, At, Accepting
        <3>2. QED BY <3>1, HeadTailProperties DEF Turn, TypeOK
    <2>3. QED BY <2>1, <2>2
<1>3. pending' \in Nat /\ done' \in Nat /\ chunks' \subseteq Index /\ handed' \in Nat
    <2>1. CASE Restore(a)
        BY <2>1 DEF Restore, TypeOK, stores
    <2>2. CASE \/ Discard(a) \/ StoreChunk(a) \/ SavePending(a) \/ Complete(a)
               \/ EmptyChunks(a) \/ ClearChunks(a) \/ MarkDone(a) \/ HandOn(a)
        BY <2>2, MultipartConstants, SMTT(20)
           DEF Discard, StoreChunk, SavePending, Complete, EmptyChunks, ClearChunks,
               MarkDone, HandOn, TypeOK, Call, StoredAs, stores, historyVars
    <2>3. QED BY <2>1, <2>2
<1>4. UNCHANGED <<now, fits, expired>> /\ faults' \in Nat /\ interrupted' \in BOOLEAN
    <2>1. CASE Restore(a)
        <3>1. UNCHANGED <<now, fits, expired>> /\ (UNCHANGED <<faults, interrupted>> \/ Fault)
            BY <2>1 DEF Restore
        <3>2. faults' \in Nat
            BY <3>1 DEF Fault, TypeOK
        <3>3. interrupted' \in BOOLEAN
            BY <3>1 DEF Fault, TypeOK
        <3>4. QED BY <3>1, <3>2, <3>3
    <2>2. CASE \/ Discard(a) \/ StoreChunk(a) \/ SavePending(a) \/ Complete(a)
               \/ EmptyChunks(a) \/ ClearChunks(a) \/ MarkDone(a) \/ HandOn(a)
        BY <2>2 DEF Discard, StoreChunk, SavePending, Complete, EmptyChunks, ClearChunks,
                    MarkDone, HandOn, TypeOK, historyVars
    <2>3. QED BY <2>1, <2>2
<1>5. QED BY <1>1, <1>2, <1>3, <1>4 DEF TypeOK

(* What the end of the worker does to a call.                              *)
LEMMA StopEffect ==
    ASSUME TypeOK, StopWorker, NEW b \in Arrival
    PROVE  /\ call'[b] \in Call
           /\ call'[b].pc \in {call[b].pc, "stopped"} \ Accepting
           /\ call'[b].stamp \in {call[b].stamp, 0}
<1>1. call[b] \in Call
    BY DEF TypeOK
<1>2. CASE call[b].pc \in Over \cup {"idle"}
    <2>1. call'[b] = call[b]
        BY <1>2 DEF StopWorker
    <2>2. QED BY <1>1, <1>2, <2>1 DEF Over, Accepting
<1>3. CASE call[b].pc \notin Over \cup {"idle"}
    <2>1. call'[b] = [call[b] EXCEPT !.pc = "stopped", !.count = 0, !.stamp = 0]
        BY <1>3 DEF StopWorker
    <2>2. call'[b] \in Call
        <3>1. call'[b] = [pc |-> "stopped", index |-> call[b].index, count |-> 0, stamp |-> 0]
            BY <1>1, <2>1 DEF Call
        <3>2. "stopped" \in Stage /\ call[b].index \in Index
            BY <1>1, Stages DEF Call
        <3>3. QED BY <3>1, <3>2 DEF Call
    <2>3. call'[b].pc = "stopped" /\ call'[b].stamp = 0
        BY <1>1, <2>1 DEF Call
    <2>4. QED BY <2>2, <2>3 DEF Accepting
<1>4. QED BY <1>2, <1>3

LEMMA TypeStep == ASSUME TypeOK, InTurn, [Next]_vars PROVE TypeOK'
<1>1. ASSUME NEW a \in Arrival, Receive(a) PROVE TypeOK'
    <2>1. PICK i \in Index, pc \in {"listing", "queued"} :
              /\ call' = [call EXCEPT ![a].pc = pc, ![a].index = i,
                                       ![a].stamp = IF pc = "listing" THEN now ELSE 0]
              /\ chain' = IF pc = "queued" THEN Append(chain, a) ELSE chain
        BY <1>1 DEF Receive
    <2>2. pc \in Stage
        BY Stages
    <2>3. call' \in [Arrival -> Call]
        BY <2>1, <2>2, ZenonT(30) DEF TypeOK, Call
    <2>4. chain' \in Seq(Arrival)
        BY <2>1, JoinKeepsHead DEF TypeOK
    <2>5. QED BY <1>1, <2>3, <2>4 DEF Receive, TypeOK, stores, historyVars
<1>2. ASSUME NEW a \in Arrival, RequestFails(a) PROVE TypeOK'
    <2>1. call' \in [Arrival -> Call] /\ chain' \in Seq(Arrival)
        <3>1. CASE call[a].pc \in Accepting /\ Leave(a, "stopped")
            BY <3>1, Stages, LeaveKeepsType DEF InTurn
        <3>2. CASE Queue(a)
            <4>1. call' \in [Arrival -> Call]
                <5>1. Rest(a, "queued") /\ "queued" \in Stage /\ 0 \in Nat
                    BY <3>2, Stages DEF Queue
                <5>2. QED BY <5>1, CallUpdate
            <4>2. QED BY <3>2, <4>1, JoinKeepsHead DEF Queue, TypeOK
        <3>3. QED BY <1>2, <3>1, <3>2 DEF RequestFails
    <2>2. QED BY <1>2, <2>1 DEF RequestFails, Fault, TypeOK, stores
<1>3. CASE StopWorker
    <2>1. call' \in [Arrival -> Call]
        BY <1>3, StopEffect DEF StopWorker
    <2>2. chain' = <<>> /\ Fault /\ UNCHANGED <<now, fits, stores, handed, expired>>
        BY <1>3 DEF StopWorker
    <2>3. QED BY <2>1, <2>2 DEF Fault, TypeOK, stores
<1>4. CASE Advance
    BY <1>4 DEF Advance, TypeOK, stores, historyVars
<1>5. CASE UNCHANGED vars
    BY <1>5 DEF vars, TypeOK, stores, historyVars
<1>6. QED
    BY <1>1, <1>2, <1>3, <1>4, <1>5, CleaningType, CheckingType, StoringType
       DEF Next, Step
-----------------------------------------------------------------------------
(* The rest of the invariant                                               *)

(* What the ways of changing a call leave of it, and of the others.        *)
LEMMA GotoEffect ==
    ASSUME TypeOK, NEW a \in Arrival, NEW pc, Goto(a, pc) \/ Rest(a, pc)
    PROVE  /\ \A b \in Arrival \ {a} : call'[b] = call[b]
           /\ call'[a].pc = pc
           /\ call'[a].stamp \in {call[a].stamp, 0}
<1>1. CASE Goto(a, pc)         BY <1>1 DEF TypeOK, Call, Goto
<1>2. CASE Rest(a, pc)         BY <1>2 DEF TypeOK, Call, Rest
<1>3. QED BY <1>1, <1>2

LEMMA GotoAtEffect ==
    ASSUME TypeOK, NEW a \in Arrival, NEW pc, NEW instant, GotoAt(a, pc, instant)
    PROVE  /\ \A b \in Arrival \ {a} : call'[b] = call[b]
           /\ call'[a].pc = pc
           /\ call'[a].stamp = instant
BY DEF TypeOK, Call, GotoAt

LEMMA GotoWithEffect ==
    ASSUME TypeOK, NEW a \in Arrival, NEW pc, NEW n, GotoWith(a, pc, n)
    PROVE  /\ \A b \in Arrival \ {a} : call'[b] = call[b]
           /\ call'[a].pc = pc
           /\ call'[a].stamp = 0
BY DEF TypeOK, Call, GotoWith

(* A step of a call leaves the other calls alone; unless it begins, it is  *)
(* accepting before the step if it is afterwards; and it leaves the chain  *)
(* only when it is no longer accepting.                                    *)
LEMMA StepEffect ==
    ASSUME TypeOK, NEW a \in Arrival, Step(a)
    PROVE  /\ \A b \in Arrival \ {a} : call'[b] = call[b]
           /\ call'[a].pc \in Accepting => Turn(a) \/ call[a].pc \in Accepting
           /\ \/ chain' = chain
              \/ chain' = Append(chain, a) /\ call'[a].pc \notin Accepting
              \/ chain' = Tail(chain) /\ call'[a].pc \notin Accepting
                    /\ (Turn(a) \/ call[a].pc \in Accepting)
           /\ call'[a].stamp \in {call[a].stamp, now, 0}
           /\ now' = now
<1> USE DEF Leave, Queue, At, Accepting
<1>1. CASE ListExpired(a)      BY <1>1, GotoEffect DEF ListExpired
<1>2. CASE PurgePending(a)     BY <1>2, GotoEffect DEF PurgePending
<1>3. CASE SweepChunks(a)      BY <1>3, GotoEffect DEF SweepChunks
<1>4. CASE ListDone(a)         BY <1>4, GotoEffect DEF ListDone
<1>5. CASE PurgeDone(a)        BY <1>5, GotoEffect DEF PurgeDone
<1>6. CASE Begin(a)            BY <1>6, GotoEffect DEF Begin
<1>7. CASE CheckDone(a)
    <2>1. CASE Leave(a, "over")
        BY <1>7, <2>1, GotoEffect DEF CheckDone
    <2>2. CASE ~Leave(a, "over")
        <3>1. PICK pc \in {"forgetting", "reading"} : GotoAt(a, pc, now)
            BY <1>7, <2>2 DEF CheckDone
        <3>2. QED BY <1>7, <2>2, <3>1, GotoAtEffect DEF CheckDone
    <2>3. QED BY <2>1, <2>2
<1>8. CASE ForgetDone(a)       BY <1>8, GotoAtEffect DEF ForgetDone
<1>9. CASE ReadPending(a)
    <2>1. PICK pc \in {"dropping", "testing"}, n \in Nat : GotoWith(a, pc, n)
        BY <1>9 DEF ReadPending, TypeOK, Call
    <2>2. QED BY <1>9, <2>1, GotoWithEffect DEF ReadPending
<1>10. CASE DropExpired(a)     BY <1>10, GotoEffect DEF DropExpired
<1>11. CASE TestChunk(a)
    <2>1. CASE Leave(a, "over")
        BY <1>11, <2>1, GotoEffect DEF TestChunk
    <2>2. CASE ~Leave(a, "over")
        <3>1. PICK pc \in {"discarding", "storing"} : GotoWith(a, pc, call[a].count + 1)
            BY <1>11, <2>2 DEF TestChunk
        <3>2. QED BY <1>11, <2>2, <3>1, GotoWithEffect DEF TestChunk
    <2>3. QED BY <2>1, <2>2
<1>12. CASE Discard(a)         BY <1>12, GotoEffect DEF Discard
<1>13. CASE StoreChunk(a)      BY <1>13, GotoEffect DEF StoreChunk
<1>14. CASE SavePending(a)     BY <1>14, GotoEffect DEF SavePending
<1>15. CASE Complete(a)        BY <1>15, GotoEffect DEF Complete
<1>16. CASE Restore(a)
    <2>1. PICK pc \in {"clearing", "emptying"} : Goto(a, pc)
        BY <1>16 DEF Restore
    <2>2. QED BY <1>16, <2>1, GotoEffect DEF Restore
<1>17. CASE EmptyChunks(a)     BY <1>17, GotoEffect DEF EmptyChunks
<1>18. CASE ClearChunks(a)     BY <1>18, GotoEffect DEF ClearChunks
<1>19. CASE MarkDone(a)        BY <1>19, GotoEffect DEF MarkDone
<1>20. CASE HandOn(a)          BY <1>20, GotoEffect DEF HandOn
<1>21. QED
    BY <1>1, <1>2, <1>3, <1>4, <1>5, <1>6, <1>7, <1>8, <1>9, <1>10,
       <1>11, <1>12, <1>13, <1>14, <1>15, <1>16, <1>17, <1>18, <1>19, <1>20 DEF Step

LEMMA InTurnStep == ASSUME TypeOK, InTurn, [Next]_vars PROVE InTurn'
<1>1. ASSUME NEW a \in Arrival, Step(a) PROVE InTurn'
    <2> SUFFICES ASSUME NEW b \in Arrival, call'[b].pc \in Accepting PROVE Turn(b)'
        BY DEF InTurn
    <2>1. call[b].pc \in Accepting \/ (b = a /\ Turn(a))
        BY <1>1, StepEffect
    <2>2. Turn(b)
        BY <2>1 DEF InTurn
    <2>3. CASE chain' = chain
        BY <2>2, <2>3 DEF Turn
    <2>4. CASE chain' = Append(chain, a)
        BY <2>2, <2>4, JoinKeepsHead DEF Turn, TypeOK
    <2>5. CASE chain' = Tail(chain) /\ chain' # chain /\ chain' # Append(chain, a)
        \* Whoever is accepting is the head, and the head has just left.
        <3>1. Turn(a) /\ call'[a].pc \notin Accepting
            BY <1>1, <2>5, StepEffect DEF InTurn
        <3>2. QED BY <2>2, <3>1 DEF Turn
    <2>6. QED BY <1>1, <2>3, <2>4, <2>5, StepEffect
<1>2. ASSUME NEW a \in Arrival, Receive(a) PROVE InTurn'
    <2> SUFFICES ASSUME NEW b \in Arrival, call'[b].pc \in Accepting PROVE Turn(b)'
        BY DEF InTurn
    <2>1. b # a /\ call'[b] = call[b]
        BY <1>2 DEF Receive, TypeOK, Call, Accepting
    <2>2. Turn(b)
        BY <2>1 DEF InTurn
    <2>3. chain' \in {chain, Append(chain, a)}
        BY <1>2 DEF Receive
    <2>4. QED BY <2>2, <2>3, JoinKeepsHead DEF Turn, TypeOK
<1>3. ASSUME NEW a \in Arrival, RequestFails(a) PROVE InTurn'
    <2> SUFFICES ASSUME NEW b \in Arrival, call'[b].pc \in Accepting PROVE Turn(b)'
        BY DEF InTurn
    <2>1. b # a /\ call'[b] = call[b]
        <3>1. PICK pc \in {"stopped", "queued"} : Rest(a, pc)
            BY <1>3 DEF RequestFails, Leave, Queue
        <3>2. pc \notin Accepting
            BY DEF Accepting
        <3>3. QED BY <3>1, <3>2 DEF Rest, TypeOK, Call
    <2>2. Turn(b)
        BY <2>1 DEF InTurn
    <2>3. CASE call[a].pc \in Accepting
        BY <2>1, <2>2, <2>3 DEF InTurn, Turn
    <2>4. CASE chain' = Append(chain, a)
        BY <2>2, <2>4, JoinKeepsHead DEF Turn, TypeOK
    <2>5. QED BY <1>3, <2>3, <2>4 DEF RequestFails, Queue
<1>4. CASE StopWorker
    BY <1>4, StopEffect DEF InTurn
<1>5. CASE Advance
    BY <1>5 DEF Advance, InTurn, Turn
<1>6. CASE UNCHANGED vars
    BY <1>6 DEF vars, InTurn, Turn
<1>7. QED BY <1>1, <1>2, <1>3, <1>4, <1>5, <1>6 DEF Next

LEMMA InTimeStep == ASSUME TypeOK, InTime, [Next]_vars PROVE InTime'
<1>1. ASSUME NEW a \in Arrival, Step(a) PROVE InTime'
    BY <1>1, StepEffect DEF InTime, TypeOK
<1>2. ASSUME NEW a \in Arrival, Receive(a) PROVE InTime'
    BY <1>2 DEF Receive, InTime, TypeOK, Call
<1>3. ASSUME NEW a \in Arrival, RequestFails(a) PROVE InTime'
    <2>1. PICK pc \in {"stopped", "queued"} : Rest(a, pc)
        BY <1>3 DEF RequestFails, Leave, Queue
    <2>2. QED BY <1>3, <2>1 DEF RequestFails, Rest, InTime, TypeOK, Call
<1>4. CASE StopWorker
    <2>1. now' = now
        BY <1>4 DEF StopWorker
    <2>2. QED BY <1>4, <2>1, StopEffect DEF InTime, TypeOK
<1>5. CASE Advance
    <2>1. \A a \in Arrival : call'[a].stamp = call[a].stamp /\ call[a].stamp \in Nat
        BY <1>5 DEF Advance, TypeOK, Call
    <2>2. now' = now + 1 /\ now' <= MaxTime /\ now \in Nat
        BY <1>5, MultipartConstants DEF Advance, TypeOK
    <2>3. QED BY <2>1, <2>2 DEF InTime
<1>6. CASE UNCHANGED vars
    BY <1>6 DEF vars, InTime
<1>7. QED BY <1>1, <1>2, <1>3, <1>4, <1>5, <1>6 DEF Next

(* What a step of a call does to the marker, and where it leads.           *)
LEMMA MarkerStages ==
    ASSUME TypeOK, NEW a \in Arrival, Step(a)
    PROVE  /\ MarkDone(a) \/ PurgeDone(a) \/ ForgetDone(a) \/ done' = done
           /\ call'[a].pc = "purgingDone" => done > 0 /\ done <= call[a].stamp
           /\ call'[a].pc = "forgetting" => done > 0 /\ ~MarkedDone
           /\ call'[a].pc \in Accepting \ {"checking"}
                => CheckDone(a) \/ call[a].pc \in Accepting \ {"checking"}
<1> USE DEF TypeOK, Goto, Rest, GotoAt, GotoWith, Leave, Queue, At, Accepting, Call, stores
<1>1. CASE ListExpired(a) \/ PurgePending(a) \/ SweepChunks(a) \/ ListDone(a) \/ PurgeDone(a)
    <2>1. ~CheckDone(a) /\ call'[a].pc \notin Accepting
        BY <1>1 DEF ListExpired, PurgePending, SweepChunks, ListDone, PurgeDone, CheckDone
    <2>2. call'[a].pc = "purgingDone" => ListDone(a)
        BY <1>1 DEF ListExpired, PurgePending, SweepChunks, ListDone, PurgeDone
    <2>3. ListDone(a) /\ call'[a].pc = "purgingDone" => done > 0 /\ done <= call[a].stamp
        BY DEF ListDone
    <2>4. PurgeDone(a) \/ done' = done
        BY <1>1 DEF ListExpired, PurgePending, SweepChunks, ListDone
    <2>5. QED BY <2>1, <2>2, <2>3, <2>4
<1>2. CASE Begin(a)
    BY <1>2, SMTT(20) DEF Begin, CheckDone
<1>3. CASE CheckDone(a)
    <2>1. done' = done
        BY <1>3 DEF CheckDone
    <2>2. call'[a].pc \in {"over", "forgetting", "reading"}
        BY <1>3 DEF CheckDone
    <2>3. call'[a].pc = "forgetting" => done > 0 /\ ~MarkedDone
        BY <1>3 DEF CheckDone
    <2>4. QED BY <1>3, <2>1, <2>2, <2>3
<1>4. CASE ForgetDone(a) \/ ReadPending(a) \/ DropExpired(a) \/ TestChunk(a)
    <2>1. call[a].pc \in Accepting \ {"checking"}
        BY <1>4 DEF ForgetDone, ReadPending, DropExpired, TestChunk
    <2>2. call'[a].pc \notin {"purgingDone", "forgetting"}
        BY <1>4 DEF ForgetDone, ReadPending, DropExpired, TestChunk
    <2>3. ForgetDone(a) \/ done' = done
        BY <1>4 DEF ReadPending, DropExpired, TestChunk
    <2>4. QED BY <2>1, <2>2, <2>3
<1>5. CASE Discard(a) \/ StoreChunk(a) \/ SavePending(a) \/ Complete(a) \/ Restore(a)
    BY <1>5 DEF Discard, StoreChunk, SavePending, Complete, Restore, CheckDone
<1>6. CASE EmptyChunks(a) \/ ClearChunks(a) \/ MarkDone(a) \/ HandOn(a)
    <2>1. call[a].pc \in {"emptying", "clearing", "marking", "restored"}
        BY <1>6 DEF EmptyChunks, ClearChunks, MarkDone, HandOn
    <2>2. call'[a].pc \in {"over", "marking", "restored"}
        BY <1>6 DEF EmptyChunks, ClearChunks, MarkDone, HandOn
    <2>3. call'[a].pc = "marking" => call[a].pc = "clearing"
        BY <1>6 DEF EmptyChunks, ClearChunks, MarkDone, HandOn
    <2>4. MarkDone(a) \/ done' = done
        BY <1>6 DEF EmptyChunks, ClearChunks, HandOn
    <2>5. QED BY <2>1, <2>2, <2>3, <2>4
<1>7. QED BY <1>1, <1>2, <1>3, <1>4, <1>5, <1>6 DEF Step

(* The marker is set once and stays: no step past it sets another one or   *)
(* takes it away.                                                          *)
LEMMA MarkerEffect ==
    ASSUME Assembly, MarkerOutlives, NEW a \in Arrival, Step(a)
    PROVE  /\ MarkDone(a) => done = 0 /\ done' > MaxTime
           /\ ~MarkDone(a) => done' = done
           /\ call'[a].pc \notin {"purgingDone", "forgetting"}
           /\ call'[a].pc \in Accepting \ {"checking"} => done' = 0
<1>1. ~PurgeDone(a) /\ ~ForgetDone(a)
    BY DEF Assembly, PurgeDone, ForgetDone, MarkerLive, At
<1>2. done \in Nat /\ now \in Nat /\ call[a].stamp \in Nat /\ TTL \in Nat /\ MaxTime \in Nat
    BY MultipartConstants DEF Assembly, TypeOK, Call
<1>3. (done > 0 => MarkedDone) /\ ~(done > 0 /\ done <= call[a].stamp)
    BY <1>2 DEF Assembly, MarkerLive, InTime, MarkedDone
<1>4. MarkDone(a) => done = 0 /\ done' > MaxTime /\ call'[a].pc = "restored"
    BY <1>2 DEF Assembly, MarkDone, MarkerOutlives, PastMarker, Leave, Goto, Rest, At, TypeOK, Call,
                Accepting
<1>5. ~MarkDone(a) => done' = done
    BY <1>1, MarkerStages DEF Assembly
<1>6. call'[a].pc \notin {"purgingDone", "forgetting"}
    BY <1>3, MarkerStages DEF Assembly
<1>7. ASSUME call'[a].pc \in Accepting \ {"checking"} PROVE done' = 0
    <2>1. ~MarkDone(a)
        BY <1>4, <1>7 DEF Accepting
    <2>2. CASE CheckDone(a)
        <3>1. ~MarkedDone
            BY <1>7, <2>2 DEF CheckDone, Leave, Goto, Rest, Assembly, TypeOK, Call, Accepting
        <3>2. QED BY <1>2, <1>3, <1>5, <2>1, <3>1
    <2>3. CASE call[a].pc \in Accepting \ {"checking"}
        BY <1>5, <2>1, <2>3 DEF Assembly, PastMarker
    <2>4. QED BY <1>7, <2>2, <2>3, MarkerStages DEF Assembly
<1>8. QED BY <1>4, <1>5, <1>6, <1>7

(* Who has the payload: MarkDone alone takes it, HandOn alone passes it on. *)
LEMMA HolderEffect ==
    ASSUME TypeOK, NEW a \in Arrival, Step(a)
    PROVE  /\ At(a, "restored")' => MarkDone(a)
           /\ handed' = IF HandOn(a) THEN handed + 1 ELSE handed
           /\ HandOn(a) => At(a, "restored") /\ ~MarkDone(a)
<1> USE DEF TypeOK, Call, At, Goto, Rest, GotoAt, GotoWith, Leave, Queue, historyVars, HandOn, MarkDone
<1>1. CASE ListExpired(a) \/ PurgePending(a) \/ SweepChunks(a) \/ ListDone(a) \/ PurgeDone(a)
    BY <1>1 DEF ListExpired, PurgePending, SweepChunks, ListDone, PurgeDone
<1>2. CASE Begin(a) \/ CheckDone(a) \/ ForgetDone(a)
    BY <1>2 DEF Begin, CheckDone, ForgetDone
<1>3. CASE ReadPending(a) \/ DropExpired(a) \/ TestChunk(a)
    <2>1. CASE ReadPending(a)   BY <2>1 DEF ReadPending
    <2>2. CASE DropExpired(a)   BY <2>2 DEF DropExpired
    <2>3. CASE TestChunk(a)     BY <2>3 DEF TestChunk
    <2>4. QED BY <1>3, <2>1, <2>2, <2>3
<1>4. CASE Discard(a) \/ StoreChunk(a) \/ SavePending(a) \/ Complete(a) \/ Restore(a)
    <2>1. CASE Discard(a)       BY <2>1 DEF Discard
    <2>2. CASE StoreChunk(a)    BY <2>2 DEF StoreChunk
    <2>3. CASE SavePending(a)   BY <2>3 DEF SavePending
    <2>4. CASE Complete(a)      BY <2>4 DEF Complete
    <2>5. CASE Restore(a)       BY <2>5 DEF Restore
    <2>6. QED BY <1>4, <2>1, <2>2, <2>3, <2>4, <2>5
<1>5. CASE EmptyChunks(a) \/ ClearChunks(a) \/ MarkDone(a) \/ HandOn(a)
    BY <1>5 DEF EmptyChunks, ClearChunks
<1>6. QED BY <1>1, <1>2, <1>3, <1>4, <1>5 DEF Step

LEMMA MarkerStep ==
    ASSUME Assembly, MarkerOutlives, [Next]_vars
    PROVE  MarkerLive' /\ PastMarker' /\ OneHolder'
<1>1. ASSUME NEW a \in Arrival, Step(a) PROVE MarkerLive' /\ PastMarker' /\ OneHolder'
    <2>1. \A b \in Arrival \ {a} : call'[b] = call[b]
        BY <1>1, StepEffect DEF Assembly
    <2>2. MarkerLive'
        BY <1>1, <2>1, MarkerEffect DEF Assembly, MarkerLive
    <2>3. PastMarker'
        <3> SUFFICES ASSUME NEW b \in Arrival, call'[b].pc \in Accepting \ {"checking"}
                     PROVE  done' = 0
            BY DEF PastMarker
        <3>1. CASE b = a
            BY <1>1, <3>1, MarkerEffect
        <3>2. CASE b # a
            \* Then b is the head of the chain, and a has not set the marker.
            <4>1. call[b].pc \in Accepting /\ done = 0
                BY <2>1, <3>2 DEF Assembly, PastMarker
            <4>2. ~MarkDone(a)
                BY <3>2, <4>1 DEF Assembly, InTurn, Turn, MarkDone, At, Accepting
            <4>3. QED BY <1>1, <4>1, <4>2, MarkerEffect
        <3>3. QED BY <3>1, <3>2
    <2>4. OneHolder'
        <3>1. CASE MarkDone(a)
            \* Nobody has had the payload before.
            <4>1. handed = 0 /\ handed' = 0 /\ done' > 0
                BY <1>1, <3>1, MarkerEffect, HolderEffect, MultipartConstants
                   DEF Assembly, OneHolder, TypeOK, MarkDone
            <4>2. \A b \in Arrival : At(b, "restored")' => b = a
                BY <1>1, <2>1, <3>1, MarkerEffect DEF Assembly, OneHolder, At
            <4>3. QED BY <4>1, <4>2 DEF OneHolder
        <3>2. CASE HandOn(a)
            <4>1. handed = 0 /\ handed' = 1 /\ done > 0 /\ done' = done
                BY <1>1, <3>2, MarkerEffect, HolderEffect DEF Assembly, OneHolder
            <4>2. \A b \in Arrival : ~At(b, "restored")'
                BY <1>1, <2>1, <3>2, HolderEffect DEF Assembly, OneHolder, At
            <4>3. QED BY <4>1, <4>2 DEF OneHolder
        <3>3. CASE ~MarkDone(a) /\ ~HandOn(a)
            <4>1. handed' = handed /\ done' = done
                BY <1>1, <3>3, MarkerEffect, HolderEffect DEF Assembly
            <4>2. \A b \in Arrival : At(b, "restored")' => At(b, "restored")
                BY <1>1, <2>1, <3>3, HolderEffect DEF Assembly, At
            <4>3. QED BY <4>1, <4>2 DEF Assembly, OneHolder
        <3>4. QED BY <3>1, <3>2, <3>3
    <2>5. QED BY <2>2, <2>3, <2>4
<1>2. ASSUME \/ \E a \in Arrival : Receive(a) \/ RequestFails(a)
             \/ StopWorker \/ Advance \/ UNCHANGED vars
      PROVE  MarkerLive' /\ PastMarker' /\ OneHolder'
    <2>1. ASSUME NEW b \in Arrival
          PROVE  call'[b].pc \in {call[b].pc, "listing", "queued", "stopped"}
        <3>1. ASSUME NEW a \in Arrival, Receive(a)
              PROVE  call'[b].pc \in {call[b].pc, "listing", "queued", "stopped"}
            BY <3>1 DEF Receive, Assembly, TypeOK, Call
        <3>2. ASSUME NEW a \in Arrival, RequestFails(a)
              PROVE  call'[b].pc \in {call[b].pc, "listing", "queued", "stopped"}
            <4>1. PICK pc \in {"stopped", "queued"} : Rest(a, pc)
                BY <3>2 DEF RequestFails, Leave, Queue
            <4>2. QED BY <4>1 DEF Rest, Assembly, TypeOK, Call
        <3>3. CASE StopWorker
            BY <3>3, StopEffect DEF Assembly
        <3>4. CASE Advance \/ UNCHANGED vars
            BY <3>4 DEF Advance, vars
        <3>5. QED BY <1>2, <3>1, <3>2, <3>3, <3>4
    <2>2. done' = done /\ handed' = handed
        BY <1>2 DEF Receive, RequestFails, StopWorker, Advance, vars, stores, historyVars
    <2>3. QED BY <2>1, <2>2 DEF Assembly, MarkerLive, PastMarker, OneHolder, At, Accepting
<1>3. QED BY <1>1, <1>2 DEF Next

-----------------------------------------------------------------------------
(* Every variable keeps its type; that a call can leave the chain rests on *)
(* its being the head.                                                     *)
THEOREM TypeCorrect == Spec => []TypeOK
<1>1. Init => TypeOK /\ InTurn
    BY AssemblyInit DEF Assembly
<1>2. TypeOK /\ InTurn /\ [Next]_vars => TypeOK' /\ InTurn'
    BY TypeStep, InTurnStep
<1>3. QED BY <1>1, <1>2, PTL DEF Spec

(* However often the chunks of a message are pushed, wherever the worker   *)
(* is stopped or a request fails, the payload is handed on at most once,   *)
(* provided its done marker outlives its pushes.                           *)
THEOREM HandedOnOnce == MarkerOutlives => (Spec => []HandedOnce)
<1> SUFFICES ASSUME MarkerOutlives PROVE Spec => []HandedOnce
    OBVIOUS
<1>1. Init => Assembly
    BY AssemblyInit
<1>2. Assembly /\ [Next]_vars => Assembly'
    BY TypeStep, InTurnStep, InTimeStep, MarkerStep DEF Assembly
<1>3. Assembly => HandedOnce
    BY DEF Assembly, OneHolder, HandedOnce
<1>4. QED BY <1>1, <1>2, <1>3, PTL DEF Spec

-----------------------------------------------------------------------------
(* Counts and chunks                                                       *)

(* Whoever is about to throw the message away as expired will say so.      *)
Doomed == \E a \in Arrival : call[a].pc \in {"purging", "sweeping", "dropping"}

Orderly == ~expired /\ ~interrupted /\ ~Doomed

OnTime == now < ExpiresAt => ~expired /\ ~Doomed

(* Within the limit or not: what is given up is never in somebody's hands. *)
WithinLimit ==
    fits < Total
    => /\ handed = 0
       /\ \A a \in Arrival : call[a].pc \notin {"clearing", "marking", "restored"}

(* A message on record is not complete.                                    *)
Incomplete ==
    /\ pending < Total
    /\ \A a \in Arrival : At(a, "saving") => call[a].count < Total

(* What the count has to do with the chunks, wherever a call is.           *)
Counted(a) ==
    LET n == Cardinality(chunks)
        pc == call[a].pc
    IN /\ pc \in {"checking", "forgetting", "reading", "testing", "storing", "discarding"}
            => pending = n
       /\ pc = "testing" => call[a].count = n
       /\ pc \in {"storing", "discarding"}
            => call[a].count = n + 1 /\ StoredAs(a) \notin chunks
       /\ pc = "discarding" => TooMuch(call[a].count)
       /\ pc = "saving" => call[a].count = n /\ StoredAs(a) \in chunks
       /\ pc \in {"completing", "restoring", "clearing"} => chunks = Index
       /\ pc \in {"restoring", "clearing", "marking", "emptying"} => pending = 0
       /\ pc = "marking" => chunks = {}
       /\ pc = "emptying" => fits < Total

Balanced == (\A a \in Arrival : call[a].pc \notin Accepting) => pending = Cardinality(chunks)

Counts == Orderly => Balanced /\ \A a \in Arrival : Counted(a)

(* Every chunk accepted is in the store, until the payload is complete.    *)
Gathered ==
    Orderly /\ fits >= Total
    => IF done = 0
       THEN \/ \A a \in Arrival : At(a, "over") => call[a].index \in chunks
            \/ \E a \in Arrival : At(a, "marking")
       ELSE handed = 1 \/ \E a \in Arrival : At(a, "restored")

-----------------------------------------------------------------------------
(* What the ways of changing a call do to its chunk and its count.         *)
LEMMA GotoCount ==
    ASSUME TypeOK, NEW a \in Arrival, NEW pc, Goto(a, pc)
    PROVE  call'[a].pc = pc /\ call'[a].count = call[a].count /\ call'[a].index = call[a].index
BY DEF TypeOK, Call, Goto

LEMMA GotoAtCount ==
    ASSUME TypeOK, NEW a \in Arrival, NEW pc, NEW n, GotoAt(a, pc, n)
    PROVE  call'[a].pc = pc /\ call'[a].count = call[a].count /\ call'[a].index = call[a].index
BY DEF TypeOK, Call, GotoAt

LEMMA RestCount ==
    ASSUME TypeOK, NEW a \in Arrival, NEW pc, Rest(a, pc)
    PROVE  call'[a].pc = pc /\ call'[a].index = call[a].index
BY DEF TypeOK, Call, Rest

LEMMA GotoWithCount ==
    ASSUME TypeOK, NEW a \in Arrival, NEW pc, NEW n, GotoWith(a, pc, n)
    PROVE  call'[a].pc = pc /\ call'[a].count = n /\ call'[a].index = call[a].index
BY DEF TypeOK, Call, GotoWith

(* A step that disturbs nothing comes after nothing was disturbed.         *)
LEMMA OrderlyBefore ==
    ASSUME TypeOK, [Next]_vars, Orderly' PROVE Orderly
<1> USE DEF Orderly
<1>1. CASE StopWorker \/ \E a \in Arrival : RequestFails(a)
    BY <1>1 DEF StopWorker, RequestFails, Fault
<1>2. CASE Advance \/ UNCHANGED vars
    BY <1>2 DEF Advance, vars, historyVars, Doomed
<1>3. ASSUME NEW a \in Arrival, Receive(a) PROVE Orderly
    <2>1. UNCHANGED <<expired, interrupted>> /\ At(a, "idle")
             /\ \A b \in Arrival \ {a} : call'[b] = call[b]
        BY <1>3 DEF Receive, historyVars, TypeOK
    <2>2. QED BY <2>1 DEF Doomed, At
<1>4. ASSUME NEW a \in Arrival, Step(a) PROVE Orderly
    <2>1. ~expired /\ ~interrupted
        BY <1>4 DEF Step, ListExpired, PurgePending, SweepChunks, ListDone, PurgeDone,
           Begin, CheckDone, ForgetDone, ReadPending, DropExpired, TestChunk, Discard,
           StoreChunk, SavePending, Complete, Restore, EmptyChunks, ClearChunks, MarkDone,
           HandOn, historyVars, Fault
    <2>2. ASSUME call[a].pc \in {"purging", "sweeping", "dropping"} PROVE FALSE
        <3>1. PurgePending(a)
            BY <1>4, <2>2 DEF Step, ListExpired, PurgePending, SweepChunks, ListDone,
               PurgeDone, Begin, CheckDone, ForgetDone, ReadPending, DropExpired, TestChunk,
               Discard, StoreChunk, SavePending, Complete, Restore, EmptyChunks, ClearChunks,
               MarkDone, HandOn, At
        <3>2. call'[a].pc = "sweeping"
            BY <3>1, GotoEffect DEF PurgePending
        <3>3. QED BY <3>2 DEF Doomed
    <2>3. \A b \in Arrival \ {a} : call'[b] = call[b]
        BY <1>4, StepEffect
    <2>4. QED BY <2>1, <2>2, <2>3 DEF Doomed
<1>5. QED BY <1>1, <1>2, <1>3, <1>4 DEF Next

(* Before its time nobody takes the message for expired.                   *)
LEMMA OnTimeStep ==
    ASSUME TypeOK, InTime, OnTime, [Next]_vars PROVE OnTime'
<1> SUFFICES ASSUME now' < ExpiresAt PROVE ~expired' /\ ~Doomed'
    BY DEF OnTime, ExpiresAt
<1>1. now \in Nat /\ TTL \in Nat /\ MaxTime \in Nat /\ \A a \in Arrival : call[a].stamp \in Nat
    BY MultipartConstants DEF TypeOK, Call
<1>2. now < ExpiresAt
    <2>1. now' = now \/ now' = now + 1
        BY DEF Next, Receive, Step, RequestFails, StopWorker, Advance, vars, ListExpired,
           PurgePending, SweepChunks, ListDone, PurgeDone, Begin, CheckDone, ForgetDone,
           ReadPending, DropExpired, TestChunk, Discard, StoreChunk, SavePending, Complete,
           Restore, EmptyChunks, ClearChunks, MarkDone, HandOn
    <2>2. QED BY <1>1, <2>1 DEF ExpiresAt
<1>3. ~expired /\ ~Doomed /\ \A a \in Arrival : call[a].stamp < ExpiresAt
    BY <1>1, <1>2 DEF OnTime, InTime, ExpiresAt
<1>4. CASE Advance \/ UNCHANGED vars
    BY <1>3, <1>4 DEF Advance, vars, historyVars, Doomed
<1>5. CASE StopWorker
    <2>1. expired' = expired
        BY <1>5 DEF StopWorker
    <2>2. QED BY <1>3, <1>5, <2>1, StopEffect DEF Doomed
<1>6. ASSUME NEW a \in Arrival, Receive(a) PROVE ~expired' /\ ~Doomed'
    BY <1>3, <1>6 DEF Receive, historyVars, Doomed, TypeOK, Call
<1>7. ASSUME NEW a \in Arrival, RequestFails(a) PROVE ~expired' /\ ~Doomed'
    <2>1. PICK pc \in {"stopped", "queued"} : Rest(a, pc)
        BY <1>7 DEF RequestFails, Leave, Queue
    <2>2. expired' = expired
        BY <1>7 DEF RequestFails
    <2>3. QED BY <1>3, <2>1, <2>2, GotoEffect DEF Doomed
<1>8. ASSUME NEW a \in Arrival, Step(a) PROVE ~expired' /\ ~Doomed'
    <2>1. ~PurgePending(a) /\ ~SweepChunks(a) /\ ~DropExpired(a)
        BY <1>3 DEF PurgePending, SweepChunks, DropExpired, At, Doomed
    <2>2. ~(ExpiresAt <= now) /\ ~(ExpiresAt <= call[a].stamp)
        BY <1>1, <1>2, <1>3 DEF ExpiresAt
    <2>3. ~expired'
        BY <1>3, <1>8, <2>1, <2>2 DEF Step, ListExpired, ListDone, PurgeDone,
           Begin, CheckDone, ForgetDone, ReadPending, TestChunk, Discard, StoreChunk,
           SavePending, Complete, Restore, EmptyChunks, ClearChunks, MarkDone, HandOn,
           historyVars
    <2>4. call'[a].pc \notin {"purging", "sweeping", "dropping"}
        <3>1. CASE ListExpired(a)
            <4>1. Goto(a, "listingDone")
                BY <2>2, <3>1 DEF ListExpired
            <4>2. QED BY <4>1, GotoEffect
        <3>2. CASE ReadPending(a)
            <4>1. GotoWith(a, "testing", pending)
                BY <2>2, <3>2 DEF ReadPending
            <4>2. QED BY <4>1, GotoWithEffect
        <3>3. CASE ListDone(a) \/ PurgeDone(a) \/ Begin(a)
            <4>1. \E pc \in {"purgingDone", "queued", "over", "checking"} :
                     Goto(a, pc) \/ Rest(a, pc)
                BY <3>3 DEF ListDone, PurgeDone, Begin, Queue, Leave
            <4>2. QED BY <4>1, GotoEffect
        <3>4. CASE CheckDone(a) \/ ForgetDone(a) \/ TestChunk(a)
            <4>1. \/ Rest(a, "over")
                  \/ \E pc \in {"forgetting", "reading"} : GotoAt(a, pc, now)
                  \/ \E pc \in {"discarding", "storing"} : GotoWith(a, pc, call[a].count + 1)
                BY <3>4 DEF CheckDone, ForgetDone, TestChunk, Leave
            <4>2. QED BY <4>1, GotoEffect, GotoAtEffect, GotoWithEffect
        <3>5. CASE \/ Discard(a) \/ StoreChunk(a) \/ SavePending(a) \/ Complete(a)
                   \/ Restore(a) \/ EmptyChunks(a) \/ ClearChunks(a) \/ MarkDone(a)
                   \/ HandOn(a)
            <4>1. \E pc \in {"emptying", "saving", "completing", "over", "restoring",
                             "clearing", "marking", "restored"} : Goto(a, pc) \/ Rest(a, pc)
                BY <3>5 DEF Discard, StoreChunk, SavePending, Complete, Restore,
                   EmptyChunks, ClearChunks, MarkDone, HandOn, Leave
            <4>2. QED BY <4>1, GotoEffect
        <3>6. QED BY <1>8, <2>1, <3>1, <3>2, <3>3, <3>4, <3>5 DEF Step
    <2>5. \A b \in Arrival \ {a} : call'[b] = call[b]
        BY <1>8, StepEffect
    <2>6. QED BY <1>3, <2>3, <2>4, <2>5 DEF Doomed
<1>9. QED BY <1>4, <1>5, <1>6, <1>7, <1>8 DEF Next

(* Where a step leads to whose stages matter here.                         *)
LEMMA Arriving ==
    ASSUME TypeOK, NEW a \in Arrival, Step(a)
    PROVE  /\ call'[a].index = call[a].index
           /\ At(a, "saving")' => StoreChunk(a)
           /\ At(a, "clearing")' => Restore(a)
           /\ At(a, "marking")' => ClearChunks(a)
           /\ At(a, "over")'
                => Begin(a) \/ CheckDone(a) \/ TestChunk(a) \/ SavePending(a)
                   \/ EmptyChunks(a) \/ HandOn(a)
<1> USE DEF At, Leave, Queue
<1>1. CASE ListExpired(a) \/ PurgePending(a) \/ SweepChunks(a) \/ ListDone(a) \/ PurgeDone(a)
    <2>1. \E pc \in {"purging", "listingDone", "sweeping", "purgingDone", "queued"} :
             Goto(a, pc) \/ Rest(a, pc)
        BY <1>1 DEF ListExpired, PurgePending, SweepChunks, ListDone, PurgeDone
    <2>2. QED BY <2>1, GotoCount, RestCount
<1>2. CASE Begin(a) \/ DropExpired(a)
    <2>1. \E pc \in {"over", "checking", "testing"} : Goto(a, pc) \/ Rest(a, pc)
        BY <1>2 DEF Begin, DropExpired
    <2>2. DropExpired(a) => Goto(a, "testing")
        BY DEF DropExpired
    <2>3. QED BY <1>2, <2>1, <2>2, GotoCount, RestCount
<1>3. CASE CheckDone(a) \/ ForgetDone(a)
    <2>1. \/ CheckDone(a) /\ Rest(a, "over")
          \/ \E pc \in {"forgetting", "reading"} : GotoAt(a, pc, now)
        BY <1>3 DEF CheckDone, ForgetDone
    <2>2. QED BY <2>1, GotoAtCount, RestCount
<1>4. CASE ReadPending(a) \/ TestChunk(a)
    <2>1. \/ TestChunk(a) /\ Rest(a, "over")
          \/ \E pc \in {"dropping", "testing", "discarding", "storing"}, n \in Nat :
                 GotoWith(a, pc, n)
        BY <1>4 DEF ReadPending, TestChunk, TypeOK, Call
    <2>2. QED BY <2>1, GotoWithCount, RestCount
<1>5. CASE StoreChunk(a)
    <2>1. PICK pc \in {"saving", "completing"} : Goto(a, pc)
        BY <1>5 DEF StoreChunk
    <2>2. QED BY <1>5, <2>1, GotoCount
<1>6. CASE Restore(a)
    <2>1. PICK pc \in {"clearing", "emptying"} : Goto(a, pc)
        BY <1>6 DEF Restore
    <2>2. QED BY <1>6, <2>1, GotoCount
<1>7. CASE Discard(a) \/ Complete(a)
    <2>1. PICK pc \in {"emptying", "restoring"} : Goto(a, pc)
        BY <1>7 DEF Discard, Complete
    <2>2. QED BY <2>1, GotoCount
<1>8. CASE ClearChunks(a)      BY <1>8, GotoCount DEF ClearChunks
<1>9. CASE SavePending(a)      BY <1>9, RestCount DEF SavePending
<1>10. CASE EmptyChunks(a)     BY <1>10, RestCount DEF EmptyChunks
<1>11. CASE MarkDone(a)        BY <1>11, RestCount DEF MarkDone
<1>12. CASE HandOn(a)          BY <1>12, GotoCount DEF HandOn
<1>13. QED
    BY <1>1, <1>2, <1>3, <1>4, <1>5, <1>6, <1>7, <1>8, <1>9, <1>10, <1>11, <1>12 DEF Step

(* What comes from outside leads nowhere but to the queue or the end.      *)
Outside ==
    \/ \E a \in Arrival : Receive(a) \/ RequestFails(a)
    \/ StopWorker \/ Advance \/ UNCHANGED vars

LEMMA OutsideEffect ==
    ASSUME TypeOK, Outside
    PROVE  /\ \A b \in Arrival : \/ call'[b] = call[b]
                                 \/ call'[b].pc \in {"listing", "queued", "stopped"}
           /\ UNCHANGED <<fits, pending, chunks, done, handed, expired>>
<1>1. ASSUME NEW a \in Arrival, Receive(a)
      PROVE  \A b \in Arrival : \/ call'[b] = call[b]
                                \/ call'[b].pc \in {"listing", "queued", "stopped"}
    BY <1>1 DEF Receive, TypeOK, Call
<1>2. ASSUME NEW a \in Arrival, RequestFails(a)
      PROVE  \A b \in Arrival : \/ call'[b] = call[b]
                                \/ call'[b].pc \in {"listing", "queued", "stopped"}
    <2>1. PICK pc \in {"stopped", "queued"} : Rest(a, pc)
        BY <1>2 DEF RequestFails, Leave, Queue
    <2>2. QED BY <2>1, GotoEffect
<1>3. ASSUME StopWorker, NEW b \in Arrival
      PROVE  call'[b] = call[b] \/ call'[b].pc \in {"listing", "queued", "stopped"}
    <2>1. CASE call[b].pc \in Over \cup {"idle"}
        BY <1>3, <2>1 DEF StopWorker
    <2>2. CASE call[b].pc \notin Over \cup {"idle"}
        <3>1. call'[b] = [call[b] EXCEPT !.pc = "stopped", !.count = 0, !.stamp = 0]
            BY <1>3, <2>2 DEF StopWorker
        <3>2. call'[b].pc = "stopped"
            BY <3>1 DEF TypeOK, Call
        <3>3. QED BY <3>2
    <2>3. QED BY <2>1, <2>2
<1>4. ASSUME Advance \/ UNCHANGED vars PROVE call' = call
    BY <1>4 DEF Advance, vars
<1>5. UNCHANGED <<fits, pending, chunks, done, handed, expired>>
    BY DEF Outside, Receive, RequestFails, StopWorker, Advance, vars, stores, historyVars
<1>6. QED BY <1>1, <1>2, <1>3, <1>4, <1>5 DEF Outside

LEMMA NextKinds ==
    ASSUME [Next]_vars PROVE Outside \/ \E a \in Arrival : Step(a)
BY DEF Next, Outside

LEMMA FitsStays ==
    ASSUME NEW a \in Arrival, Step(a) PROVE fits' = fits
BY DEF Step, ListExpired, PurgePending, SweepChunks, ListDone, PurgeDone,
       Begin, CheckDone, ForgetDone, ReadPending, DropExpired, TestChunk, Discard,
       StoreChunk, SavePending, Complete, Restore, EmptyChunks, ClearChunks, MarkDone,
       HandOn

LEMMA WithinLimitStep ==
    ASSUME TypeOK, WithinLimit, [Next]_vars PROVE WithinLimit'
<1>1. CASE Outside
    BY <1>1, OutsideEffect DEF WithinLimit
<1>2. ASSUME NEW a \in Arrival, Step(a) PROVE WithinLimit'
    <2> SUFFICES ASSUME fits < Total
                 PROVE  /\ handed' = 0
                        /\ \A b \in Arrival :
                              call'[b].pc \notin {"clearing", "marking", "restored"}
        BY <1>2, FitsStays DEF WithinLimit
    <2>1. handed = 0 /\ \A b \in Arrival : call[b].pc \notin {"clearing", "marking", "restored"}
        BY DEF WithinLimit
    <2>2. ~HandOn(a) /\ ~MarkDone(a) /\ ~ClearChunks(a)
        BY <2>1 DEF HandOn, MarkDone, ClearChunks, At
    <2>3. ~At(a, "clearing")'
        <3>1. ASSUME Restore(a) PROVE Goto(a, "emptying")
            <4>1. TooMuch(Total)
                BY MultipartConstants DEF TooMuch, TypeOK
            <4>2. QED BY <3>1, <4>1 DEF Restore
        <3>2. Restore(a) => call'[a].pc = "emptying"
            BY <3>1, GotoCount
        <3>3. QED BY <1>2, <3>2, Arriving DEF At
    <2>4. ~At(a, "marking")' /\ ~At(a, "restored")' /\ handed' = 0
        BY <1>2, <2>1, <2>2, Arriving, HolderEffect
    <2>5. \A b \in Arrival \ {a} : call'[b] = call[b]
        BY <1>2, StepEffect
    <2>6. QED BY <2>1, <2>3, <2>4, <2>5 DEF At
<1>3. QED BY <1>1, <1>2, NextKinds

LEMMA IncompleteStep ==
    ASSUME TypeOK, Incomplete, [Next]_vars PROVE Incomplete'
<1>1. CASE Outside
    BY <1>1, OutsideEffect DEF Incomplete, At
<1>2. ASSUME NEW a \in Arrival, Step(a) PROVE Incomplete'
    <2>1. \A b \in Arrival \ {a} : call'[b] = call[b]
        BY <1>2, StepEffect
    <2>2. At(a, "saving")' => call'[a].count < Total
        <3> SUFFICES ASSUME StoreChunk(a), At(a, "saving")' PROVE call'[a].count < Total
            BY <1>2, Arriving
        <3>1. CASE call[a].count < Total
            <4>1. Goto(a, "saving")
                BY <3>1 DEF StoreChunk
            <4>2. call'[a].count = call[a].count
                BY <4>1, GotoCount
            <4>3. QED BY <3>1, <4>2
        <3>2. CASE ~(call[a].count < Total)
            <4>1. Goto(a, "completing")
                BY <3>2 DEF StoreChunk
            <4>2. QED BY <4>1, GotoCount DEF At
        <3>3. QED BY <3>1, <3>2
    <2>3. pending' < Total
        <3>1. SavePending(a) \/ pending' \in {pending, 0}
            BY <1>2 DEF Step, ListExpired, PurgePending, SweepChunks, ListDone, PurgeDone,
               Begin, CheckDone, ForgetDone, ReadPending, DropExpired, TestChunk, Discard,
               StoreChunk, Complete, Restore, EmptyChunks, ClearChunks, MarkDone,
               HandOn, stores
        <3>2. SavePending(a) => pending' = call[a].count /\ call[a].count < Total
            BY DEF SavePending, Incomplete
        <3>3. 0 < Total
            BY MultipartConstants
        <3>4. QED BY <3>1, <3>2, <3>3 DEF Incomplete
    <2>4. QED BY <2>1, <2>2, <2>3 DEF Incomplete, At
<1>3. QED BY <1>1, <1>2, NextKinds

(* A chunk store holds as many chunks as there are different ones.         *)
LEMMA StoreSize ==
    ASSUME TypeOK
    PROVE  /\ Cardinality(chunks) \in Nat /\ Cardinality(chunks) <= Total
           /\ Cardinality(chunks) = Total => chunks = Index
           /\ \A i \in Index \ chunks :
                 /\ Cardinality(chunks \cup {i}) = Cardinality(chunks) + 1
                 /\ Cardinality(chunks) < Total
                 /\ Cardinality(chunks) + 1 >= Total => chunks \cup {i} = Index
<1>1. IsFiniteSet(Index) /\ Cardinality(Index) = Total
    BY FS_Interval, MultipartConstants DEF Index
<1>2. ASSUME NEW S \in SUBSET Index
      PROVE  /\ IsFiniteSet(S) /\ Cardinality(S) \in Nat /\ Cardinality(S) <= Total
             /\ Cardinality(S) = Total => S = Index
    BY <1>1, FS_Subset, FS_CardinalityType
<1>3. chunks \in SUBSET Index
    BY DEF TypeOK
<1>4. ASSUME NEW i \in Index \ chunks
      PROVE  /\ Cardinality(chunks \cup {i}) = Cardinality(chunks) + 1
             /\ Cardinality(chunks) < Total
             /\ Cardinality(chunks) + 1 >= Total => chunks \cup {i} = Index
    <2>1. Cardinality(chunks \cup {i}) = Cardinality(chunks) + 1
        BY <1>2, <1>3, <1>4, FS_AddElement
    <2>2. chunks \cup {i} \in SUBSET Index
        BY <1>3
    <2>3. Total \in Nat
        BY MultipartConstants
    <2>4. QED BY <1>2, <1>3, <2>1, <2>2, <2>3
<1>5. QED BY <1>2, <1>3, <1>4

(* A call that is not accepting leaves the count and the store alone,      *)
(* unless it takes the message for expired.                                *)
LEMMA OthersCount ==
    ASSUME TypeOK, NEW a \in Arrival, Step(a), Orderly', ~Begin(a),
           call[a].pc \notin Accepting
    PROVE  UNCHANGED <<pending, chunks>> /\ call'[a].pc \notin Accepting
<1> USE DEF At, Accepting
<1>1. \/ ListExpired(a) \/ PurgePending(a) \/ SweepChunks(a) \/ ListDone(a) \/ PurgeDone(a)
      \/ HandOn(a)
    BY DEF Step, CheckDone, ForgetDone, ReadPending, DropExpired, TestChunk, Discard,
           StoreChunk, SavePending, Complete, Restore, EmptyChunks, ClearChunks, MarkDone
<1>2. ~SweepChunks(a)
    BY DEF SweepChunks, Orderly
<1>3. ~PurgePending(a)
    <2>1. ASSUME PurgePending(a) PROVE FALSE
        <3>1. call'[a].pc = "sweeping"
            BY <2>1, GotoCount DEF PurgePending
        <3>2. QED BY <3>1 DEF Orderly, Doomed
    <2>2. QED BY <2>1
<1>4. \E pc \in {"purging", "listingDone", "purgingDone", "queued", "over"} :
          Goto(a, pc) \/ Rest(a, pc)
    BY <1>1, <1>2, <1>3 DEF ListExpired, ListDone, PurgeDone, HandOn, Queue
<1>5. call'[a].pc \notin Accepting
    BY <1>4, GotoCount, RestCount
<1>6. QED
    BY <1>1, <1>2, <1>3, <1>5 DEF ListExpired, ListDone, PurgeDone, HandOn, stores

(* Up to the test of the chunk nothing is counted.                         *)
LEMMA CheckingCounts ==
    ASSUME TypeOK, Orderly', NEW a \in Arrival, Counted(a),
           At(a, "queued") => pending = Cardinality(chunks),
           \/ Begin(a) \/ CheckDone(a) \/ ForgetDone(a)
           \/ ReadPending(a) \/ DropExpired(a) \/ TestChunk(a)
    PROVE  Counted(a)' /\ (call'[a].pc \notin Accepting => pending' = Cardinality(chunks'))
<1> USE DEF Counted, StoredAs, TooMuch, At, Accepting, stores
<1>1. CASE Begin(a)
    <2>1. \/ Rest(a, "over") \/ Goto(a, "checking")
        BY <1>1 DEF Begin, Leave
    <2>2. UNCHANGED <<pending, chunks>> /\ pending = Cardinality(chunks)
        BY <1>1 DEF Begin
    <2>3. call'[a].pc \in {"over", "checking"}
        BY <2>1, GotoCount, RestCount
    <2>4. QED BY <2>2, <2>3
<1>2. CASE CheckDone(a)
    <2>1. Rest(a, "over") \/ \E pc \in {"forgetting", "reading"} : GotoAt(a, pc, now)
        BY <1>2 DEF CheckDone, Leave
    <2>2. UNCHANGED <<pending, chunks>> /\ pending = Cardinality(chunks)
        BY <1>2 DEF CheckDone
    <2>3. QED BY <2>1, <2>2, GotoAtCount, RestCount
<1>3. CASE ForgetDone(a)
    <2>1. UNCHANGED <<pending, chunks>> /\ pending = Cardinality(chunks)
        BY <1>3 DEF ForgetDone
    <2>2. QED BY <1>3, <2>1, GotoAtCount DEF ForgetDone
<1>4. CASE ReadPending(a)
    <2>1. UNCHANGED <<pending, chunks>> /\ pending = Cardinality(chunks)
        BY <1>4 DEF ReadPending
    <2>2. CASE GotoWith(a, "dropping", 0)
        <3>1. call'[a].pc = "dropping"
            BY <2>2, GotoWithCount
        <3>2. QED BY <3>1 DEF Orderly, Doomed
    <2>3. CASE GotoWith(a, "testing", pending)
        BY <2>1, <2>3, GotoWithCount
    <2>4. QED BY <1>4, <2>2, <2>3 DEF ReadPending
<1>5. CASE DropExpired(a)
    BY <1>5 DEF DropExpired, Orderly
<1>6. CASE TestChunk(a)
    <2>1. /\ UNCHANGED <<pending, chunks, fits>> /\ pending = Cardinality(chunks)
          /\ call[a].count = Cardinality(chunks)
        BY <1>6 DEF TestChunk
    <2>2. CASE StoredAs(a) \in chunks
        BY <1>6, <2>1, <2>2, RestCount DEF TestChunk, Leave
    <2>3. CASE StoredAs(a) \notin chunks
        <3>1. PICK pc \in {"discarding", "storing"} :
                  /\ GotoWith(a, pc, call[a].count + 1)
                  /\ pc = "discarding" => TooMuch(call[a].count + 1)
            BY <1>6, <2>3 DEF TestChunk
        <3>2. /\ call'[a].pc = pc /\ call'[a].count = Cardinality(chunks') + 1
              /\ call'[a].index \notin chunks' /\ pending' = Cardinality(chunks')
              /\ pc = "discarding" => call'[a].count > fits'
            BY <2>1, <2>3, <3>1, GotoWithCount
        <3>3. QED BY <3>2
    <2>4. QED BY <2>2, <2>3
<1>7. QED BY <1>1, <1>2, <1>3, <1>4, <1>5, <1>6

(* From then on count and store change together.                           *)
LEMMA StoringCounts ==
    ASSUME TypeOK, Incomplete, Orderly', NEW a \in Arrival, Counted(a),
           \/ Discard(a) \/ StoreChunk(a) \/ SavePending(a) \/ Complete(a) \/ Restore(a)
           \/ EmptyChunks(a) \/ ClearChunks(a) \/ MarkDone(a)
    PROVE  Counted(a)' /\ (call'[a].pc \notin Accepting => pending' = Cardinality(chunks'))
<1> USE DEF Counted, StoredAs, At, Accepting, stores
<1>0. /\ Cardinality({}) = 0
      /\ call[a].index \in Index /\ fits \in Nat /\ Total \in Nat
      /\ Cardinality(chunks) \in Nat
    BY FS_EmptySet, StoreSize, MultipartConstants DEF TypeOK, Call
<1>1. CASE Discard(a)
    <2>1. /\ call[a].index \in Index \ chunks
          /\ Cardinality(chunks) + 1 > fits
        BY <1>0, <1>1 DEF Discard, TooMuch
    <2>2. fits < Total
        BY <1>0, <2>1, StoreSize
    <2>3. call'[a].pc = "emptying" /\ pending' = 0 /\ fits' = fits
        BY <1>1, GotoCount DEF Discard
    <2>4. QED BY <2>2, <2>3
<1>2. CASE StoreChunk(a)
    <2>1. /\ call[a].index \in Index \ chunks
          /\ call[a].count = Cardinality(chunks) + 1
          /\ chunks' = chunks \cup {call[a].index}
        BY <1>0, <1>2 DEF StoreChunk
    <2>2. Cardinality(chunks') = call[a].count
        BY <2>1, StoreSize
    <2>3. CASE call[a].count < Total
        <3>1. Goto(a, "saving")
            BY <1>2, <2>3 DEF StoreChunk
        <3>2. QED BY <2>1, <2>2, <3>1, GotoCount
    <2>4. CASE ~(call[a].count < Total)
        <3>1. Goto(a, "completing")
            BY <1>2, <2>4 DEF StoreChunk
        <3>2. chunks' = Index
            <4>1. Cardinality(chunks) + 1 >= Total
                BY <1>0, <2>1, <2>4
            <4>2. QED BY <2>1, <4>1, StoreSize
        <3>3. QED BY <3>1, <3>2, GotoCount DEF Index
    <2>5. QED BY <2>3, <2>4
<1>3. CASE SavePending(a)
    BY <1>3, RestCount DEF SavePending, Leave
<1>4. CASE Complete(a)
    <2>1. call'[a].pc = "restoring" /\ pending' = 0 /\ chunks' = chunks /\ chunks = Index
        BY <1>4, GotoCount DEF Complete
    <2>2. QED BY <2>1 DEF Index
<1>5. CASE Restore(a)
    <2>1. chunks = Index /\ pending = 0 /\ UNCHANGED <<pending, chunks, fits>>
        BY <1>5 DEF Restore
    <2>2. ~Fault
        BY DEF Fault, Orderly
    <2>3. CASE TooMuch(Total)
        <3>1. Goto(a, "emptying")
            BY <1>5, <2>2, <2>3 DEF Restore
        <3>2. fits < Total
            BY <1>0, <2>3 DEF TooMuch
        <3>3. QED BY <2>1, <3>1, <3>2, GotoCount
    <2>4. CASE ~TooMuch(Total)
        <3>1. Goto(a, "clearing")
            BY <1>5, <2>1, <2>2, <2>4 DEF Restore
        <3>2. call'[a].pc = "clearing"
            BY <3>1, GotoCount
        <3>3. QED BY <2>1, <3>2 DEF Index
    <2>5. QED BY <2>3, <2>4
<1>6. CASE EmptyChunks(a)
    <2>1. call'[a].pc = "over" /\ chunks' = {} /\ pending' = 0
        BY <1>6, RestCount DEF EmptyChunks, Leave
    <2>2. QED BY <1>0, <2>1
<1>7. CASE ClearChunks(a)
    <2>1. call'[a].pc = "marking" /\ chunks' = {} /\ pending' = 0
        BY <1>7, GotoCount DEF ClearChunks
    <2>2. QED BY <2>1
<1>8. CASE MarkDone(a)
    <2>1. call'[a].pc = "restored" /\ chunks' = {} /\ pending' = 0
        BY <1>8, RestCount DEF MarkDone, Leave
    <2>2. QED BY <1>0, <2>1
<1>9. QED BY <1>1, <1>2, <1>3, <1>4, <1>5, <1>6, <1>7, <1>8

LEMMA CountsStep ==
    ASSUME TypeOK, InTurn, Incomplete, Counts, [Next]_vars PROVE Counts'
<1> SUFFICES ASSUME Orderly' PROVE Balanced' /\ \A b \in Arrival : Counted(b)'
    BY DEF Counts
<1>1. Balanced /\ \A b \in Arrival : Counted(b)
    BY OrderlyBefore DEF Counts
<1>2. CASE Outside
    <2>1. ~interrupted'
        BY DEF Orderly
    <2>2. ASSUME NEW b \in Arrival, call[b].pc \in Accepting PROVE call'[b].pc \in Accepting
        <3>1. ~StopWorker /\ \A a \in Arrival : ~RequestFails(a)
            BY <2>1 DEF StopWorker, RequestFails, Fault
        <3>2. \A a \in Arrival : Receive(a) => a # b
            BY <2>2 DEF Receive, At, Accepting
        <3>3. call'[b] = call[b]
            BY <1>2, <3>1, <3>2 DEF Outside, Receive, Advance, vars, TypeOK
        <3>4. QED BY <2>2, <3>3
    <2>3. Balanced'
        BY <1>1, <1>2, <2>2, OutsideEffect DEF Balanced
    <2>4. ASSUME NEW b \in Arrival PROVE Counted(b)'
        BY <1>1, <1>2, OutsideEffect DEF Counted, StoredAs, TooMuch
    <2>5. QED BY <2>3, <2>4
<1>3. ASSUME NEW a \in Arrival, Step(a) PROVE Balanced' /\ \A b \in Arrival : Counted(b)'
    <2>1. \A b \in Arrival \ {a} : call'[b] = call[b]
        BY <1>3, StepEffect
    <2>2. CASE call[a].pc \in Accepting \/ Begin(a)
        <3>1. \A b \in Arrival \ {a} : call[b].pc \notin Accepting
            BY <2>2 DEF InTurn, Turn, Begin
        <3>2. At(a, "queued") => pending = Cardinality(chunks)
            BY <1>1, <3>1 DEF Balanced, At, Accepting
        <3>3. Counted(a)' /\ (call'[a].pc \notin Accepting => pending' = Cardinality(chunks'))
            <4>1. ~HandOn(a) /\ ~ListExpired(a) /\ ~PurgePending(a) /\ ~SweepChunks(a)
                     /\ ~ListDone(a) /\ ~PurgeDone(a)
                BY <2>2 DEF HandOn, ListExpired, PurgePending, SweepChunks, ListDone,
                            PurgeDone, Begin, At, Accepting
            <4>2. QED BY <1>1, <1>3, <3>2, <4>1, CheckingCounts, StoringCounts DEF Step
        <3>4. \A b \in Arrival \ {a} : Counted(b)'
            BY <2>1, <3>1 DEF Counted, Accepting
        <3>5. QED BY <3>3, <3>4 DEF Balanced
    <2>3. CASE ~(call[a].pc \in Accepting \/ Begin(a))
        <3>1. UNCHANGED <<pending, chunks>> /\ call'[a].pc \notin Accepting
            BY <1>3, <2>3, OthersCount
        <3>2. fits' = fits
            BY <1>3, FitsStays
        <3>3. Balanced'
            BY <1>1, <2>1, <2>3, <3>1 DEF Balanced
        <3>4. \A b \in Arrival \ {a} : Counted(b)'
            BY <1>1, <2>1, <3>1, <3>2 DEF Counted, StoredAs, TooMuch
        <3>5. Counted(a)'
            BY <3>1 DEF Counted, Accepting
        <3>6. QED BY <3>3, <3>4, <3>5
    <2>4. QED BY <2>2, <2>3
<1>4. QED BY <1>2, <1>3, NextKinds

LEMMA GatheredStep ==
    ASSUME Assembly, MarkerOutlives, Counts, Gathered, [Next]_vars PROVE Gathered'
<1> SUFFICES ASSUME Orderly', fits' >= Total
             PROVE  IF done' = 0
                    THEN \/ \A b \in Arrival : At(b, "over")' => call'[b].index \in chunks'
                         \/ \E b \in Arrival : At(b, "marking")'
                    ELSE handed' = 1 \/ \E b \in Arrival : At(b, "restored")'
    BY DEF Gathered
<1> USE DEF At
<1>0. TypeOK /\ InTurn /\ done \in Nat /\ done' \in Nat
    BY TypeStep DEF Assembly, TypeOK
<1>1. Orderly /\ Balanced /\ \A b \in Arrival : Counted(b)
    BY <1>0, OrderlyBefore DEF Counts
<1>2. fits' = fits
    BY DEF Next, Receive, RequestFails, StopWorker, Advance, vars, Step, ListExpired,
       PurgePending, SweepChunks, ListDone, PurgeDone, Begin, CheckDone, ForgetDone,
       ReadPending, DropExpired, TestChunk, Discard, StoreChunk, SavePending, Complete,
       Restore, EmptyChunks, ClearChunks, MarkDone, HandOn
<1>3. IF done = 0
      THEN \/ \A b \in Arrival : At(b, "over") => call[b].index \in chunks
           \/ \E b \in Arrival : At(b, "marking")
      ELSE handed = 1 \/ \E b \in Arrival : At(b, "restored")
    BY <1>1, <1>2 DEF Gathered
<1>4. CASE Outside
    <2>1. UNCHANGED <<done, handed, chunks>>
        BY <1>0, <1>4, OutsideEffect
    <2>2. \A b \in Arrival : At(b, "over")' => call'[b] = call[b]
        BY <1>0, <1>4, OutsideEffect
    <2>3. ASSUME NEW b \in Arrival, call[b].pc \in {"marking", "restored"}
          PROVE  call'[b] = call[b]
        <3>1. ~StopWorker /\ \A a \in Arrival : ~RequestFails(a)
            BY DEF Orderly, StopWorker, RequestFails, Fault
        <3>2. \A a \in Arrival : Receive(a) => a # b
            BY <2>3 DEF Receive
        <3>3. QED BY <1>0, <1>4, <3>1, <3>2 DEF Outside, Receive, Advance, vars, TypeOK
    <2>4. CASE done = 0
        BY <1>3, <2>1, <2>2, <2>3, <2>4
    <2>5. CASE done # 0
        BY <1>3, <2>1, <2>3, <2>5
    <2>6. QED BY <2>4, <2>5
<1>5. ASSUME NEW a \in Arrival, Step(a)
      PROVE  IF done' = 0
             THEN \/ \A b \in Arrival : At(b, "over")' => call'[b].index \in chunks'
                  \/ \E b \in Arrival : At(b, "marking")'
             ELSE handed' = 1 \/ \E b \in Arrival : At(b, "restored")'
    <2>0. \A b \in Arrival \ {a} : call'[b] = call[b]
        BY <1>0, <1>5, StepEffect
    <2>1. CASE MarkDone(a)
        <3>1. call'[a].pc = "restored"
            BY <1>0, <2>1, RestCount DEF MarkDone, Leave
        <3>2. done' # 0
            BY <1>5, <2>1, MarkerEffect, MultipartConstants
        <3>3. QED BY <3>1, <3>2
    <2>2. CASE ~MarkDone(a) /\ done # 0
        <3>1. done' = done
            BY <1>5, <2>2, MarkerEffect
        <3>2. CASE HandOn(a)
            <4>1. handed' = 1
                BY <3>2 DEF HandOn, Assembly, OneHolder
            <4>2. QED BY <2>2, <3>1, <4>1
        <3>3. CASE ~HandOn(a)
            <4>1. handed' = handed
                BY <1>0, <1>5, <3>3, HolderEffect
            <4>2. \A b \in Arrival : At(b, "restored") => At(b, "restored")'
                <5>1. call[a].pc # "restored"
                    BY <1>5, <2>2, <3>3 DEF Step, ListExpired, PurgePending, SweepChunks,
                       ListDone, PurgeDone, Begin, CheckDone, ForgetDone, ReadPending,
                       DropExpired, TestChunk, Discard, StoreChunk, SavePending, Complete,
                       Restore, EmptyChunks, ClearChunks
                <5>2. QED BY <2>0, <5>1
            <4>3. QED BY <1>3, <2>2, <3>1, <4>1, <4>2
        <3>4. QED BY <3>2, <3>3
    <2>3. CASE ~MarkDone(a) /\ done = 0
        <3>1. done' = 0
            BY <1>5, <2>3, MarkerEffect
        <3>2. CASE ClearChunks(a)
            <4>1. call'[a].pc = "marking"
                BY <1>0, <3>2, GotoCount DEF ClearChunks
            <4>2. QED BY <3>1, <4>1
        <3>3. CASE ~ClearChunks(a) /\ \E b \in Arrival : At(b, "marking")
            <4>1. PICK b \in Arrival : At(b, "marking")
                BY <3>3
            <4>2. b # a
                BY <1>5, <2>3, <3>3, <4>1 DEF Step, ListExpired, PurgePending, SweepChunks,
                   ListDone, PurgeDone, Begin, CheckDone, ForgetDone, ReadPending,
                   DropExpired, TestChunk, Discard, StoreChunk, SavePending, Complete,
                   Restore, EmptyChunks, HandOn
            <4>3. QED BY <2>0, <3>1, <4>1, <4>2
        <3>4. CASE ~ClearChunks(a) /\ ~\E b \in Arrival : At(b, "marking")
            <4>1. \A b \in Arrival : At(b, "over") => call[b].index \in chunks
                BY <1>3, <2>3, <3>4
            <4>2. ~EmptyChunks(a)
                <5>1. EmptyChunks(a) => fits < Total
                    BY <1>1 DEF EmptyChunks, Counted
                <5>2. fits \in Nat /\ Total \in Nat
                    BY <1>0, MultipartConstants DEF TypeOK
                <5>3. QED BY <1>2, <5>1, <5>2
            <4>3. ~SweepChunks(a)
                BY DEF SweepChunks, Orderly
            <4>4. chunks \subseteq chunks'
                BY <1>5, <2>3, <3>4, <4>2, <4>3
                   DEF Step, ListExpired, PurgePending, ListDone, PurgeDone, Begin,
                   CheckDone, ForgetDone, ReadPending, DropExpired, TestChunk, Discard,
                   StoreChunk, SavePending, Complete, Restore, HandOn, stores
            <4>5. At(a, "over")' => call'[a].index \in chunks'
                <5> SUFFICES ASSUME At(a, "over")' PROVE call[a].index \in chunks
                    BY <1>0, <1>5, <4>4, Arriving
                <5>1. ~HandOn(a)
                    BY <2>3 DEF HandOn, Assembly, OneHolder
                <5>2. ~Begin(a)
                    <6>1. ASSUME Begin(a) PROVE FALSE
                        <7>1. Goto(a, "checking")
                            BY <6>1 DEF Begin, Orderly
                        <7>2. QED BY <1>0, <7>1, GotoCount
                    <6>2. QED BY <6>1
                <5>3. ~CheckDone(a)
                    <6>1. ASSUME CheckDone(a) PROVE FALSE
                        <7>1. ~MarkedDone
                            BY <1>0, <2>3 DEF MarkedDone, TypeOK
                        <7>2. PICK pc \in {"forgetting", "reading"} : GotoAt(a, pc, now)
                            BY <6>1, <7>1 DEF CheckDone
                        <7>3. QED BY <1>0, <7>2, GotoAtCount
                    <6>2. QED BY <6>1
                <5>4. CASE TestChunk(a)
                    <6>1. CASE StoredAs(a) \in chunks
                        BY <6>1 DEF StoredAs
                    <6>2. CASE StoredAs(a) \notin chunks
                        <7>1. PICK pc \in {"discarding", "storing"} :
                                  GotoWith(a, pc, call[a].count + 1)
                            BY <5>4, <6>2 DEF TestChunk
                        <7>2. QED BY <1>0, <7>1, GotoWithCount
                    <6>3. QED BY <6>1, <6>2
                <5>5. CASE SavePending(a)
                    BY <1>1, <5>5 DEF SavePending, Counted, StoredAs
                <5>6. QED BY <1>0, <1>5, <4>2, <5>1, <5>2, <5>3, <5>4, <5>5, Arriving
            <4>6. QED BY <2>0, <3>1, <4>1, <4>4, <4>5
        <3>5. QED BY <3>2, <3>3, <3>4
    <2>4. QED BY <2>1, <2>2, <2>3
<1>6. QED BY <1>4, <1>5, NextKinds

Reassembly ==
    Assembly /\ OnTime /\ WithinLimit /\ Incomplete /\ Counts /\ Gathered

(* Chunks that arrive together are all counted (acceptMultipartChunk):     *)
(* between calls the count on record is that of the stored chunks until    *)
(* the message expires; once every chunk has been accepted in time the     *)
(* payload has been handed on; one over the limit never is.                *)
THEOREM AllChunksCount == MarkerOutlives => (Spec => []CompleteWhenReceived)
<1> SUFFICES ASSUME MarkerOutlives PROVE Spec => []CompleteWhenReceived
    OBVIOUS
<1>1. ASSUME Init PROVE Reassembly
    <2>1. OnTime /\ WithinLimit /\ Incomplete
        BY <1>1, MultipartConstants DEF Init, OnTime, Doomed, WithinLimit, Incomplete, At
    <2>2. Counts
        BY <1>1, FS_EmptySet DEF Init, Counts, Balanced, Counted
    <2>3. Gathered
        BY <1>1 DEF Init, Gathered, At
    <2>4. QED BY <1>1, <2>1, <2>2, <2>3, AssemblyInit DEF Reassembly
<1>2. ASSUME Reassembly, [Next]_vars PROVE Reassembly'
    <2>1. Assembly'
        BY <1>2, TypeStep, InTurnStep, InTimeStep, MarkerStep DEF Reassembly, Assembly
    <2>2. OnTime' /\ WithinLimit' /\ Incomplete' /\ Counts' /\ Gathered'
        BY <1>2, OnTimeStep, WithinLimitStep, IncompleteStep, CountsStep, GatheredStep
           DEF Reassembly, Assembly
    <2>3. QED BY <2>1, <2>2 DEF Reassembly
<1>3. ASSUME Reassembly PROVE CompleteWhenReceived
    <2> SUFFICES ASSUME Quiet
                 PROVE  /\ ~interrupted /\ now < ExpiresAt => pending = Cardinality(chunks)
                        /\ Received = Index /\ fits >= Total
                             => handed = 1 \/ expired \/ interrupted
                        /\ fits < Total => handed = 0
        BY DEF CompleteWhenReceived
    <2>1. ~Doomed /\ \A a \in Arrival : call[a].pc \notin Accepting \cup {"marking", "restored"}
        BY DEF Quiet, Doomed, Over, Accepting
    <2>2. ~expired /\ ~interrupted => pending = Cardinality(chunks)
        BY <1>3, <2>1 DEF Reassembly, Counts, Orderly, Balanced
    <2>3. now < ExpiresAt => ~expired
        BY <1>3 DEF Reassembly, OnTime
    <2>4. ASSUME Received = Index, fits >= Total, ~expired, ~interrupted PROVE handed = 1
        <3>1. CASE done = 0
            <4>1. \A a \in Arrival : At(a, "over") => call[a].index \in chunks
                BY <1>3, <2>1, <2>4, <3>1 DEF Reassembly, Gathered, Orderly, At
            <4>2. Index \subseteq chunks
                BY <2>4, <4>1 DEF Received
            <4>3. chunks = Index
                BY <1>3, <4>2 DEF Reassembly, Assembly, TypeOK
            <4>4. Cardinality(chunks) = Total
                BY <4>3, FS_Interval, MultipartConstants DEF Index
            <4>5. QED
                BY <1>3, <2>2, <2>4, <4>4, MultipartConstants DEF Reassembly, Incomplete
        <3>2. CASE done # 0
            BY <1>3, <2>1, <2>4, <3>2 DEF Reassembly, Gathered, Orderly, At
        <3>3. QED BY <3>1, <3>2
    <2>5. fits < Total => handed = 0
        BY <1>3 DEF Reassembly, WithinLimit
    <2>6. QED BY <2>2, <2>3, <2>4, <2>5
<1>4. QED BY <1>1, <1>2, <1>3, PTL DEF Spec
=============================================================================

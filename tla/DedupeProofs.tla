---------------------------- MODULE DedupeProofs ----------------------------
(***************************************************************************)
(* Type correctness of the dedupe; a message is claimed anew only when the *)
(* TTL of its earlier claims is over; a rerun answers a failure on record; *)
(* what the record says of the notification and of the business is true;   *)
(* a clean answer is backed by a run: for every number of arrivals,        *)
(* wherever the worker is stopped or a request fails.                      *)
(***************************************************************************)
EXTENDS Dedupe, TLAPS

LEMMA Stages ==
    {"idle", "adding", "reading", "deleting", "readding", "dispatching", "notifying",
     "awaiting", "reporting", "writing", "duplicate", "showing", "marking", "checking",
     "rerunning", "repairing", "rewriting", "clean", "error", "rejected", "stopped"}
    \subseteq Stage
BY DEF Stage, Claiming, First, Duplicate, Over

(* What the handler of an arrival may do next.                             *)
Move(d) == Arrive(d) \/ Step(d) \/ BusinessSettles(d) \/ RequestFails(d)

-----------------------------------------------------------------------------
(* Type correctness                                                        *)

LEMMA ClaimedType == ASSUME NEW stamp \in Time PROVE Claimed(stamp) \in Record
BY DEF Claimed, Record

(* The ways in which actions change a call.                                *)
LEMMA GotoType ==
    ASSUME TypeOK, NEW d \in Delivery, NEW pc \in Stage, Goto(d, pc)
    PROVE  call' \in [Delivery -> Call]
BY DEF TypeOK, Call, Goto

LEMMA GotoWithType ==
    ASSUME TypeOK, NEW d \in Delivery, NEW pc \in Stage, NEW base \in Record \cup {NULL},
           GotoWith(d, pc, base)
    PROVE  call' \in [Delivery -> Call]
BY ZenonT(30) DEF TypeOK, Call, GotoWith

(* What a merge writes is a record, given that it merges onto one.         *)
Based == \A d \in Delivery : Merging(d) => call[d].base # NULL

LEMMA MergedType ==
    ASSUME TypeOK, Based, NEW d \in Delivery, Merging(d)
    PROVE  /\ Reported(d) \in Record /\ Repaired(d) \in Record
           /\ [call[d].base EXCEPT !.shown = TRUE, !.pending = FALSE] \in Record
<1>1. call[d].base \in Record
    BY DEF TypeOK, Call, Based
<1>2. QED BY <1>1 DEF Reported, Repaired, Record

LEMMA WriteType ==
    ASSUME TypeOK, NEW d \in Delivery, NEW r \in Record \cup {NULL}, Write(d, r)
    PROVE  record' \in Record \cup {NULL} /\ raced' \in BOOLEAN
<1>1. record' \in Record \cup {NULL}
    BY DEF Write
<1>2. raced' \in BOOLEAN
    BY DEF Write
<1>3. QED BY <1>1, <1>2

LEMMA OutcomeType ==
    ASSUME TypeOK, NEW d \in Delivery, NEW r \in Record, Written(d, r) \/ WriteFails
    PROVE  /\ record' \in Record \cup {NULL} /\ raced' \in BOOLEAN
           /\ faults' \in Nat /\ interrupted' \in BOOLEAN
<1>1. CASE Written(d, r)
    BY <1>1, WriteType DEF Written, TypeOK
<1>2. CASE WriteFails
    BY <1>2 DEF WriteFails, Fault, TypeOK
<1>3. QED BY <1>1, <1>2

LEMMA InitType == Init => TypeOK
<1> SUFFICES ASSUME Init PROVE TypeOK
    OBVIOUS
<1>1. call \in [Delivery -> Call]
    BY Stages DEF Init, Call, Time
<1>2. QED BY <1>1 DEF Init, TypeOK, Time

LEMMA ClaimType ==
    ASSUME TypeOK, NEW d \in Delivery,
           Arrive(d) \/ AddRecord(d) \/ ReadExisting(d) \/ DeleteExpired(d)
    PROVE  TypeOK'
<1>1. CASE Arrive(d)
    <2>1. call' = [call EXCEPT ![d].pc = "adding", ![d].stamp = now] /\ now \in Time
        BY <1>1 DEF Arrive, TypeOK
    <2>2. call' \in [Delivery -> Call]
        <3>1. [call[d] EXCEPT !.pc = "adding", !.stamp = now] \in Call
            BY <2>1, Stages DEF TypeOK, Call
        <3>2. call' = [call EXCEPT ![d] = [call[d] EXCEPT !.pc = "adding", !.stamp = now]]
            BY <2>1 DEF TypeOK
        <3>3. QED BY <3>1, <3>2 DEF TypeOK
    <2>3. QED BY <1>1, <2>2 DEF Arrive, Write, TypeOK
<1>2. CASE AddRecord(d)
    <2>1. call' \in [Delivery -> Call]
        <3>1. CASE call' = [call EXCEPT ![d].pc = "dispatching", ![d].first = TRUE]
            <4>1. [call[d] EXCEPT !.pc = "dispatching", !.first = TRUE] \in Call
                BY Stages DEF TypeOK, Call
            <4>2. call' = [call EXCEPT ![d] =
                              [call[d] EXCEPT !.pc = "dispatching", !.first = TRUE]]
                BY <3>1 DEF TypeOK
            <4>3. QED BY <4>1, <4>2 DEF TypeOK
        <3>2. CASE Goto(d, "reading") \/ Goto(d, "duplicate")
            BY <3>2, Stages, GotoType
        <3>3. QED BY <1>2, <3>1, <3>2 DEF AddRecord, Add
    <2>2. record' \in Record \cup {NULL} /\ raced' \in BOOLEAN
        <3>1. call[d].stamp \in Time
            BY DEF TypeOK, Call
        <3>2. Claimed(call[d].stamp) \in Record \cup {NULL}
            BY <3>1, ClaimedType
        <3>3. Write(d, Claimed(call[d].stamp)) \/ UNCHANGED <<record, raced>>
            BY <1>2 DEF AddRecord, Add
        <3>4. QED BY <3>2, <3>3, WriteType DEF TypeOK
    <2>3. QED BY <1>2, <2>1, <2>2 DEF AddRecord, TypeOK
<1>3. CASE ReadExisting(d)
    <2>1. PICK pc \in Stage : call' = [call EXCEPT ![d].pc = pc, ![d].existing = record]
        BY <1>3, Stages DEF ReadExisting
    <2>2. call' \in [Delivery -> Call]
        BY <2>1, ZenonT(30) DEF TypeOK, Call
    <2>3. QED BY <1>3, <2>2 DEF ReadExisting, TypeOK, historyVars
<1>4. CASE DeleteExpired(d)
    <2>1. call' \in [Delivery -> Call]
        BY <1>4, Stages, GotoType DEF DeleteExpired
    <2>2. QED BY <1>4, <2>1 DEF DeleteExpired, Write, TypeOK
<1>5. QED BY <1>1, <1>2, <1>3, <1>4

LEMMA FirstType ==
    ASSUME TypeOK, Based, NEW d \in Delivery,
           \/ Dispatch(d) \/ SettleNotification(d) \/ BusinessSettles(d)
           \/ BusinessAwaited(d) \/ ReadForReport(d) \/ WriteReport(d)
    PROVE  TypeOK'
<1>0. call[d].stamp \in Time /\ (Merging(d) => Reported(d) \in Record)
    BY MergedType DEF TypeOK, Call
<1>1. CASE Dispatch(d)
    BY <1>1, Stages, GotoType DEF Dispatch, TypeOK, historyVars
<1>2. CASE SettleNotification(d)
    <2>1. call' \in [Delivery -> Call]
        BY <1>2, Stages, GotoType DEF SettleNotification
    <2>2. PICK shown \in Shown \cup NotShown : Written(d, Settled(d, shown)) \/ WriteFails
        BY <1>2 DEF SettleNotification
    <2>3. Settled(d, shown) \in Record
        BY <1>0 DEF Settled, Claimed, Record, Shown, NotShown
    <2>4. record' \in Record \cup {NULL} /\ raced' \in BOOLEAN /\ faults' \in Nat
             /\ interrupted' \in BOOLEAN
        BY <2>2, <2>3, OutcomeType
    <2>5. QED BY <1>2, <2>1, <2>4 DEF SettleNotification, TypeOK
<1>3. CASE BusinessSettles(d)
    BY <1>3 DEF BusinessSettles, TypeOK, historyVars
<1>4. CASE BusinessAwaited(d)
    <2>1. call' \in [Delivery -> Call]
        BY <1>4, Stages, GotoType DEF BusinessAwaited
    <2>2. QED BY <1>4, <2>1 DEF BusinessAwaited, TypeOK, historyVars
<1>5. CASE ReadForReport(d)
    <2>1. record \in Record \cup {NULL}
        BY DEF TypeOK
    <2>2. call' \in [Delivery -> Call]
        BY <1>5, <2>1, Stages, GotoType, GotoWithType DEF ReadForReport
    <2>3. QED BY <1>5, <2>2 DEF ReadForReport, TypeOK, historyVars
<1>6. CASE WriteReport(d)
    <2>1. call' \in [Delivery -> Call]
        BY <1>6, Stages, GotoType DEF WriteReport
    <2>2. Reported(d) \in Record
        BY <1>0, <1>6 DEF WriteReport, Merging, At
    <2>3. record' \in Record \cup {NULL} /\ raced' \in BOOLEAN /\ faults' \in Nat
             /\ interrupted' \in BOOLEAN
        BY <1>6, <2>2, OutcomeType DEF WriteReport
    <2>4. QED BY <1>0, <1>6, <2>1, <2>3 DEF WriteReport, TypeOK
<1>7. QED BY <1>1, <1>2, <1>3, <1>4, <1>5, <1>6

LEMMA DuplicateType ==
    ASSUME TypeOK, Based, NEW d \in Delivery,
           \/ SkipNotification(d) \/ RepairNotification(d) \/ ReadAfterShow(d)
           \/ MarkShown(d) \/ CheckBusiness(d) \/ RerunAwaited(d)
           \/ ReadForRepair(d) \/ WriteRepair(d)
    PROVE  TypeOK'
<1>0. /\ record \in Record \cup {NULL} /\ call[d].existing \in Record \cup {NULL}
      /\ Answer(d) \in Stage
    BY Stages DEF TypeOK, Call, Answer
<1>1. CASE SkipNotification(d) \/ RepairNotification(d)
    <2>1. call' \in [Delivery -> Call]
        BY <1>1, Stages, GotoType DEF SkipNotification, RepairNotification
    <2>2. QED BY <1>1, <2>1 DEF SkipNotification, RepairNotification, TypeOK, historyVars
<1>2. CASE ReadAfterShow(d)
    <2>1. MergeOnto(d) \in Record \cup {NULL}
        BY <1>0 DEF MergeOnto
    <2>2. call' \in [Delivery -> Call]
        BY <1>2, <2>1, Stages, GotoWithType DEF ReadAfterShow
    <2>3. QED BY <1>2, <2>2 DEF ReadAfterShow, TypeOK, historyVars
<1>3. CASE MarkShown(d)
    <2>1. call' \in [Delivery -> Call]
        BY <1>3, Stages, GotoType DEF MarkShown
    <2>2. [call[d].base EXCEPT !.shown = TRUE, !.pending = FALSE] \in Record
        BY <1>3, MergedType DEF MarkShown, Merging, At
    <2>3. record' \in Record \cup {NULL} /\ raced' \in BOOLEAN /\ faults' \in Nat
             /\ interrupted' \in BOOLEAN
        BY <1>3, <2>2, OutcomeType DEF MarkShown
    <2>4. QED BY <1>3, <2>1, <2>3 DEF MarkShown, TypeOK
<1>4. CASE CheckBusiness(d)
    <2>1. \E pc \in {"rerunning", "clean"} : Goto(d, pc)
        BY ONLY <1>4 DEF CheckBusiness
    <2>2. call' \in [Delivery -> Call]
        BY <2>1, Stages, GotoType
    <2>3. (UNCHANGED <<faults, interrupted>> \/ Fault)
             /\ (business' = business \/ business' = [business EXCEPT ![d] = "running"])
        BY <1>4 DEF CheckBusiness
    <2>4. faults' \in Nat
        BY <2>3 DEF Fault, TypeOK
    <2>5. interrupted' \in BOOLEAN
        BY <2>3 DEF Fault, TypeOK
    <2>6. business' \in [Delivery -> {"none", "running", "landed", "failed"}]
        BY <2>3 DEF TypeOK
    <2>7. QED BY <1>4, <2>2, <2>4, <2>5, <2>6 DEF CheckBusiness, TypeOK
<1>5. CASE RerunAwaited(d)
    <2>1. call' \in [Delivery -> Call]
        BY <1>5, Stages, GotoType DEF RerunAwaited
    <2>2. QED BY <1>5, <2>1 DEF RerunAwaited, TypeOK, historyVars
<1>6. CASE ReadForRepair(d)
    <2>1. call' \in [Delivery -> Call]
        BY <1>0, <1>6, Stages, GotoType, GotoWithType DEF ReadForRepair
    <2>2. QED BY <1>6, <2>1 DEF ReadForRepair, TypeOK, historyVars
<1>7. CASE WriteRepair(d)
    <2>1. call' \in [Delivery -> Call]
        BY <1>0, <1>7, GotoType DEF WriteRepair
    <2>2. Repaired(d) \in Record
        BY <1>7, MergedType DEF WriteRepair, Merging, At
    <2>3. record' \in Record \cup {NULL} /\ raced' \in BOOLEAN /\ faults' \in Nat
             /\ interrupted' \in BOOLEAN
        BY <1>7, <2>2, OutcomeType DEF WriteRepair
    <2>4. QED BY <1>7, <2>1, <2>3 DEF WriteRepair, TypeOK
<1>8. QED BY <1>1, <1>2, <1>3, <1>4, <1>5, <1>6, <1>7

(* A request that fails ends the call, or the part of it that is left.     *)
LEMMA FailureMoves ==
    ASSUME NEW d \in Delivery, RequestFails(d)
    PROVE  (\E pc \in {"rejected", "error", "clean"} : Goto(d, pc)) /\ UNCHANGED <<now, record>>
BY DEF RequestFails, Answer

LEMMA FailureType ==
    ASSUME TypeOK, NEW d \in Delivery, RequestFails(d) PROVE TypeOK'
<1>1. call' \in [Delivery -> Call]
    BY FailureMoves, Stages, GotoType
<1>2. faults' \in Nat
    BY DEF RequestFails, Fault, TypeOK
<1>3. interrupted' \in BOOLEAN
    BY DEF RequestFails, Fault, TypeOK
<1>4. QED BY <1>1, <1>2, <1>3 DEF RequestFails, TypeOK

LEMMA TypeStep == ASSUME TypeOK, Based, [Next]_vars PROVE TypeOK'
<1>1. CASE StopWorker
    <2>1. call' \in [Delivery -> Call]
        BY <1>1, Stages DEF StopWorker, TypeOK, Call
    <2>2. QED BY <1>1, <2>1 DEF StopWorker, Fault, TypeOK
<1>2. CASE Advance
    BY <1>2 DEF Advance, TypeOK, Time, historyVars
<1>3. CASE UNCHANGED vars
    BY <1>3 DEF vars, TypeOK, historyVars
<1>4. QED
    BY <1>1, <1>2, <1>3, ClaimType, FirstType, DuplicateType, FailureType DEF Next, Step

-----------------------------------------------------------------------------
(* The base of a merge                                                     *)

(* A merge has read a record, or falls back on one it has read before.     *)
BasedOnRecord ==
    /\ Based
    /\ \A d \in Delivery : At(d, "showing") => call[d].existing # NULL

LEMMA GotoKeeps ==
    ASSUME TypeOK, NEW d \in Delivery, NEW pc, Goto(d, pc)
    PROVE  /\ call'[d].pc = pc /\ call'[d].stamp = call[d].stamp
           /\ call'[d].first = call[d].first /\ call'[d].base = call[d].base
           /\ call'[d].existing = call[d].existing
BY DEF Goto, TypeOK, Call

(* The steps of the first delivery that only move on.                      *)
LEMMA FirstMoves ==
    ASSUME TypeOK, NEW d \in Delivery,
           Dispatch(d) \/ SettleNotification(d) \/ BusinessAwaited(d)
    PROVE  \E pc \in {"notifying", "awaiting", "clean", "reporting"} : Goto(d, pc)
<1>1. CASE Dispatch(d)
    BY <1>1 DEF Dispatch
<1>2. CASE SettleNotification(d)
    BY <1>2 DEF SettleNotification
<1>3. CASE BusinessAwaited(d)
    BY <1>3 DEF BusinessAwaited
<1>4. QED BY <1>1, <1>2, <1>3

(* A step of a call leaves the other calls alone.                          *)
LEMMA OthersStay ==
    ASSUME TypeOK, NEW d \in Delivery, Move(d)
    PROVE  \A e \in Delivery \ {d} : call'[e] = call[e]
<1> USE DEF TypeOK, Goto, GotoWith
<1>1. CASE Arrive(d) \/ AddRecord(d) \/ ReadExisting(d) \/ DeleteExpired(d)
    BY <1>1 DEF Arrive, AddRecord, Add, ReadExisting, DeleteExpired
<1>2. CASE BusinessSettles(d) \/ Dispatch(d) \/ SettleNotification(d) \/ BusinessAwaited(d)
    BY <1>2 DEF BusinessSettles, Dispatch, SettleNotification, BusinessAwaited
<1>3. CASE ReadForReport(d) \/ WriteReport(d)
    BY <1>3 DEF ReadForReport, WriteReport
<1>4. CASE SkipNotification(d) \/ RepairNotification(d) \/ ReadAfterShow(d) \/ MarkShown(d)
    BY <1>4 DEF SkipNotification, RepairNotification, ReadAfterShow, MarkShown
<1>5. CASE CheckBusiness(d) \/ RerunAwaited(d) \/ ReadForRepair(d) \/ WriteRepair(d)
    BY <1>5 DEF CheckBusiness, RerunAwaited, ReadForRepair, WriteRepair
<1>6. CASE RequestFails(d)
    BY <1>6, FailureMoves
<1>7. QED BY <1>1, <1>2, <1>3, <1>4, <1>5, <1>6 DEF Move, Step

LEMMA RecordNotNull == \A r \in Record : r # NULL
BY DedupeConstants DEF Record

LEMMA BaseStep ==
    ASSUME TypeOK, BasedOnRecord, NEW d \in Delivery,
           Move(d)
    PROVE  BasedOnRecord'
<1> DEFINE Fine(c) == /\ c.pc \in {"marking", "writing", "rewriting"} => c.base # NULL
                      /\ c.pc = "showing" => c.existing # NULL
<1>1. \A e \in Delivery : Fine(call[e])
    BY DEF BasedOnRecord, Based, Merging, At
<1>2. Fine(call'[d])
    <2> USE DEF TypeOK, Call, At, Goto, GotoWith
    <2>1. ReadExisting(d) => call'[d].pc \in {"deleting", "duplicate"}
        <3>1. ASSUME ReadExisting(d)
              PROVE  \E pc \in {"deleting", "duplicate"} :
                         call' = [call EXCEPT ![d].pc = pc, ![d].existing = record]
            BY <3>1 DEF ReadExisting
        <3>2. QED BY <3>1
    <2>2. CASE Arrive(d) \/ AddRecord(d) \/ ReadExisting(d) \/ DeleteExpired(d)
        <3>1. call'[d].pc \in Claiming \cup {"dispatching", "duplicate"}
            BY <2>2, <2>1 DEF Arrive, AddRecord, Add, DeleteExpired, Claiming
        <3>2. QED BY <3>1 DEF Claiming
    <2>3. CASE Dispatch(d) \/ SettleNotification(d) \/ BusinessAwaited(d)
        BY <2>3, FirstMoves, GotoKeeps
    <2>4. CASE BusinessSettles(d)
        BY <1>1, <2>4 DEF BusinessSettles
    <2>5. CASE ReadForReport(d) \/ WriteReport(d)
        BY <1>1, <2>5 DEF ReadForReport, WriteReport, SameClaim
    <2>6. CASE SkipNotification(d) \/ RepairNotification(d)
        <3>1. CASE Goto(d, "checking")
            BY <3>1
        <3>2. CASE Goto(d, "rejected")
            BY <3>2
        <3>3. CASE Goto(d, "showing") /\ call[d].existing # NULL
            BY <3>3
        <3>4. QED
            BY <2>6, <3>1, <3>2, <3>3
               DEF SkipNotification, RepairNotification, MayRepairNotification
    <2>7. CASE ReadAfterShow(d) \/ MarkShown(d)
        BY <1>1, <2>7 DEF ReadAfterShow, MarkShown, MergeOnto
    <2>8. CASE CheckBusiness(d) \/ RerunAwaited(d) \/ ReadForRepair(d) \/ WriteRepair(d)
        BY <1>1, <2>8 DEF CheckBusiness, RerunAwaited, ReadForRepair, WriteRepair,
                          SameClaim, Answer
    <2>9. CASE RequestFails(d)
        BY <2>9, FailureMoves, GotoKeeps
    <2>10. QED BY <2>2, <2>3, <2>4, <2>5, <2>6, <2>7, <2>8, <2>9 DEF Move, Step
<1>3. \A e \in Delivery : Fine(call'[e])
    BY <1>1, <1>2, OthersStay
<1>4. QED BY <1>3 DEF BasedOnRecord, Based, Merging, At

LEMMA BaseNext == ASSUME TypeOK, BasedOnRecord, [Next]_vars PROVE BasedOnRecord'
<1>1. CASE StopWorker
    BY <1>1 DEF StopWorker, BasedOnRecord, Based, Merging, At, TypeOK, Call
<1>2. CASE Advance \/ UNCHANGED vars
    BY <1>2 DEF Advance, vars, BasedOnRecord, Based, Merging, At
<1>3. QED BY <1>1, <1>2, BaseStep DEF Next, Move

(* Every reachable state of claims, merges, failing writes and worker stops *)
(* is well typed: what is put is always a whole record (claimDedupe and the *)
(* four writers of a dedupe record).                                        *)
THEOREM TypeCorrect == Spec => []TypeOK
<1>1. Init => TypeOK /\ BasedOnRecord
    <2>1. Init => BasedOnRecord
        BY DEF Init, BasedOnRecord, Based, Merging, At
    <2>2. QED BY <2>1, InitType
<1>2. TypeOK /\ BasedOnRecord /\ [Next]_vars => (TypeOK /\ BasedOnRecord)'
    BY TypeStep, BaseNext DEF BasedOnRecord
<1>3. QED BY <1>1, <1>2, PTL DEF Spec

-----------------------------------------------------------------------------
(* One first delivery                                                      *)

(* As long as no write has fallen between a read and the write based on    *)
(* it, every claim whose TTL is not over is on record, and whoever is      *)
(* about to write still finds what it has read.                            *)
Stamped == \A d \in Delivery : /\ call[d].stamp <= now
                               /\ At(d, "idle") => ~call[d].first

ClaimOnRecord(e) ==
    \/ call[e].stamp + TTL <= now
    \/ record # NULL /\ record.firstSeenAt = call[e].stamp

UpToDate(d) ==
    record # NULL => /\ Merging(d) => record.firstSeenAt = call[d].base.firstSeenAt
                     /\ Unsettled(d) => record.firstSeenAt = call[d].stamp
                     /\ Renewing(d) => Expired(record, call[d].stamp)

Claims == ~raced => /\ \A e \in Delivery : call[e].first => ClaimOnRecord(e)
                    /\ \A d \in Delivery : UpToDate(d)

(* A write that disturbs nobody was made while nobody else was about to.   *)
LEMMA WriteAlone ==
    ASSUME NEW d \in Delivery, NEW r, Write(d, r), ~raced'
    PROVE  record' = r /\ ~raced /\ \A e \in Delivery \ {d} : ~WillWrite(e)
BY DEF Write

(* Deliveries leave the clock alone, and a race is never forgotten.        *)
LEMMA ClockStays ==
    ASSUME NEW d \in Delivery, Move(d)
    PROVE  now' = now
BY DEF Move, RequestFails, Arrive, Step, BusinessSettles, AddRecord, ReadExisting,
       DeleteExpired, Dispatch, SettleNotification, BusinessAwaited, ReadForReport,
       WriteReport, SkipNotification, RepairNotification, ReadAfterShow, MarkShown,
       CheckBusiness, RerunAwaited, ReadForRepair, WriteRepair

Reading(d) ==
    \/ ReadExisting(d) \/ Dispatch(d) \/ BusinessSettles(d) \/ BusinessAwaited(d)
    \/ ReadForReport(d) \/ SkipNotification(d) \/ RepairNotification(d)
    \/ ReadAfterShow(d) \/ CheckBusiness(d) \/ RerunAwaited(d) \/ ReadForRepair(d)
    \/ RequestFails(d)

Writing(d) ==
    \/ Arrive(d) \/ AddRecord(d) \/ DeleteExpired(d) \/ SettleNotification(d)
    \/ WriteReport(d) \/ MarkShown(d) \/ WriteRepair(d)

LEMMA MoveKinds == ASSUME NEW d \in Delivery, Move(d) PROVE Reading(d) \/ Writing(d)
BY DEF Move, Step, Reading, Writing

LEMMA ReadingWrites ==
    ASSUME NEW d \in Delivery, Reading(d) PROVE record' = record /\ raced' = raced
BY DEF Reading, ReadExisting, Dispatch, BusinessSettles, BusinessAwaited, ReadForReport,
       SkipNotification, RepairNotification, ReadAfterShow, CheckBusiness, RerunAwaited,
       ReadForRepair, RequestFails, historyVars

(* A writing step writes what is due, or nothing.                          *)
LEMMA WritingWrites ==
    ASSUME TypeOK, Based, NEW d \in Delivery, Writing(d)
    PROVE  \/ UNCHANGED <<record, raced>>
           \/ Arrive(d) /\ record # NULL /\ Expired(record, now) /\ Write(d, NULL)
           \/ AddRecord(d) /\ record = NULL /\ Write(d, Claimed(call[d].stamp))
           \/ Renewing(d) /\ Write(d, NULL)
           \/ Unsettled(d) /\ \E r \in Record : r.firstSeenAt = call[d].stamp /\ Write(d, r)
           \/ Merging(d) /\ \E r \in Record : r.firstSeenAt = call[d].base.firstSeenAt
                                              /\ Write(d, r)
<1>0. call[d].stamp \in Time
    BY DEF TypeOK, Call
<1>1. CASE Arrive(d)
    BY <1>1 DEF Arrive
<1>2. CASE AddRecord(d)
    BY <1>2 DEF AddRecord, Add
<1>3. CASE DeleteExpired(d)
    BY <1>3 DEF DeleteExpired, Renewing
<1>4. CASE SettleNotification(d)
    <2>1. PICK shown \in Shown \cup NotShown : Written(d, Settled(d, shown)) \/ WriteFails
        BY <1>4 DEF SettleNotification
    <2>2. Settled(d, shown) \in Record /\ Settled(d, shown).firstSeenAt = call[d].stamp
        BY <1>0 DEF Settled, Claimed, Record, Shown, NotShown
    <2>3. Unsettled(d)
        BY <1>4 DEF SettleNotification, Unsettled, At
    <2>4. QED BY <2>1, <2>2, <2>3 DEF Written, WriteFails
<1>5. CASE WriteReport(d) \/ MarkShown(d) \/ WriteRepair(d)
    <2>1. Merging(d)
        BY <1>5 DEF WriteReport, MarkShown, WriteRepair, Merging, At
    <2>2. call[d].base \in Record
        BY <2>1 DEF TypeOK, Call, Based
    <2>3. PICK r \in {Reported(d), Repaired(d),
                      [call[d].base EXCEPT !.shown = TRUE, !.pending = FALSE]} :
              Written(d, r) \/ WriteFails
        BY <1>5 DEF WriteReport, MarkShown, WriteRepair
    <2>4. r \in Record
        BY <2>1, <2>3, MergedType
    <2>5. r.firstSeenAt = call[d].base.firstSeenAt
        BY <2>2, <2>3 DEF Reported, Repaired, Record
    <2>6. QED BY <2>1, <2>3, <2>4, <2>5 DEF Written, WriteFails
<1>6. QED BY <1>1, <1>2, <1>3, <1>4, <1>5 DEF Writing

(* What a step that races with nobody does to the record.                  *)
LEMMA RecordEffect ==
    ASSUME TypeOK, Based, Stamped, Claims, NEW d \in Delivery, Move(d), ~raced'
    PROVE  /\ ~raced
           /\ \/ record' = record
              \/ \A e \in Delivery \ {d} : ~WillWrite(e)
           /\ \/ record' = record
              \/ record = NULL
              \/ record' = NULL /\ Expired(record, now)
              \/ record' # NULL /\ record'.firstSeenAt = record.firstSeenAt
<1>1. CASE Reading(d)
    BY <1>1, ReadingWrites
<1>2. CASE Writing(d)
    <2>1. CASE UNCHANGED <<record, raced>>
        BY <2>1
    <2>2. CASE Arrive(d) /\ record # NULL /\ Expired(record, now) /\ Write(d, NULL)
        BY <2>2, WriteAlone
    <2>3. CASE record = NULL /\ Write(d, Claimed(call[d].stamp))
        BY <2>3, WriteAlone
    <2>4. CASE Renewing(d) /\ Write(d, NULL)
        <3>1. record' = NULL /\ ~raced /\ \A e \in Delivery \ {d} : ~WillWrite(e)
            BY <2>4, WriteAlone
        <3>2. record # NULL => Expired(record, call[d].stamp)
            BY <2>4, <3>1 DEF Claims, UpToDate
        <3>3. record # NULL => Expired(record, now)
            <4>1. call[d].stamp \in Nat /\ now \in Nat /\ TTL \in Nat
                     /\ (record # NULL => record.firstSeenAt \in Nat)
                BY DedupeConstants DEF TypeOK, Call, Record, Time
            <4>2. call[d].stamp <= now
                BY DEF Stamped
            <4>3. QED BY <3>2, <4>1, <4>2 DEF Expired
        <3>4. QED BY <3>1, <3>3
    <2>5. CASE Unsettled(d) /\ \E r \in Record :
                   r.firstSeenAt = call[d].stamp /\ Write(d, r)
        BY <2>5, WriteAlone, RecordNotNull DEF Claims, UpToDate
    <2>6. CASE Merging(d) /\ \E r \in Record :
                   r.firstSeenAt = call[d].base.firstSeenAt /\ Write(d, r)
        BY <2>6, WriteAlone, RecordNotNull DEF Claims, UpToDate
    <2>7. QED BY <1>2, <2>1, <2>2, <2>3, <2>4, <2>5, <2>6, WritingWrites
<1>3. QED BY <1>1, <1>2, MoveKinds

(* What a step does to its own call, as far as claims are concerned.       *)
OwnStep(d) ==
    /\ call'[d].stamp \in {call[d].stamp, now}
    /\ call'[d].stamp # call[d].stamp => ~call'[d].first
    /\ call'[d].pc = "idle" => ~call'[d].first
    /\ \/ call'[d].first = call[d].first
       \/ /\ record = NULL /\ record' # NULL
          /\ record'.firstSeenAt = call'[d].stamp

LEMMA OwnStays ==
    ASSUME Stamped, NEW d \in Delivery, call'[d].pc # "idle" \/ call'[d].pc = call[d].pc,
           call'[d].stamp = call[d].stamp, call'[d].first = call[d].first
    PROVE  OwnStep(d)
BY DEF OwnStep, Stamped, At

LEMMA OwnCall ==
    ASSUME TypeOK, Stamped, NEW d \in Delivery, Move(d)
    PROVE  OwnStep(d)
<1>1. CASE Arrive(d)
    BY <1>1 DEF Arrive, OwnStep, Stamped, TypeOK, Call, At
<1>2. CASE AddRecord(d)
    <2>1. CASE record = NULL
        <3>1. call[d].stamp \in Time
            BY DEF TypeOK, Call
        <3>2. record' = Claimed(call[d].stamp)
            BY <1>2, <2>1 DEF AddRecord, Add, Write
        <3>3. record' # NULL /\ record'.firstSeenAt = call[d].stamp
            BY <3>1, <3>2, ClaimedType, RecordNotNull DEF Claimed
        <3>4. call' = [call EXCEPT ![d].pc = "dispatching", ![d].first = TRUE]
            BY <1>2, <2>1 DEF AddRecord, Add
        <3>5. call'[d].pc = "dispatching" /\ call'[d].stamp = call[d].stamp
            BY <3>4 DEF TypeOK, Call
        <3>6. QED BY <2>1, <3>3, <3>5 DEF OwnStep
    <2>2. CASE record # NULL
        <3>1. Goto(d, "reading") \/ Goto(d, "duplicate")
            BY <1>2, <2>2 DEF AddRecord, Add
        <3>2. QED BY <3>1, GotoKeeps, OwnStays
    <2>3. QED BY <2>1, <2>2
<1>3. CASE ReadExisting(d)
    <2>1. PICK pc \in {"deleting", "duplicate"} :
              call' = [call EXCEPT ![d].pc = pc, ![d].existing = record]
        BY <1>3 DEF ReadExisting
    <2>2. call'[d].pc = pc /\ call'[d].stamp = call[d].stamp /\ call'[d].first = call[d].first
        BY <2>1 DEF TypeOK, Call
    <2>3. QED BY <2>2, OwnStays
<1>4. CASE DeleteExpired(d)
    BY <1>4, GotoKeeps, OwnStays DEF DeleteExpired
<1>5. CASE Dispatch(d) \/ SettleNotification(d) \/ BusinessAwaited(d)
    BY <1>5, FirstMoves, GotoKeeps, OwnStays
<1>6. CASE BusinessSettles(d)
    BY <1>6, OwnStays DEF BusinessSettles
<1>7. CASE \/ ReadForReport(d) \/ WriteReport(d) \/ ReadAfterShow(d) \/ MarkShown(d)
           \/ ReadForRepair(d) \/ WriteRepair(d)
    <2>1. \E pc \in {"writing", "error", "marking", "checking", "rejected", "rewriting",
                     "clean"} :
             Goto(d, pc) \/ \E base : GotoWith(d, pc, base)
        BY <1>7 DEF ReadForReport, WriteReport, ReadAfterShow, MarkShown, ReadForRepair,
                    WriteRepair, Answer
    <2>2. /\ call'[d].pc # "idle" /\ call'[d].stamp = call[d].stamp
          /\ call'[d].first = call[d].first
        BY <2>1 DEF Goto, GotoWith, TypeOK, Call
    <2>3. QED BY <2>2, OwnStays
<1>8. CASE SkipNotification(d) \/ RepairNotification(d) \/ CheckBusiness(d) \/ RerunAwaited(d)
    <2>1. \E pc \in {"checking", "showing", "rejected", "rerunning", "clean", "repairing"} :
             Goto(d, pc)
        BY ONLY <1>8 DEF SkipNotification, RepairNotification, CheckBusiness, RerunAwaited
    <2>2. QED BY <2>1, GotoKeeps, OwnStays
<1>9. CASE RequestFails(d)
    BY <1>9, FailureMoves, GotoKeeps, OwnStays
<1>10. QED BY <1>1, <1>2, <1>3, <1>4, <1>5, <1>6, <1>7, <1>8, <1>9 DEF Move, Step

(* Whoever is about to write has just read, or claimed, the record.        *)
LEMMA OwnUpToDate ==
    ASSUME TypeOK, Based, Stamped, Claims, NEW d \in Delivery, Move(d), ~raced'
    PROVE  UpToDate(d)'
<1> DEFINE Idle(c) == c.pc \notin {"marking", "writing", "rewriting", "deleting",
                                   "dispatching", "notifying"}
<1> USE DEF UpToDate, Merging, Unsettled, Renewing, At
<1>0. ~raced /\ UpToDate(d)
    BY RecordEffect DEF Claims
<1>1. CASE Idle(call'[d])
    BY <1>1
<1>2. CASE BusinessSettles(d)
    BY <1>0, <1>2 DEF BusinessSettles
<1>3. CASE AddRecord(d)
    <2>1. CASE record = NULL
        <3>1. record' = Claimed(call[d].stamp)
            BY <1>3, <2>1 DEF AddRecord, Add, Write
        <3>2. call' = [call EXCEPT ![d].pc = "dispatching", ![d].first = TRUE]
            BY <1>3, <2>1 DEF AddRecord, Add
        <3>3. call'[d].pc = "dispatching" /\ call'[d].stamp = call[d].stamp
            BY <3>2 DEF TypeOK, Call
        <3>4. QED BY <3>1, <3>3 DEF Claimed
    <2>2. CASE record # NULL
        <3>1. Goto(d, "reading") \/ Goto(d, "duplicate")
            BY <1>3, <2>2 DEF AddRecord, Add
        <3>2. QED BY <1>1, <3>1, GotoKeeps
    <2>3. QED BY <2>1, <2>2
<1>4. CASE ReadExisting(d)
    <2>1. CASE record # NULL /\ Expired(record, call[d].stamp)
        <3>1. call' = [call EXCEPT ![d].pc = "deleting", ![d].existing = record]
            BY <1>4, <2>1 DEF ReadExisting
        <3>2. call'[d].pc = "deleting" /\ call'[d].stamp = call[d].stamp
            BY <3>1 DEF TypeOK, Call
        <3>3. record' = record
            BY <1>4 DEF ReadExisting
        <3>4. QED BY <2>1, <3>2, <3>3 DEF Expired
    <2>2. CASE ~(record # NULL /\ Expired(record, call[d].stamp))
        <3>1. call' = [call EXCEPT ![d].pc = "duplicate", ![d].existing = record]
            BY <1>4, <2>2 DEF ReadExisting
        <3>2. call'[d].pc = "duplicate"
            BY <3>1 DEF TypeOK, Call
        <3>3. QED BY <1>1, <3>2
    <2>3. QED BY <2>1, <2>2
<1>5. CASE Dispatch(d)
    BY <1>0, <1>5, GotoKeeps DEF Dispatch
<1>6. CASE ReadForReport(d) \/ ReadForRepair(d) \/ ReadAfterShow(d)
    <2>1. record' = record
        BY <1>6 DEF ReadForReport, ReadForRepair, ReadAfterShow
    <2>2. \/ \E pc \in {"error", "clean"} : Goto(d, pc)
          \/ \E pc \in {"writing", "rewriting", "marking"} : \E base :
                 GotoWith(d, pc, base) /\ (record # NULL => base = record)
        BY <1>6 DEF ReadForReport, ReadForRepair, ReadAfterShow, MergeOnto, Answer
    <2>3. CASE \E pc \in {"error", "clean"} : Goto(d, pc)
        BY <1>1, <2>3, GotoKeeps
    <2>4. CASE \E pc \in {"writing", "rewriting", "marking"} : \E base :
                 GotoWith(d, pc, base) /\ (record # NULL => base = record)
        <3>1. /\ call'[d].pc \in {"writing", "rewriting", "marking"}
              /\ record # NULL => call'[d].base = record
            BY <2>4 DEF GotoWith, TypeOK, Call
        <3>2. QED BY <2>1, <3>1
    <2>5. QED BY <2>2, <2>3, <2>4
<1>7. CASE Arrive(d)
    <2>1. call'[d].pc = "adding"
        BY <1>7 DEF Arrive, TypeOK, Call
    <2>2. QED BY <1>1, <2>1
<1>8. CASE \/ DeleteExpired(d) \/ SettleNotification(d) \/ BusinessAwaited(d)
           \/ WriteReport(d) \/ WriteRepair(d) \/ MarkShown(d)
           \/ SkipNotification(d) \/ RepairNotification(d)
           \/ CheckBusiness(d) \/ RerunAwaited(d) \/ RequestFails(d)
    <2>1. \E pc \in {"readding", "awaiting", "clean", "reporting", "error", "checking",
                     "rejected", "showing", "rerunning", "repairing"} : Goto(d, pc)
        BY ONLY <1>8
           DEF DeleteExpired, SettleNotification, BusinessAwaited, WriteReport, WriteRepair,
               MarkShown, SkipNotification, RepairNotification, CheckBusiness,
               RerunAwaited, RequestFails, Answer
    <2>2. QED BY <1>1, <2>1, GotoKeeps
<1>9. QED BY <1>2, <1>3, <1>4, <1>5, <1>6, <1>7, <1>8 DEF Move, Step

LEMMA StampedStep ==
    ASSUME TypeOK, Stamped, NEW d \in Delivery, Move(d)
    PROVE  Stamped'
<1>1. now' = now /\ now \in Nat
    BY ClockStays DEF TypeOK, Time
<1>2. call'[d].stamp <= now /\ (call'[d].pc = "idle" => ~call'[d].first)
    BY <1>1, OwnCall DEF OwnStep, Stamped
<1>3. \A e \in Delivery \ {d} : call'[e] = call[e]
    BY OthersStay
<1>4. QED BY <1>1, <1>2, <1>3 DEF Stamped, At

LEMMA ClaimsStep ==
    ASSUME TypeOK, Based, Stamped, Claims, NEW d \in Delivery, Move(d)
    PROVE  Claims'
<1> SUFFICES ASSUME ~raced'
             PROVE  /\ \A e \in Delivery : call'[e].first => ClaimOnRecord(e)'
                    /\ \A e \in Delivery : UpToDate(e)'
    BY DEF Claims
<1>1. \A e \in Delivery \ {d} : call'[e] = call[e]
    BY OthersStay
<1>2. now' = now
    BY ClockStays
<1>3. /\ \A e \in Delivery : call[e].first => ClaimOnRecord(e)
      /\ \A e \in Delivery : UpToDate(e)
    BY RecordEffect DEF Claims
<1>4. /\ now \in Nat /\ TTL \in Nat
      /\ \A e \in Delivery : call[e].stamp \in Nat
      /\ record # NULL => record.firstSeenAt \in Nat
    BY DedupeConstants DEF TypeOK, Call, Record, Time
<1>5. ASSUME NEW e \in Delivery, call'[e].first
      PROVE  ClaimOnRecord(e)'
    <2>1. CASE call[e].first /\ call'[e].stamp = call[e].stamp
        <3>1. ClaimOnRecord(e)
            BY <1>3, <2>1
        <3>2. CASE call[e].stamp + TTL <= now
            BY <1>2, <2>1, <3>2 DEF ClaimOnRecord
        <3>3. CASE ~(call[e].stamp + TTL <= now)
            <4>1. record # NULL /\ record.firstSeenAt = call[e].stamp
                BY <3>1, <3>3 DEF ClaimOnRecord
            <4>2. ~Expired(record, now)
                BY <1>4, <3>3, <4>1 DEF Expired
            <4>3. record' # NULL /\ record'.firstSeenAt = record.firstSeenAt
                BY <4>1, <4>2, RecordEffect
            <4>4. QED BY <2>1, <4>1, <4>3 DEF ClaimOnRecord
        <3>4. QED BY <3>2, <3>3
    <2>2. CASE e = d /\ ~(call[e].first /\ call'[e].stamp = call[e].stamp)
        <3>1. /\ record' # NULL /\ record'.firstSeenAt = call'[e].stamp
              /\ call'[e].stamp \in Nat
            BY <1>4, <1>5, <2>2, OwnCall DEF OwnStep
        <3>2. QED BY <3>1 DEF ClaimOnRecord
    <2>3. QED BY <1>1, <1>5, <2>1, <2>2
<1>6. ASSUME NEW e \in Delivery PROVE UpToDate(e)'
    <2>1. CASE e = d
        BY <2>1, OwnUpToDate
    <2>2. CASE e # d /\ record' = record
        BY <1>1, <1>3, <2>2 DEF UpToDate, Merging, Unsettled, Renewing, At, Expired
    <2>3. CASE e # d /\ ~WillWrite(e)
        BY <1>1, <2>3 DEF UpToDate, WillWrite, Merging, Unsettled, Renewing, At
    <2>4. QED BY <2>1, <2>2, <2>3, RecordEffect
<1>7. QED BY <1>5, <1>6

LEMMA ClaimsNext ==
    ASSUME TypeOK, Based, Stamped, Claims, [Next]_vars PROVE (Stamped /\ Claims)'
<1> USE DEF UpToDate, Merging, Unsettled, Renewing, At, Expired, ClaimOnRecord
<1>1. CASE StopWorker
    <2>1. \A d \in Delivery : /\ call'[d].stamp = call[d].stamp
                              /\ call'[d].first = call[d].first
                              /\ call'[d].base = call[d].base
                              /\ call'[d].pc \in {call[d].pc, "stopped"}
        BY <1>1 DEF StopWorker, TypeOK, Call
    <2>2. now' = now /\ record' = record /\ raced' = raced
        BY <1>1 DEF StopWorker
    <2>3. Stamped'
        BY <2>1, <2>2 DEF Stamped
    <2>4. Claims'
        BY <2>1, <2>2 DEF Claims
    <2>5. QED BY <2>3, <2>4
<1>2. CASE Advance
    <2>1. now' = now + 1 /\ record' = record /\ raced' = raced /\ call' = call
        BY <1>2 DEF Advance, historyVars
    <2>2. /\ now \in Nat /\ TTL \in Nat
          /\ \A d \in Delivery : call[d].stamp \in Nat
        BY DedupeConstants DEF TypeOK, Call, Time
    <2>3. Stamped'
        BY <2>1, <2>2 DEF Stamped
    <2>4. Claims'
        BY <2>1, <2>2 DEF Claims
    <2>5. QED BY <2>3, <2>4
<1>3. CASE UNCHANGED vars
    BY <1>3 DEF vars, historyVars, Stamped, Claims
<1>4. QED BY <1>1, <1>2, <1>3, StampedStep, ClaimsStep DEF Next, Move

(* Who becomes the first finds no record of the key.                       *)
LEMMA FirstFindsNothing ==
    ASSUME TypeOK, Stamped, [Next]_vars, NEW d \in Delivery,
           ~call[d].first, call'[d].first
    PROVE  record = NULL
<1>1. CASE StopWorker
    BY <1>1 DEF StopWorker, TypeOK, Call
<1>2. CASE Advance \/ UNCHANGED vars
    BY <1>2 DEF Advance, vars
<1>3. ASSUME NEW e \in Delivery, Move(e) PROVE record = NULL
    <2>1. CASE e = d
        <3>1. OwnStep(d)
            BY <1>3, <2>1, OwnCall
        <3>2. QED BY <3>1 DEF OwnStep
    <2>2. CASE e # d
        BY <1>3, <2>2, OthersStay
    <2>3. QED BY <2>1, <2>2
<1>4. QED BY <1>1, <1>2, <1>3 DEF Next, Move

(* However many arrivals of one message the worker handles at a time, a    *)
(* single one claims it within a TTL (claimDedupe), wherever the worker is *)
(* stopped or a request fails, as long as no write of a call falls between *)
(* what another has read and what it writes.                               *)
THEOREM FirstOnce == Spec => OneFirst
<1> DEFINE Inv == TypeOK /\ BasedOnRecord /\ Stamped /\ Claims
<1>1. Init => Inv
    <2>1. Init => BasedOnRecord /\ Stamped /\ Claims
        BY DEF Init, BasedOnRecord, Based, Merging, At, Stamped, Claims, ClaimOnRecord,
               UpToDate
    <2>2. QED BY <2>1, InitType
<1>2. Inv /\ [Next]_vars => Inv'
    BY TypeStep, BaseNext, ClaimsNext DEF BasedOnRecord
<1>3. Inv /\ [Next]_vars
        => [\A d, e \in Delivery :
               d # e /\ ~call[d].first /\ call'[d].first /\ call[e].first
                   => call[e].stamp + TTL <= now \/ raced]_vars
    BY FirstFindsNothing DEF Claims, ClaimOnRecord
<1>4. QED BY <1>1, <1>2, <1>3, PTL DEF Spec, OneFirst

-----------------------------------------------------------------------------
(* What the answers of a worker rest on                                    *)

(* What the stage of a call says about it.                                 *)
Roles(d) ==
    /\ call[d].pc \in First => call[d].first
    /\ call[d].first => call[d].pc \in First \cup Over
    /\ d \in reported => call[d].first /\ call[d].pc \in Over
    /\ call[d].pc \in Claiming \cup {"dispatching", "duplicate", "showing", "marking",
                                     "checking"}
          => business[d] = "none"
    /\ call[d].pc \in {"rerunning", "repairing", "rewriting"}
          => business[d] # "none" /\ call[d].existing # NULL
    /\ call[d].pc \in {"repairing", "rewriting"} => business[d] \in {"landed", "failed"}
    /\ At(d, "writing") => call[d].base.firstSeenAt = call[d].stamp
    /\ At(d, "rewriting") => call[d].base.firstSeenAt = call[d].existing.firstSeenAt

LEMMA GotoWithKeeps ==
    ASSUME TypeOK, NEW d \in Delivery, NEW pc, NEW base, GotoWith(d, pc, base)
    PROVE  /\ call'[d].pc = pc /\ call'[d].stamp = call[d].stamp
           /\ call'[d].first = call[d].first /\ call'[d].base = base
           /\ call'[d].existing = call[d].existing
BY DEF GotoWith, TypeOK, Call

(* A step of a call runs no business but its own, and reports for itself.  *)
LEMMA OthersKeep ==
    ASSUME TypeOK, NEW d \in Delivery, Move(d), NEW e \in Delivery \ {d}
    PROVE  business'[e] = business[e] /\ (e \in reported' <=> e \in reported)
<1>1. \/ business' = business
      \/ \E b : business' = [business EXCEPT ![d] = b]
    BY DEF Move, RequestFails, Arrive, Step, BusinessSettles, AddRecord, ReadExisting,
           DeleteExpired, Dispatch, SettleNotification, BusinessAwaited, ReadForReport,
           WriteReport, SkipNotification, RepairNotification, ReadAfterShow, MarkShown,
           CheckBusiness, RerunAwaited, ReadForRepair, WriteRepair
<1>2. reported' = reported \/ reported' = reported \cup {d}
    BY DEF Move, RequestFails, Arrive, Step, BusinessSettles, AddRecord, ReadExisting,
           DeleteExpired, Dispatch, SettleNotification, BusinessAwaited, ReadForReport,
           WriteReport, SkipNotification, RepairNotification, ReadAfterShow, MarkShown,
           CheckBusiness, RerunAwaited, ReadForRepair, WriteRepair, historyVars
<1>3. QED BY <1>1, <1>2 DEF TypeOK

(* The stages in the order a call goes through them.                       *)
LEMMA RolesOwn ==
    ASSUME TypeOK, BasedOnRecord, NEW d \in Delivery, Roles(d), Move(d)
    PROVE  Roles(d)'
<1> USE DEF Roles, At, Claiming, First, Over, historyVars
<1>1. CASE Arrive(d)
    <2>1. /\ call'[d].pc = "adding" /\ call'[d].first = call[d].first
        BY <1>1 DEF Arrive, TypeOK, Call
    <2>2. QED BY <1>1, <2>1 DEF Arrive
<1>2. CASE AddRecord(d)
    <2>1. CASE record = NULL
        <3>1. call' = [call EXCEPT ![d].pc = "dispatching", ![d].first = TRUE]
            BY <1>2, <2>1 DEF AddRecord, Add
        <3>2. call'[d].pc = "dispatching" /\ call'[d].first
            BY <3>1 DEF TypeOK, Call
        <3>3. QED BY <1>2, <3>2 DEF AddRecord
    <2>2. CASE record # NULL
        <3>1. Goto(d, "reading") \/ Goto(d, "duplicate")
            BY <1>2, <2>2 DEF AddRecord, Add
        <3>2. QED BY <1>2, <3>1, GotoKeeps DEF AddRecord
    <2>3. QED BY <2>1, <2>2
<1>3. CASE ReadExisting(d)
    <2>1. PICK pc \in {"deleting", "duplicate"} :
              call' = [call EXCEPT ![d].pc = pc, ![d].existing = record]
        BY <1>3 DEF ReadExisting
    <2>2. call'[d].pc = pc /\ call'[d].first = call[d].first
        BY <2>1 DEF TypeOK, Call
    <2>3. QED BY <1>3, <2>2 DEF ReadExisting
<1>4. CASE DeleteExpired(d)
    BY <1>4, GotoKeeps DEF DeleteExpired
<1>5. CASE Dispatch(d)
    BY <1>5, GotoKeeps DEF Dispatch
<1>6. CASE SettleNotification(d)
    BY <1>6, GotoKeeps DEF SettleNotification
<1>7. CASE BusinessAwaited(d)
    <2>1. PICK pc \in {"clean", "reporting"} : Goto(d, pc)
        BY <1>7 DEF BusinessAwaited
    <2>2. QED BY <1>7, <2>1, GotoKeeps DEF BusinessAwaited
<1>8. CASE BusinessSettles(d)
    <2>1. /\ business[d] = "running" /\ call' = call /\ reported' = reported
          /\ business'[d] \in {"landed", "failed"}
        BY <1>8 DEF BusinessSettles, TypeOK
    <2>2. QED BY <2>1
<1>9. CASE ReadForReport(d)
    <2>1. CASE Goto(d, "error")
        BY <1>9, <2>1, GotoKeeps DEF ReadForReport
    <2>2. CASE GotoWith(d, "writing", record) /\ SameClaim(call[d].stamp)
        BY <1>9, <2>2, GotoWithKeeps DEF ReadForReport, SameClaim
    <2>3. QED BY <1>9, <2>1, <2>2 DEF ReadForReport
<1>10. CASE WriteReport(d)
    BY <1>10, GotoKeeps DEF WriteReport
<1>11. CASE SkipNotification(d) \/ RepairNotification(d) \/ MarkShown(d)
    <2>1. PICK pc \in {"checking", "showing", "rejected"} : Goto(d, pc)
        BY <1>11 DEF SkipNotification, RepairNotification, MarkShown
    <2>2. QED BY <1>11, <2>1, GotoKeeps DEF SkipNotification, RepairNotification, MarkShown
<1>12. CASE ReadAfterShow(d)
    BY <1>12, GotoWithKeeps DEF ReadAfterShow
<1>13. CASE CheckBusiness(d)
    <2>1. \/ Goto(d, "clean")
          \/ Goto(d, "rerunning") /\ call[d].existing # NULL
        BY ONLY <1>13 DEF CheckBusiness, ErrorOnRecord, ErrorAtClaim
    <2>2. /\ At(d, "checking") /\ UNCHANGED reported
          /\ business' = business \/ business'[d] = "running"
        BY <1>13 DEF CheckBusiness, TypeOK
    <2>3. Goto(d, "rerunning") => business'[d] = "running"
        <3>1. Goto(d, "rerunning") => ~Goto(d, "clean")
            BY GotoKeeps
        <3>2. QED BY <1>13, <3>1 DEF CheckBusiness, TypeOK
    <2>4. QED BY <2>1, <2>2, <2>3, GotoKeeps
<1>14. CASE RerunAwaited(d)
    <2>1. business[d] \in {"landed", "failed"}
        BY <1>14 DEF RerunAwaited, TypeOK
    <2>2. QED BY <1>14, <2>1, GotoKeeps DEF RerunAwaited
<1>15. CASE ReadForRepair(d)
    <2>1. CASE Goto(d, Answer(d))
        BY <1>15, <2>1, GotoKeeps DEF ReadForRepair, Answer
    <2>2. CASE GotoWith(d, "rewriting", record) /\ SameClaim(call[d].existing.firstSeenAt)
        BY <1>15, <2>2, GotoWithKeeps DEF ReadForRepair, SameClaim
    <2>3. QED BY <1>15, <2>1, <2>2 DEF ReadForRepair
<1>16. CASE WriteRepair(d)
    BY <1>16, GotoKeeps DEF WriteRepair, Answer
<1>17. CASE RequestFails(d)
    <2>1. PICK pc \in {"rejected", "error", "clean"} : Goto(d, pc)
        BY <1>17, FailureMoves
    <2>2. UNCHANGED <<business, reported>> /\ call[d].pc \notin {"idle"} \cup Over
        BY <1>17 DEF RequestFails
    <2>3. QED BY <2>1, <2>2, GotoKeeps
<1>18. QED
    BY <1>1, <1>2, <1>3, <1>4, <1>5, <1>6, <1>7, <1>8, <1>9, <1>10, <1>11, <1>12,
       <1>13, <1>14, <1>15, <1>16, <1>17 DEF Move, Step

LEMMA RolesNext ==
    ASSUME TypeOK, BasedOnRecord, \A d \in Delivery : Roles(d), [Next]_vars
    PROVE  \A d \in Delivery : Roles(d)'
<1>1. CASE StopWorker
    <2>1. \A d \in Delivery : /\ call'[d] = call[d] \/ call'[d].pc = "stopped"
                              /\ call'[d].first = call[d].first
                              /\ call[d].pc \in Over => call'[d] = call[d]
        BY <1>1 DEF StopWorker, TypeOK, Call
    <2>2. UNCHANGED <<business, reported>>
        BY <1>1 DEF StopWorker
    <2>3. QED BY <2>1, <2>2 DEF Roles, At, Claiming, First, Over
<1>2. CASE Advance \/ UNCHANGED vars
    BY <1>2 DEF Advance, vars, historyVars, Roles, At
<1>3. ASSUME NEW d \in Delivery, Move(d) PROVE \A e \in Delivery : Roles(e)'
    BY <1>3, OthersStay, OthersKeep, RolesOwn DEF Roles, At
<1>4. QED BY <1>1, <1>2, <1>3 DEF Next, Move

(* Once a call has begun its stamp stays, and a claim is never given up.   *)
LEMMA Lasting ==
    ASSUME TypeOK, NEW d \in Delivery, Move(d), ~At(d, "idle")
    PROVE  call'[d].stamp = call[d].stamp /\ (call[d].first => call'[d].first)
<1> USE DEF TypeOK, Call
<1>1. CASE Arrive(d) \/ BusinessSettles(d)
    BY <1>1 DEF Arrive, BusinessSettles
<1>2. CASE AddRecord(d) \/ ReadExisting(d)
    BY <1>2 DEF AddRecord, Add, ReadExisting, Goto
<1>3. CASE Dispatch(d) \/ SettleNotification(d) \/ BusinessAwaited(d) \/ DeleteExpired(d)
    BY <1>3, GotoKeeps DEF Dispatch, SettleNotification, BusinessAwaited, DeleteExpired
<1>4. CASE ReadForReport(d) \/ WriteReport(d) \/ ReadAfterShow(d)
    BY <1>4, GotoKeeps, GotoWithKeeps DEF ReadForReport, WriteReport, ReadAfterShow
<1>5. CASE \/ SkipNotification(d) \/ RepairNotification(d) \/ MarkShown(d)
           \/ CheckBusiness(d) \/ RerunAwaited(d) \/ WriteRepair(d)
    <2>1. \E pc : Goto(d, pc)
        BY ONLY <1>5 DEF SkipNotification, RepairNotification, MarkShown, CheckBusiness,
                         RerunAwaited, WriteRepair
    <2>2. QED BY <2>1, GotoKeeps
<1>6. CASE ReadForRepair(d)
    BY <1>6, GotoKeeps, GotoWithKeeps DEF ReadForRepair
<1>7. CASE RequestFails(d)
    BY <1>7, FailureMoves, GotoKeeps
<1>8. QED BY <1>1, <1>2, <1>3, <1>4, <1>5, <1>6, <1>7 DEF Move, Step

(* What a step leaves on record, in full.                                  *)
Shows(d) == [call[d].base EXCEPT !.shown = TRUE, !.pending = FALSE]

LEMMA WhatIsWritten ==
    ASSUME NEW d \in Delivery, Move(d)
    PROVE  \/ record' = record
           \/ record' = NULL
           \/ /\ AddRecord(d) /\ record' = Claimed(call[d].stamp)
              /\ call' = [call EXCEPT ![d].pc = "dispatching", ![d].first = TRUE]
           \/ SettleNotification(d) /\ \E shown \in BOOLEAN : record' = Settled(d, shown)
           \/ WriteReport(d) /\ record' = Reported(d)
           \/ MarkShown(d) /\ record' = Shows(d)
           \/ WriteRepair(d) /\ record' = Repaired(d)
<1>1. CASE Reading(d)
    BY <1>1, ReadingWrites
<1>2. CASE Arrive(d) \/ DeleteExpired(d)
    BY <1>2 DEF Arrive, DeleteExpired, Write
<1>3. CASE AddRecord(d)
    BY <1>3 DEF AddRecord, Add, Write
<1>4. CASE SettleNotification(d)
    BY <1>4 DEF SettleNotification, Written, Write, WriteFails, Shown, NotShown
<1>5. CASE WriteReport(d) \/ MarkShown(d) \/ WriteRepair(d)
    BY <1>5 DEF WriteReport, MarkShown, WriteRepair, Written, Write, WriteFails, Shows
<1>6. QED BY <1>1, <1>2, <1>3, <1>4, <1>5, MoveKinds DEF Writing

(* A call knows the record only from having read it.                       *)
LEMMA Snapshots ==
    ASSUME TypeOK, NEW d \in Delivery, Move(d)
    PROVE  /\ call'[d].existing \in {call[d].existing, record}
           /\ call'[d].base \in {call[d].base, call[d].existing, record}
           /\ ~At(d, "reading") => call'[d].existing = call[d].existing
<1> USE DEF TypeOK, Call
<1>1. CASE Arrive(d) \/ BusinessSettles(d) \/ AddRecord(d)
    BY <1>1 DEF Arrive, BusinessSettles, AddRecord, Add, Goto
<1>2. CASE ReadExisting(d)
    BY <1>2 DEF ReadExisting
<1>3. CASE Dispatch(d) \/ SettleNotification(d) \/ BusinessAwaited(d) \/ DeleteExpired(d)
    BY <1>3, GotoKeeps DEF Dispatch, SettleNotification, BusinessAwaited, DeleteExpired
<1>4. CASE ReadForReport(d) \/ WriteReport(d) \/ ReadAfterShow(d) \/ ReadForRepair(d)
    BY <1>4, GotoKeeps, GotoWithKeeps
       DEF ReadForReport, WriteReport, ReadAfterShow, ReadForRepair, MergeOnto
<1>5. CASE \/ SkipNotification(d) \/ RepairNotification(d) \/ MarkShown(d)
           \/ CheckBusiness(d) \/ RerunAwaited(d) \/ WriteRepair(d)
    <2>1. \E pc : Goto(d, pc)
        BY ONLY <1>5 DEF SkipNotification, RepairNotification, MarkShown, CheckBusiness,
                         RerunAwaited, WriteRepair
    <2>2. QED BY <2>1, GotoKeeps
<1>6. CASE RequestFails(d)
    BY <1>6, FailureMoves, GotoKeeps
<1>7. QED BY <1>1, <1>2, <1>3, <1>4, <1>5, <1>6 DEF Move, Step

-----------------------------------------------------------------------------
(* A failure on record is somebody's report                                *)

OnReport(instant) == \E e \in reported : call[e].stamp = instant

Backed(r) == r # NULL /\ r.businessError => OnReport(r.firstSeenAt)

Known ==
    /\ Backed(record)
    /\ \A d \in Delivery : /\ Backed(call[d].existing) /\ Backed(call[d].base)
                           /\ call[d].pc \in {"rerunning", "repairing", "rewriting"}
                                 => OnReport(call[d].existing.firstSeenAt)

(* A report is never withdrawn.                                            *)
LEMMA ReportsStay ==
    ASSUME TypeOK, \A d \in Delivery : Roles(d), [Next]_vars
    PROVE  \A instant : OnReport(instant) => OnReport(instant)'
<1>1. \A e \in reported : e \in Delivery /\ call[e].pc \in Over
    BY DEF TypeOK, Roles
<1>2. CASE StopWorker
    BY <1>1, <1>2 DEF StopWorker, OnReport, TypeOK
<1>3. CASE Advance \/ UNCHANGED vars
    BY <1>3 DEF Advance, vars, historyVars, OnReport
<1>4. ASSUME NEW d \in Delivery, Move(d)
      PROVE  \A instant : OnReport(instant) => OnReport(instant)'
    <2>1. \A e \in reported : call'[e].stamp = call[e].stamp
        BY <1>1, <1>4, OthersStay, Lasting DEF At, Over
    <2>2. reported \subseteq reported'
        BY <1>4 DEF Move, RequestFails, Arrive, Step, BusinessSettles, AddRecord,
           ReadExisting, DeleteExpired, Dispatch, SettleNotification, BusinessAwaited,
           ReadForReport, WriteReport, SkipNotification, RepairNotification, ReadAfterShow,
           MarkShown, CheckBusiness, RerunAwaited, ReadForRepair, WriteRepair, historyVars
    <2>3. QED BY <2>1, <2>2 DEF OnReport
<1>5. QED BY <1>2, <1>3, <1>4 DEF Next, Move

(* A rerun answers a failure that is on record, or was at the claim.       *)
LEMMA RerunKnows ==
    ASSUME TypeOK, Known, NEW d \in Delivery, CheckBusiness(d), call'[d].pc = "rerunning"
    PROVE  OnReport(call[d].existing.firstSeenAt)
<1>1. ErrorOnRecord(d) \/ ErrorAtClaim(d)
    <2>1. SUFFICES ASSUME ~ErrorOnRecord(d), ~ErrorAtClaim(d) PROVE FALSE
        OBVIOUS
    <2>2. Goto(d, "clean")
        BY <2>1 DEF CheckBusiness
    <2>3. QED BY <2>2, GotoKeeps
<1>2. /\ call[d].existing # NULL
      /\ \/ call[d].existing.businessError
         \/ record.businessError /\ SameClaim(call[d].existing.firstSeenAt)
    BY <1>1 DEF ErrorOnRecord, ErrorAtClaim
<1>3. Backed(record) /\ Backed(call[d].existing)
    BY DEF Known
<1>4. QED BY <1>2, <1>3 DEF Backed, SameClaim

LEMMA RerunBegins ==
    ASSUME TypeOK, NEW d \in Delivery, Move(d),
           call'[d].pc \in {"rerunning", "repairing", "rewriting"},
           call[d].pc \notin {"rerunning", "repairing", "rewriting"}
    PROVE  CheckBusiness(d)
<1> USE DEF At
<1>1. CASE Arrive(d) \/ AddRecord(d)
    BY <1>1 DEF Arrive, AddRecord, Add, Goto, TypeOK, Call
<1>2. CASE ReadExisting(d)
    <2>1. PICK pc \in {"deleting", "duplicate"} :
              call' = [call EXCEPT ![d].pc = pc, ![d].existing = record]
        BY <1>2 DEF ReadExisting
    <2>2. QED BY <2>1 DEF TypeOK, Call
<1>3. CASE BusinessSettles(d)
    BY <1>3 DEF BusinessSettles
<1>4. CASE Dispatch(d) \/ SettleNotification(d) \/ BusinessAwaited(d) \/ DeleteExpired(d)
    BY <1>4, GotoKeeps DEF Dispatch, SettleNotification, BusinessAwaited, DeleteExpired
<1>5. CASE ReadForReport(d) \/ WriteReport(d) \/ ReadAfterShow(d)
    BY <1>5, GotoKeeps, GotoWithKeeps DEF ReadForReport, WriteReport, ReadAfterShow
<1>6. CASE SkipNotification(d) \/ RepairNotification(d) \/ MarkShown(d)
    <2>1. PICK pc \in {"checking", "showing", "rejected"} : Goto(d, pc)
        BY <1>6 DEF SkipNotification, RepairNotification, MarkShown
    <2>2. QED BY <2>1, GotoKeeps
<1>7. CASE RerunAwaited(d) \/ ReadForRepair(d) \/ WriteRepair(d)
    BY <1>7 DEF RerunAwaited, ReadForRepair, WriteRepair
<1>8. CASE RequestFails(d)
    BY <1>8, FailureMoves, GotoKeeps
<1>9. QED BY <1>1, <1>2, <1>3, <1>4, <1>5, <1>6, <1>7, <1>8 DEF Move, Step

LEMMA KnownStep ==
    ASSUME TypeOK, Based, \A d \in Delivery : Roles(d), Known, NEW d \in Delivery, Move(d)
    PROVE  Known'
<1>1. \A instant : OnReport(instant) => OnReport(instant)'
    BY ReportsStay DEF Next, Move
<1>2. \A e \in Delivery \ {d} : call'[e] = call[e]
    BY OthersStay
<1>3. /\ Backed(record)
      /\ \A e \in Delivery : Backed(call[e].existing) /\ Backed(call[e].base)
    BY DEF Known
<1>4. Backed(record)'
    <2>1. CASE record' = record \/ record' = NULL
        BY <1>1, <1>3, <2>1 DEF Backed
    <2>2. CASE record' = Claimed(call[d].stamp)
        BY <2>2 DEF Backed, Claimed
    <2>3. CASE \E shown \in BOOLEAN : record' = Settled(d, shown)
        BY <2>3 DEF Backed, Settled, Claimed
    <2>4. CASE WriteReport(d) /\ record' = Reported(d)
        <3>1. At(d, "writing") /\ d \in reported' /\ Goto(d, "error")
            BY <2>4 DEF WriteReport
        <3>2. call'[d].stamp = call[d].stamp
            BY <3>1, GotoKeeps, Stages
        <3>3. call[d].base \in Record
            BY <3>1 DEF Based, Merging, At, TypeOK, Call
        <3>4. record'.firstSeenAt = call[d].base.firstSeenAt
            BY <2>4, <3>3 DEF Reported, Record
        <3>5. call[d].base.firstSeenAt = call[d].stamp
            BY <3>1 DEF Roles
        <3>6. QED BY <3>1, <3>2, <3>4, <3>5 DEF Backed, OnReport
    <2>5. CASE MarkShown(d) /\ record' = Shows(d)
        <3>1. call[d].base \in Record
            BY <2>5 DEF MarkShown, Based, Merging, At, TypeOK, Call
        <3>2. /\ record'.firstSeenAt = call[d].base.firstSeenAt
              /\ record'.businessError = call[d].base.businessError
            BY <2>5, <3>1 DEF Shows, Record
        <3>3. QED BY <1>1, <1>3, <3>1, <3>2, RecordNotNull DEF Backed
    <2>6. CASE WriteRepair(d) /\ record' = Repaired(d)
        <3>1. call[d].base \in Record /\ At(d, "rewriting")
            BY <2>6 DEF WriteRepair, Based, Merging, At, TypeOK, Call
        <3>2. record'.firstSeenAt = call[d].base.firstSeenAt
            BY <2>6, <3>1 DEF Repaired, Record
        <3>3. call[d].base.firstSeenAt = call[d].existing.firstSeenAt
            BY <3>1 DEF Roles
        <3>4. OnReport(call[d].existing.firstSeenAt)
            BY <3>1 DEF Known, At
        <3>5. QED BY <1>1, <3>2, <3>3, <3>4 DEF Backed
    <2>7. QED BY <2>1, <2>2, <2>3, <2>4, <2>5, <2>6, WhatIsWritten
<1>5. ASSUME NEW e \in Delivery
      PROVE  Backed(call[e].existing)' /\ Backed(call[e].base)'
    <2>1. /\ call'[e].existing \in {call[e].existing, record}
          /\ call'[e].base \in {call[e].base, call[e].existing, record}
        BY <1>2, Snapshots
    <2>2. QED BY <1>1, <1>3, <2>1 DEF Backed
<1>6. ASSUME NEW e \in Delivery, call'[e].pc \in {"rerunning", "repairing", "rewriting"}
      PROVE  OnReport(call[e].existing.firstSeenAt)'
    <2>1. CASE call[e].pc \in {"rerunning", "repairing", "rewriting"}
        <3>1. call'[e].existing = call[e].existing
            BY <1>2, <2>1, Snapshots DEF At
        <3>2. QED BY <1>1, <2>1, <3>1 DEF Known
    <2>2. CASE call[e].pc \notin {"rerunning", "repairing", "rewriting"}
        <3>1. e = d
            BY <1>2, <1>6, <2>2
        <3>2. CheckBusiness(d)
            BY <1>6, <2>2, <3>1, RerunBegins
        <3>3. call'[d].pc = "rerunning" /\ call'[d].existing = call[d].existing
            <4>1. PICK pc \in {"clean", "rerunning"} : Goto(d, pc)
                BY <3>2 DEF CheckBusiness
            <4>2. QED BY <1>6, <3>1, <4>1, GotoKeeps
        <3>4. QED BY <1>1, <3>1, <3>2, <3>3, RerunKnows
    <2>3. QED BY <2>1, <2>2
<1>7. QED BY <1>4, <1>5, <1>6 DEF Known

LEMMA KnownNext ==
    ASSUME TypeOK, Based, \A d \in Delivery : Roles(d), Known, [Next]_vars
    PROVE  Known'
<1>1. \A instant : OnReport(instant) => OnReport(instant)'
    BY ReportsStay
<1>2. CASE StopWorker
    <2>1. \A d \in Delivery : /\ call'[d].existing = call[d].existing
                              /\ call'[d].base = call[d].base
                              /\ call'[d].pc \in {call[d].pc, "stopped"}
        BY <1>2 DEF StopWorker, TypeOK, Call
    <2>2. record' = record
        BY <1>2 DEF StopWorker
    <2>3. QED BY <1>1, <2>1, <2>2 DEF Known, Backed
<1>3. CASE Advance \/ UNCHANGED vars
    BY <1>3 DEF Advance, vars, historyVars, Known, Backed, OnReport
<1>4. QED BY <1>2, <1>3, KnownStep DEF Next, Move

(* A duplicate runs the business callback again only when a first delivery *)
(* has put a failure of the same claim on record                           *)
(* (readDuplicateBusinessError): never beside a first run still under way, *)
(* whatever races, fails or is stopped.                                    *)
THEOREM RerunsAnswerFailures == Spec => RerunOnlyAfterFailure
<1> DEFINE Inv == TypeOK /\ BasedOnRecord /\ (\A d \in Delivery : Roles(d)) /\ Known
<1>1. Init => Inv
    <2>1. Init => BasedOnRecord
        BY DEF Init, BasedOnRecord, Based, Merging, At
    <2>2. Init => \A d \in Delivery : Roles(d)
        BY DEF Init, Roles, At, First, Over
    <2>3. Init => Known
        BY DEF Init, Known, Backed
    <2>4. QED BY <2>1, <2>2, <2>3, InitType
<1>2. Inv /\ [Next]_vars => Inv'
    BY TypeStep, BaseNext, RolesNext, KnownNext DEF BasedOnRecord
<1>3. Inv /\ [Next]_vars
        => [\A d \in Delivery :
               At(d, "checking") /\ At(d, "rerunning")'
                   => \E e \in reported : call[e].stamp = call[d].existing.firstSeenAt]_vars
    <2> SUFFICES ASSUME Inv, [Next]_vars, NEW d \in Delivery,
                        At(d, "checking"), At(d, "rerunning")'
                 PROVE  OnReport(call[d].existing.firstSeenAt)
        BY DEF OnReport
    <2>1. CASE StopWorker
        BY <2>1 DEF StopWorker, At, TypeOK, Call
    <2>2. CASE Advance \/ UNCHANGED vars
        BY <2>2 DEF Advance, vars, At
    <2>3. ASSUME NEW e \in Delivery, Move(e)
          PROVE  OnReport(call[d].existing.firstSeenAt)
        <3>1. e = d
            BY <2>3, OthersStay DEF At
        <3>2. CheckBusiness(d)
            BY <2>3, <3>1, RerunBegins DEF At
        <3>3. QED BY <3>2, RerunKnows DEF At
    <2>4. QED BY <2>1, <2>2, <2>3 DEF Next, Move
<1>4. QED BY <1>1, <1>2, <1>3, PTL DEF Spec, RerunOnlyAfterFailure

-----------------------------------------------------------------------------
(* What is merged is what is on record                                     *)

(* As long as no write has fallen between a read and the write based on    *)
(* it, a merge still goes onto the record as it is, and a claim is on      *)
(* record while its TTL lasts.                                             *)
Exact(d) ==
    Merging(d) => IF record # NULL THEN call[d].base = record
                  ELSE At(d, "marking") /\ Expired(call[d].base, now)

OnRecord(instant) ==
    instant + TTL <= now \/ (record # NULL /\ record.firstSeenAt = instant)

Held(d) == call[d].existing # NULL => OnRecord(call[d].existing.firstSeenAt)

Fresh == ~raced => \A d \in Delivery : Exact(d) /\ Held(d)

LEMMA OnRecordStays ==
    ASSUME TypeOK, Based, Stamped, Claims, NEW d \in Delivery, Move(d), ~raced',
           NEW instant \in Time, OnRecord(instant)
    PROVE  OnRecord(instant)'
<1>1. now' = now
    BY ClockStays
<1>2. CASE instant + TTL <= now
    BY <1>1, <1>2 DEF OnRecord
<1>3. CASE ~(instant + TTL <= now)
    <2>1. record # NULL /\ record.firstSeenAt = instant
        BY <1>3 DEF OnRecord
    <2>2. ~Expired(record, now)
        BY <1>3, <2>1 DEF Expired
    <2>3. record' # NULL /\ record'.firstSeenAt = record.firstSeenAt
        BY <2>1, <2>2, RecordEffect
    <2>4. QED BY <2>1, <2>3 DEF OnRecord
<1>4. QED BY <1>2, <1>3

(* A merge begins with a read of the record it goes onto.                  *)
LEMMA MergeBegins ==
    ASSUME TypeOK, NEW d \in Delivery, Move(d), Merging(d)', ~Merging(d)
    PROVE  /\ record' = record
           /\ \/ record # NULL /\ call'[d].base = record
              \/ record = NULL /\ At(d, "marking")' /\ call'[d].base = call[d].existing
<1> USE DEF Merging, At
<1>1. CASE Arrive(d) \/ AddRecord(d)
    BY <1>1 DEF Arrive, AddRecord, Add, Goto, TypeOK, Call
<1>2. CASE ReadExisting(d)
    <2>1. PICK pc \in {"deleting", "duplicate"} :
              call' = [call EXCEPT ![d].pc = pc, ![d].existing = record]
        BY <1>2 DEF ReadExisting
    <2>2. QED BY <2>1 DEF TypeOK, Call
<1>3. CASE BusinessSettles(d)
    BY <1>3 DEF BusinessSettles
<1>4. CASE Dispatch(d) \/ SettleNotification(d) \/ BusinessAwaited(d) \/ DeleteExpired(d)
    BY <1>4, GotoKeeps DEF Dispatch, SettleNotification, BusinessAwaited, DeleteExpired
<1>5. CASE ReadForReport(d)
    BY <1>5, GotoKeeps, GotoWithKeeps DEF ReadForReport, SameClaim
<1>6. CASE ReadAfterShow(d)
    BY <1>6, GotoWithKeeps DEF ReadAfterShow, MergeOnto
<1>7. CASE ReadForRepair(d)
    <2>1. CASE Goto(d, Answer(d))
        BY <2>1, GotoKeeps DEF Answer
    <2>2. CASE GotoWith(d, "rewriting", record) /\ record # NULL
        BY <1>7, <2>2, GotoWithKeeps DEF ReadForRepair
    <2>3. QED BY <1>7, <2>1, <2>2 DEF ReadForRepair, SameClaim
<1>8. CASE SkipNotification(d) \/ RepairNotification(d) \/ CheckBusiness(d) \/ RerunAwaited(d)
    <2>1. PICK pc \in {"checking", "showing", "rejected", "rerunning", "clean",
                       "repairing"} : Goto(d, pc)
        BY ONLY <1>8 DEF SkipNotification, RepairNotification, CheckBusiness, RerunAwaited
    <2>2. QED BY <2>1, GotoKeeps
<1>9. CASE WriteReport(d) \/ MarkShown(d) \/ WriteRepair(d)
    BY <1>9 DEF WriteReport, MarkShown, WriteRepair
<1>10. CASE RequestFails(d)
    BY <1>10, FailureMoves, GotoKeeps
<1>11. QED
    BY <1>1, <1>2, <1>3, <1>4, <1>5, <1>6, <1>7, <1>8, <1>9, <1>10 DEF Move, Step

(* ... and ends with the write.                                            *)
LEMMA MergeEnds ==
    ASSUME TypeOK, NEW d \in Delivery, Move(d), Merging(d)', Merging(d)
    PROVE  UNCHANGED <<record, call>>
<1> USE DEF Merging, At
<1>1. CASE WriteReport(d)
    BY <1>1, GotoKeeps DEF WriteReport
<1>2. CASE MarkShown(d)
    <2>1. PICK pc \in {"checking", "rejected"} : Goto(d, pc)
        BY <1>2 DEF MarkShown
    <2>2. QED BY <2>1, GotoKeeps
<1>3. CASE WriteRepair(d)
    BY <1>3, GotoKeeps DEF WriteRepair, Answer
<1>4. CASE BusinessSettles(d)
    BY <1>4 DEF BusinessSettles
<1>5. CASE RequestFails(d)
    BY <1>5 DEF RequestFails, Claiming
<1>6. CASE Arrive(d) \/ AddRecord(d) \/ ReadExisting(d) \/ DeleteExpired(d)
    BY <1>6 DEF Arrive, AddRecord, ReadExisting, DeleteExpired
<1>7. CASE \/ Dispatch(d) \/ SettleNotification(d) \/ BusinessAwaited(d)
           \/ ReadForReport(d) \/ SkipNotification(d) \/ RepairNotification(d)
           \/ ReadAfterShow(d) \/ CheckBusiness(d) \/ RerunAwaited(d) \/ ReadForRepair(d)
    BY ONLY <1>7, Merging(d) DEF Merging, At, Dispatch, SettleNotification, BusinessAwaited,
       ReadForReport, SkipNotification, RepairNotification, ReadAfterShow, CheckBusiness,
       RerunAwaited, ReadForRepair
<1>8. QED BY <1>1, <1>2, <1>3, <1>4, <1>5, <1>6, <1>7 DEF Move, Step

LEMMA FreshStep ==
    ASSUME TypeOK, BasedOnRecord, Stamped, Claims, Fresh, NEW d \in Delivery, Move(d)
    PROVE  Fresh'
<1> SUFFICES ASSUME ~raced' PROVE \A e \in Delivery : Exact(e)' /\ Held(e)'
    BY DEF Fresh
<1>1. \A e \in Delivery \ {d} : call'[e] = call[e]
    BY OthersStay
<1>2. now' = now
    BY ClockStays
<1>3. /\ Based
      /\ ~raced
      /\ record' = record \/ \A e \in Delivery \ {d} : ~WillWrite(e)
      /\ \A e \in Delivery : Exact(e) /\ Held(e)
    BY RecordEffect DEF Fresh, BasedOnRecord
<1>4. /\ \A instant \in Time : OnRecord(instant) => OnRecord(instant)'
      /\ record # NULL => OnRecord(record.firstSeenAt) /\ record.firstSeenAt \in Time
      /\ \A e \in Delivery : call[e].existing # NULL => call[e].existing.firstSeenAt \in Time
    BY <1>3, OnRecordStays DEF OnRecord, TypeOK, Call, Record
<1>5. ASSUME NEW e \in Delivery PROVE Held(e)'
    <2>1. call'[e].existing \in {call[e].existing, record}
        BY <1>1, Snapshots
    <2>2. QED BY <1>3, <1>4, <2>1 DEF Held
<1>6. ASSUME NEW e \in Delivery \ {d} PROVE Exact(e)'
    <2>1. CASE record' = record
        BY <1>1, <1>2, <1>3, <1>6, <2>1 DEF Exact, Merging, At, Expired
    <2>2. CASE ~WillWrite(e)
        BY <1>1, <1>6, <2>2 DEF Exact, WillWrite, Merging, At
    <2>3. QED BY <1>3, <2>1, <2>2
<1>7. Exact(d)'
    <2>1. CASE Merging(d)' /\ Merging(d)
        BY <1>2, <1>3, <2>1, MergeEnds DEF Exact, Merging, At, Expired
    <2>2. CASE Merging(d)' /\ ~Merging(d)
        <3>1. CASE record # NULL
            BY <2>2, <3>1, MergeBegins DEF Exact
        <3>2. CASE record = NULL
            <4>1. /\ record' = NULL /\ At(d, "marking")'
                  /\ call'[d].base = call[d].existing
                BY <2>2, <3>2, MergeBegins
            <4>2. call[d].existing # NULL
                BY <2>2, <4>1, BaseNext DEF BasedOnRecord, Based, Next, Move
            <4>3. call[d].existing.firstSeenAt + TTL <= now
                BY <1>3, <3>2, <4>2 DEF Held, OnRecord
            <4>4. QED BY <1>2, <4>1, <4>3 DEF Exact, Expired
        <3>3. QED BY <3>1, <3>2
    <2>3. QED BY <2>1, <2>2 DEF Exact
<1>8. QED BY <1>5, <1>6, <1>7

LEMMA FreshNext ==
    ASSUME TypeOK, BasedOnRecord, Stamped, Claims, Fresh, [Next]_vars PROVE Fresh'
<1> USE DEF Fresh, Exact, Held, OnRecord, Merging, At, Expired
<1>1. CASE StopWorker
    <2>1. \A d \in Delivery : /\ call'[d].existing = call[d].existing
                              /\ call'[d].base = call[d].base
                              /\ call'[d].pc \in {call[d].pc, "stopped"}
        BY <1>1 DEF StopWorker, TypeOK, Call
    <2>2. now' = now /\ record' = record /\ raced' = raced
        BY <1>1 DEF StopWorker
    <2>3. QED BY <2>1, <2>2
<1>2. CASE Advance
    <2>1. now' = now + 1 /\ record' = record /\ raced' = raced /\ call' = call
        BY <1>2 DEF Advance, historyVars
    <2>2. /\ now \in Nat /\ TTL \in Nat
          /\ \A d \in Delivery : /\ call[d].existing # NULL => call[d].existing.firstSeenAt \in Nat
                                 /\ call[d].base # NULL => call[d].base.firstSeenAt \in Nat
        BY DedupeConstants DEF TypeOK, Call, Record, Time
    <2>3. \A d \in Delivery : Merging(d) => call[d].base # NULL
        BY DEF BasedOnRecord, Based
    <2>4. QED BY <2>1, <2>2, <2>3
<1>3. CASE UNCHANGED vars
    BY <1>3 DEF vars, historyVars
<1>4. QED BY <1>1, <1>2, <1>3, FreshStep DEF Next, Move

-----------------------------------------------------------------------------
(* What the record says of the business                                    *)

(* As long as nothing races and nothing fails, a first delivery that has   *)
(* ended without a report has landed, or its claim is over.                *)
Accounted(d) ==
    call[d].first /\ d \notin reported
    => call[d].pc \in First \/ business[d] = "landed" \/ call[d].stamp + TTL <= now

Ledger ==
    /\ PendingMeansUnderWay /\ FailureRemembered
    /\ ~raced /\ ~interrupted => \A d \in Delivery : Accounted(d)

(* Of what a merge leaves on record only its own part has changed.         *)
LEMMA MergeLeaves ==
    ASSUME TypeOK, Based, NEW d \in Delivery, Exact(d), record' # NULL,
           ~Expired(record', now),
           \/ WriteReport(d) /\ record' = Reported(d)
           \/ MarkShown(d) /\ record' = Shows(d)
           \/ WriteRepair(d) /\ record' = Repaired(d)
    PROVE  /\ record # NULL /\ record'.firstSeenAt = record.firstSeenAt
           /\ MarkShown(d) => record'.businessError = record.businessError /\ ~record'.pending
           /\ WriteReport(d) => record'.pending = record.pending /\ record'.businessError
           /\ WriteRepair(d) => /\ record'.pending = record.pending
                                /\ record'.businessError = (business[d] = "failed")
<1> USE DEF At
<1>1. Merging(d)
    BY DEF WriteReport, MarkShown, WriteRepair, Merging
<1>2. call[d].base \in Record
    BY <1>1 DEF Based, TypeOK, Call
<1>3. CASE WriteReport(d) /\ record' = Reported(d)
    <2>1. ~MarkShown(d) /\ ~WriteRepair(d)
        BY <1>3 DEF WriteReport, MarkShown, WriteRepair
    <2>2. record # NULL /\ call[d].base = record
        BY <1>1, <1>3 DEF Exact, WriteReport
    <2>3. QED BY <1>2, <1>3, <2>1, <2>2 DEF Reported, Record
<1>4. CASE MarkShown(d) /\ record' = Shows(d)
    <2>1. ~WriteReport(d) /\ ~WriteRepair(d)
        BY <1>4 DEF WriteReport, MarkShown, WriteRepair
    <2>2. /\ record'.firstSeenAt = call[d].base.firstSeenAt
          /\ record'.businessError = call[d].base.businessError /\ ~record'.pending
        BY <1>2, <1>4 DEF Shows, Record
    <2>3. record # NULL /\ call[d].base = record
        BY <1>1, <2>2 DEF Exact, Expired
    <2>4. QED BY <2>1, <2>2, <2>3
<1>5. CASE WriteRepair(d) /\ record' = Repaired(d)
    <2>1. ~WriteReport(d) /\ ~MarkShown(d)
        BY <1>5 DEF WriteReport, MarkShown, WriteRepair
    <2>2. record # NULL /\ call[d].base = record
        BY <1>1, <1>5 DEF Exact, WriteRepair
    <2>3. /\ record'.firstSeenAt = record.firstSeenAt /\ record'.pending = record.pending
        BY <1>2, <1>5, <2>2 DEF Repaired, Record
    <2>4. record'.businessError = (business[d] = "failed")
        BY <1>2, <1>5 DEF Repaired, Record
    <2>5. QED BY <2>1, <2>2, <2>3, <2>4
<1>6. QED BY <1>3, <1>4, <1>5

(* A run that has landed has landed.                                       *)
LEMMA LandedStays ==
    ASSUME TypeOK, NEW d \in Delivery, Roles(d), Move(d), business[d] = "landed"
    PROVE  business'[d] = "landed"
<1>1. call[d].pc \notin {"dispatching", "checking"}
    BY DEF Roles
<1>2. ~Dispatch(d) /\ ~CheckBusiness(d) /\ ~BusinessSettles(d)
    BY <1>1 DEF Dispatch, CheckBusiness, BusinessSettles, At
<1>3. QED
    BY <1>2 DEF Move, RequestFails, Arrive, Step, AddRecord, ReadExisting,
           DeleteExpired, SettleNotification, BusinessAwaited, ReadForReport,
           WriteReport, SkipNotification, RepairNotification, ReadAfterShow, MarkShown,
           RerunAwaited, ReadForRepair, WriteRepair

(* Undisturbed, a first delivery decides about its notification and puts   *)
(* the decision on record in one step.                                     *)
LEMMA Settles ==
    ASSUME TypeOK, NEW d \in Delivery, Unsettled(d), Move(d), ~interrupted'
    PROVE  \/ Unsettled(d)' /\ call'[d].stamp = call[d].stamp /\ record' = record
           \/ SettleNotification(d) /\ \E shown \in BOOLEAN : record' = Settled(d, shown)
<1> USE DEF Unsettled, At
<1>1. CASE Dispatch(d)
    BY <1>1, GotoKeeps DEF Dispatch
<1>2. CASE BusinessSettles(d)
    BY <1>2 DEF BusinessSettles
<1>3. CASE SettleNotification(d)
    BY <1>3 DEF SettleNotification, Written, Write, WriteFails, Fault, Shown, NotShown
<1>4. CASE RequestFails(d)
    BY <1>4 DEF RequestFails, Fault
<1>5. CASE Arrive(d) \/ AddRecord(d) \/ ReadExisting(d) \/ DeleteExpired(d)
    BY <1>5 DEF Arrive, AddRecord, ReadExisting, DeleteExpired
<1>6. CASE \/ BusinessAwaited(d) \/ ReadForReport(d) \/ WriteReport(d)
           \/ SkipNotification(d) \/ RepairNotification(d) \/ ReadAfterShow(d)
           \/ MarkShown(d) \/ CheckBusiness(d) \/ RerunAwaited(d) \/ ReadForRepair(d)
           \/ WriteRepair(d)
    BY ONLY <1>6, Unsettled(d) DEF Unsettled, At, BusinessAwaited, ReadForReport,
       WriteReport, SkipNotification, RepairNotification, ReadAfterShow, MarkShown,
       CheckBusiness, RerunAwaited, ReadForRepair, WriteRepair
<1>7. QED BY <1>1, <1>2, <1>3, <1>4, <1>5, <1>6 DEF Move, Step

(* Faults and races are not forgotten.                                     *)
LEMMA Undisturbed ==
    ASSUME NEW d \in Delivery, Move(d), ~interrupted'
    PROVE  ~interrupted
BY DEF Move, RequestFails, Arrive, Step, BusinessSettles, AddRecord,
       ReadExisting, DeleteExpired, Dispatch, SettleNotification, BusinessAwaited,
       ReadForReport, WriteReport, SkipNotification, RepairNotification, ReadAfterShow,
       MarkShown, CheckBusiness, RerunAwaited, ReadForRepair, WriteRepair, historyVars,
       Fault, Written, WriteFails

LEMMA PendingStep ==
    ASSUME TypeOK, BasedOnRecord, Stamped, Claims, Fresh, PendingMeansUnderWay,
           NEW d \in Delivery, Move(d)
    PROVE  PendingMeansUnderWay'
<1> SUFFICES ASSUME ~raced', ~interrupted', record' # NULL, record'.pending
             PROVE  \E e \in Delivery : Unsettled(e)' /\ call'[e].stamp = record'.firstSeenAt
    BY DEF PendingMeansUnderWay
<1>1. Based /\ ~raced /\ ~interrupted /\ Exact(d)
    BY RecordEffect, Undisturbed DEF Fresh, BasedOnRecord
<1>2. \A e \in Delivery \ {d} : Unsettled(e) => Unsettled(e)' /\ call'[e].stamp = call[e].stamp
    BY OthersStay DEF Unsettled
<1>3. CASE record' = record
    <2>1. PICK e \in Delivery : Unsettled(e) /\ call[e].stamp = record.firstSeenAt
        BY <1>1, <1>3 DEF PendingMeansUnderWay
    <2>2. CASE e = d
        <3>1. \A shown \in BOOLEAN : ~Settled(d, shown).pending
            BY DEF Settled, Claimed
        <3>2. Unsettled(d)' /\ call'[d].stamp = call[d].stamp
            BY <2>1, <2>2, <3>1, Settles
        <3>3. QED BY <1>3, <2>1, <2>2, <3>2
    <2>3. QED BY <1>2, <1>3, <2>1, <2>2
<1>4. CASE AddRecord(d) /\ record' = Claimed(call[d].stamp)
             /\ call' = [call EXCEPT ![d].pc = "dispatching", ![d].first = TRUE]
    <2>1. call'[d].pc = "dispatching" /\ call'[d].stamp = call[d].stamp
        BY <1>4 DEF TypeOK, Call
    <2>2. record'.firstSeenAt = call[d].stamp
        BY <1>4 DEF Claimed
    <2>3. QED BY <2>1, <2>2 DEF Unsettled
<1>5. CASE \E shown \in BOOLEAN : record' = Settled(d, shown)
    BY <1>5 DEF Settled, Claimed
<1>6. CASE \/ WriteReport(d) /\ record' = Reported(d)
           \/ MarkShown(d) /\ record' = Shows(d)
           \/ WriteRepair(d) /\ record' = Repaired(d)
    <2>1. Merging(d) /\ call[d].base \in Record
        BY <1>1, <1>6 DEF WriteReport, MarkShown, WriteRepair, Merging, At, Based, TypeOK, Call
    <2>2. ~MarkShown(d)
        <3>1. ASSUME MarkShown(d) PROVE FALSE
            <4>1. record' = Shows(d)
                BY <1>6, <3>1 DEF WriteReport, MarkShown, WriteRepair, At
            <4>2. QED BY <2>1, <4>1 DEF Shows, Record
        <3>2. QED BY <3>1
    <2>3. record # NULL /\ call[d].base = record
        BY <1>1, <1>6, <2>1, <2>2 DEF Exact, WriteReport, WriteRepair, At
    <2>4. record'.pending = record.pending /\ record'.firstSeenAt = record.firstSeenAt
        BY <1>6, <2>1, <2>2, <2>3 DEF Reported, Repaired, Record
    <2>5. PICK e \in Delivery : Unsettled(e) /\ call[e].stamp = record.firstSeenAt
        BY <1>1, <2>3, <2>4 DEF PendingMeansUnderWay
    <2>6. e # d
        BY <2>1, <2>5 DEF Merging, Unsettled
    <2>7. QED BY <1>2, <2>4, <2>5, <2>6
<1>7. QED BY <1>3, <1>4, <1>5, <1>6, WhatIsWritten

(* Only who finds no record becomes the first.                             *)
LEMMA NotFirst ==
    ASSUME TypeOK, Stamped, NEW d \in Delivery, Move(d), ~AddRecord(d), ~call[d].first
    PROVE  ~call'[d].first
<1> USE DEF TypeOK, Call
<1>1. CASE Arrive(d) \/ BusinessSettles(d)
    BY <1>1 DEF Arrive, BusinessSettles
<1>2. CASE ReadExisting(d)
    BY <1>2 DEF ReadExisting
<1>3. CASE Dispatch(d) \/ SettleNotification(d) \/ BusinessAwaited(d) \/ DeleteExpired(d)
    BY <1>3, GotoKeeps DEF Dispatch, SettleNotification, BusinessAwaited, DeleteExpired
<1>4. CASE ReadForReport(d) \/ WriteReport(d) \/ ReadAfterShow(d) \/ ReadForRepair(d)
    BY <1>4, GotoKeeps, GotoWithKeeps
       DEF ReadForReport, WriteReport, ReadAfterShow, ReadForRepair
<1>5. CASE \/ SkipNotification(d) \/ RepairNotification(d) \/ MarkShown(d)
           \/ CheckBusiness(d) \/ RerunAwaited(d) \/ WriteRepair(d)
    <2>1. \E pc : Goto(d, pc)
        BY ONLY <1>5 DEF SkipNotification, RepairNotification, MarkShown, CheckBusiness,
                         RerunAwaited, WriteRepair
    <2>2. QED BY <2>1, GotoKeeps
<1>6. CASE RequestFails(d)
    BY <1>6, FailureMoves, GotoKeeps
<1>7. QED BY <1>1, <1>2, <1>3, <1>4, <1>5, <1>6 DEF Move, Step

(* Whoever has claimed and reported has done so before, or does so now.    *)
LEMMA ReportedBefore ==
    ASSUME TypeOK, Stamped, NEW d \in Delivery, Move(d), ~WriteReport(d),
           NEW instant,
           {e \in Delivery : call'[e].first /\ call'[e].stamp = instant} \subseteq reported'
    PROVE  {e \in Delivery : call[e].first /\ call[e].stamp = instant} \subseteq reported
<1>1. reported' = reported
    BY DEF Move, RequestFails, Arrive, Step, BusinessSettles, AddRecord,
           ReadExisting, DeleteExpired, Dispatch, SettleNotification, BusinessAwaited,
           ReadForReport, SkipNotification, RepairNotification, ReadAfterShow,
           MarkShown, CheckBusiness, RerunAwaited, ReadForRepair, WriteRepair, historyVars
<1>2. ASSUME NEW e \in Delivery, call[e].first
      PROVE  call'[e].first /\ call'[e].stamp = call[e].stamp
    BY <1>2, OthersStay, Lasting DEF Stamped
<1>3. QED BY <1>1, <1>2

LEMMA FailureStep ==
    ASSUME TypeOK, BasedOnRecord, \A e \in Delivery : Roles(e), Stamped, Claims, Fresh,
           FailureRemembered, NEW d \in Delivery, Move(d)
    PROVE  FailureRemembered'
<1> SUFFICES ASSUME ~raced', ~interrupted', record' # NULL, ~Expired(record', now),
                    {e \in Delivery : call'[e].first /\ call'[e].stamp = record'.firstSeenAt}
                        \subseteq reported',
                    \A e \in Delivery : business'[e] # "landed"
             PROVE  record'.businessError
    BY ClockStays DEF FailureRemembered, Expired
<1>1. Based /\ ~raced /\ ~interrupted /\ Exact(d)
    BY RecordEffect, Undisturbed DEF Fresh, BasedOnRecord
<1>2. \A e \in Delivery : business[e] # "landed"
    BY LandedStays, OthersKeep
<1>3. ASSUME record # NULL, record'.firstSeenAt = record.firstSeenAt, ~WriteReport(d)
      PROVE  record.businessError
    <2>1. {e \in Delivery : call[e].first /\ call[e].stamp = record.firstSeenAt}
              \subseteq reported
        BY <1>3, ReportedBefore
    <2>2. ~Expired(record, now)
        BY <1>3 DEF Expired
    <2>3. QED BY <1>1, <1>2, <1>3, <2>1, <2>2 DEF FailureRemembered
<1>4. CASE \/ WriteReport(d) /\ record' = Reported(d)
           \/ MarkShown(d) /\ record' = Shows(d)
           \/ WriteRepair(d) /\ record' = Repaired(d)
    <2>1. /\ record # NULL /\ record'.firstSeenAt = record.firstSeenAt
          /\ MarkShown(d) => record'.businessError = record.businessError
          /\ WriteReport(d) => record'.businessError
          /\ WriteRepair(d) => record'.businessError = (business[d] = "failed")
        BY <1>1, <1>4, MergeLeaves
    <2>2. CASE WriteReport(d)
        BY <2>1, <2>2
    <2>3. CASE MarkShown(d)
        <3>1. ~WriteReport(d)
            BY <2>3 DEF MarkShown, WriteReport, At
        <3>2. QED BY <1>3, <2>1, <2>3, <3>1
    <2>4. CASE WriteRepair(d)
        <3>1. business[d] = "failed"
            BY <1>2, <2>4 DEF WriteRepair, At, Roles
        <3>2. QED BY <2>1, <2>4, <3>1
    <2>5. QED BY <1>4, <2>2, <2>3, <2>4
<1>5. CASE record' = record
    <2>1. CASE ~WriteReport(d)
        BY <1>3, <1>5, <2>1
    <2>2. CASE WriteReport(d)
        <3>1. record' = Reported(d)
            BY <2>2 DEF WriteReport, Written, Write, WriteFails, Fault
        <3>2. QED BY <1>4, <2>2, <3>1
    <2>3. QED BY <2>1, <2>2
<1>6. CASE AddRecord(d) /\ record' = Claimed(call[d].stamp)
             /\ call' = [call EXCEPT ![d].pc = "dispatching", ![d].first = TRUE]
    <2>1. /\ call'[d].first /\ call'[d].stamp = call[d].stamp
          /\ record'.firstSeenAt = call[d].stamp
        BY <1>6 DEF TypeOK, Call, Claimed
    <2>2. d \notin reported'
        BY <1>6 DEF AddRecord, Roles, At, Over
    <2>3. QED BY <2>1, <2>2
<1>7. CASE SettleNotification(d) /\ \E shown \in BOOLEAN : record' = Settled(d, shown)
    <2>1. At(d, "notifying") /\ Goto(d, "awaiting") /\ reported' = reported
        BY <1>7 DEF SettleNotification
    <2>2. call[d].first /\ d \notin reported
        BY <2>1 DEF Roles, At, First, Over
    <2>3. call'[d].first /\ call'[d].stamp = call[d].stamp
        BY <2>1, <2>2, GotoKeeps
    <2>4. record'.firstSeenAt = call[d].stamp
        BY <1>7 DEF Settled, Claimed
    <2>5. QED BY <2>1, <2>2, <2>3, <2>4
<1>8. QED BY <1>4, <1>5, <1>6, <1>7, WhatIsWritten

(* A first delivery ends with its outcome, its report, or because another  *)
(* claim has taken the place of its own.                                   *)
LEMMA AccountedStep ==
    ASSUME TypeOK, BasedOnRecord, \A e \in Delivery : Roles(e), Stamped, Claims,
           ~raced /\ ~interrupted => \A e \in Delivery : Accounted(e),
           NEW d \in Delivery, Move(d), ~raced', ~interrupted'
    PROVE  \A e \in Delivery : Accounted(e)'
<1>1. /\ ~raced /\ ~interrupted
      /\ \A e \in Delivery : Accounted(e)
    BY RecordEffect, Undisturbed DEF BasedOnRecord
<1>2. now' = now
    BY ClockStays
<1>3. ASSUME NEW e \in Delivery \ {d} PROVE Accounted(e)'
    BY <1>1, <1>2, OthersStay, OthersKeep DEF Accounted
<1>4. Accounted(d)'
    <2> SUFFICES ASSUME call'[d].first, d \notin reported', call'[d].pc \notin First,
                        business'[d] # "landed"
                 PROVE  call'[d].stamp + TTL <= now
        BY <1>2 DEF Accounted
    <2>1. ASSUME call[d].first, call[d].pc \notin First, d \notin reported
          PROVE  call'[d].stamp + TTL <= now
        <3>1. ~At(d, "idle")
            BY <2>1 DEF Stamped
        <3>2. call'[d].stamp = call[d].stamp
            BY <3>1, Lasting
        <3>3. QED BY <1>1, <2>1, <3>2, LandedStays DEF Accounted
    <2>2. CASE Arrive(d)
        <3>1. At(d, "idle") /\ call'[d].first = call[d].first
            BY <2>2 DEF Arrive, TypeOK, Call
        <3>2. QED BY <3>1 DEF Stamped
    <2>3. CASE BusinessSettles(d)
        <3>1. call' = call /\ reported' = reported
            BY <2>3 DEF BusinessSettles, historyVars
        <3>2. QED BY <2>1, <3>1
    <2>4. CASE AddRecord(d)
        <3>1. CASE record = NULL
            <4>1. call' = [call EXCEPT ![d].pc = "dispatching", ![d].first = TRUE]
                BY <2>4, <3>1 DEF AddRecord, Add
            <4>2. QED BY <4>1 DEF TypeOK, Call, First
        <3>2. CASE record # NULL
            <4>1. Goto(d, "reading") \/ Goto(d, "duplicate")
                BY <2>4, <3>2 DEF AddRecord, Add
            <4>2. call[d].first /\ call[d].pc \in Claiming
                BY <2>4, <4>1, GotoKeeps DEF AddRecord, At, Claiming
            <4>3. QED BY <4>2 DEF Roles, Claiming, First, Over
        <3>3. QED BY <3>1, <3>2
    <2>5. CASE Dispatch(d) \/ SettleNotification(d)
        BY <2>5, GotoKeeps DEF Dispatch, SettleNotification, First
    <2>6. CASE BusinessAwaited(d)
        <3>1. Goto(d, IF business[d] = "landed" THEN "clean" ELSE "reporting")
                 /\ business' = business
            BY <2>6 DEF BusinessAwaited
        <3>2. Goto(d, "reporting")
            BY <3>1
        <3>3. QED BY <3>2, GotoKeeps DEF First
    <2>7. CASE ReadForReport(d)
        <3>1. CASE SameClaim(call[d].stamp)
            BY <2>7, <3>1, GotoWithKeeps DEF ReadForReport, First
        <3>2. CASE ~SameClaim(call[d].stamp)
            <4>1. call[d].first /\ call'[d].stamp = call[d].stamp
                BY <2>7, <3>2, GotoKeeps DEF ReadForReport
            <4>2. ClaimOnRecord(d)
                BY <1>1, <4>1 DEF Claims
            <4>3. QED BY <3>2, <4>1, <4>2 DEF ClaimOnRecord, SameClaim
        <3>3. QED BY <3>1, <3>2
    <2>8. CASE WriteReport(d)
        BY <2>8 DEF WriteReport
    <2>9. CASE RequestFails(d)
        BY <2>9 DEF RequestFails, Fault
    <2>10. CASE ReadExisting(d) \/ DeleteExpired(d)
        <3>1. call[d].pc \in Claiming
            BY <2>10 DEF ReadExisting, DeleteExpired, At, Claiming
        <3>2. ~call[d].first
            BY <3>1 DEF Roles, Claiming, First, Over
        <3>3. ~AddRecord(d)
            BY <2>10 DEF ReadExisting, DeleteExpired, AddRecord, At
        <3>4. QED BY <3>2, <3>3, NotFirst
    <2>11. CASE \/ SkipNotification(d) \/ RepairNotification(d) \/ ReadAfterShow(d)
                \/ MarkShown(d) \/ CheckBusiness(d) \/ RerunAwaited(d)
                \/ ReadForRepair(d) \/ WriteRepair(d)
        <3>1. call[d].pc \in Duplicate
            BY ONLY <2>11 DEF SkipNotification, RepairNotification, ReadAfterShow,
               MarkShown, CheckBusiness, RerunAwaited, ReadForRepair, WriteRepair, At,
               Duplicate
        <3>2. ~call[d].first
            BY <3>1 DEF Roles, Duplicate, First, Over
        <3>3. ~AddRecord(d)
            BY <3>1 DEF AddRecord, At, Duplicate
        <3>4. QED BY <3>2, <3>3, NotFirst
    <2>12. QED
        BY <2>2, <2>3, <2>4, <2>5, <2>6, <2>7, <2>8, <2>9, <2>10, <2>11 DEF Move, Step
<1>5. QED BY <1>3, <1>4

LEMMA LedgerNext ==
    ASSUME TypeOK, BasedOnRecord, \A e \in Delivery : Roles(e), Stamped, Claims, Fresh,
           Ledger, [Next]_vars
    PROVE  Ledger'
<1>1. CASE StopWorker
    BY <1>1 DEF StopWorker, Fault, Ledger, PendingMeansUnderWay, FailureRemembered
<1>2. CASE Advance
    <2>1. /\ now' = now + 1 /\ UNCHANGED <<record, call, business, reported>>
          /\ UNCHANGED <<raced, interrupted>>
        BY <1>2 DEF Advance, historyVars
    <2>2. /\ now \in Nat /\ TTL \in Nat
          /\ \A d \in Delivery : call[d].stamp \in Nat
          /\ record # NULL => record.firstSeenAt \in Nat
        BY DedupeConstants DEF TypeOK, Call, Record, Time
    <2>3. PendingMeansUnderWay'
        BY <2>1 DEF Ledger, PendingMeansUnderWay, Unsettled
    <2>4. record # NULL /\ ~Expired(record, now)' => ~Expired(record, now)
        BY <2>1, <2>2 DEF Expired
    <2>5. FailureRemembered'
        BY <2>1, <2>4 DEF Ledger, FailureRemembered
    <2>6. \A d \in Delivery : Accounted(d) => Accounted(d)'
        BY <2>1, <2>2 DEF Accounted
    <2>7. QED BY <2>1, <2>3, <2>5, <2>6 DEF Ledger
<1>3. CASE UNCHANGED vars
    BY <1>3 DEF vars, historyVars, Ledger, PendingMeansUnderWay, FailureRemembered,
                Accounted, Unsettled, Expired
<1>4. ASSUME NEW d \in Delivery, Move(d) PROVE Ledger'
    BY <1>4, PendingStep, FailureStep, AccountedStep DEF Ledger
<1>5. QED BY <1>1, <1>2, <1>3, <1>4 DEF Next, Move

DedupeInv ==
    /\ TypeOK /\ BasedOnRecord
    /\ \A d \in Delivery : Roles(d)
    /\ Stamped /\ Claims /\ Fresh /\ Ledger

(* The inductive invariant of the answers: the bases of merges, the roles  *)
(* of calls, the claims on record and the ledger of their outcomes.        *)
LEMMA DedupeInductive == (Init => DedupeInv) /\ (DedupeInv /\ [Next]_vars => DedupeInv')
<1>1. ASSUME Init PROVE DedupeInv
    <2>1. BasedOnRecord /\ Stamped /\ Claims /\ Fresh
        BY <1>1 DEF Init, BasedOnRecord, Based, Merging, At, Stamped, Claims, ClaimOnRecord,
               UpToDate, Fresh, Exact, Held
    <2>2. \A d \in Delivery : Roles(d)
        BY <1>1 DEF Init, Roles, At, First, Over
    <2>3. Ledger
        BY <1>1 DEF Init, Ledger, PendingMeansUnderWay, FailureRemembered, Accounted
    <2>4. QED BY <1>1, <2>1, <2>2, <2>3, InitType DEF DedupeInv
<1>2. ASSUME DedupeInv, [Next]_vars PROVE DedupeInv'
    BY <1>2, TypeStep, BaseNext, RolesNext, ClaimsNext, FreshNext, LedgerNext
       DEF DedupeInv, BasedOnRecord
<1>3. QED BY <1>1, <1>2

(* Within the TTL a failure that updateDedupeBusinessState has put on      *)
(* record stays there until a run has landed, through the merges of        *)
(* duplicates -- unless a write ever fell between the read and the write   *)
(* of another merge (raced), which really loses it, or a worker was        *)
(* stopped or a request failed (interrupted).                              *)
THEOREM FailuresStay == Spec => []FailureRemembered
<1>1. DedupeInv => FailureRemembered
    BY DEF DedupeInv, Ledger
<1>2. QED BY <1>1, DedupeInductive, PTL DEF Spec

(* The record says "pending" only while its first delivery is still        *)
(* deciding about the notification (updateDedupeNotificationState), unless *)
(* merges race or a request fails.                                         *)
THEOREM PendingEnds == Spec => []PendingMeansUnderWay
<1>1. DedupeInv => PendingMeansUnderWay
    BY DEF DedupeInv, Ledger
<1>2. QED BY <1>1, DedupeInductive, PTL DEF Spec

(* How a call comes to answer cleanly.                                     *)
LEMMA CleanEnds ==
    ASSUME TypeOK, NEW d \in Delivery, Roles(d), Move(d), ~At(d, "clean"), At(d, "clean")',
           ~interrupted'
    PROVE  \/ business[d] = "landed"
           \/ At(d, "checking") /\ ~ErrorOnRecord(d)
<1> USE DEF At
<1>1. CASE Arrive(d) \/ AddRecord(d)
    BY <1>1 DEF Arrive, AddRecord, Add, Goto, TypeOK, Call
<1>2. CASE ReadExisting(d)
    <2>1. PICK pc \in {"deleting", "duplicate"} :
              call' = [call EXCEPT ![d].pc = pc, ![d].existing = record]
        BY <1>2 DEF ReadExisting
    <2>2. QED BY <2>1 DEF TypeOK, Call
<1>3. CASE BusinessSettles(d)
    BY <1>3 DEF BusinessSettles
<1>4. CASE Dispatch(d) \/ SettleNotification(d) \/ DeleteExpired(d)
    BY <1>4, GotoKeeps DEF Dispatch, SettleNotification, DeleteExpired
<1>5. CASE BusinessAwaited(d)
    <2>1. CASE business[d] # "landed"
        BY <1>5, <2>1, GotoKeeps DEF BusinessAwaited
    <2>2. QED BY <2>1
<1>6. CASE ReadForReport(d) \/ WriteReport(d) \/ ReadAfterShow(d)
    BY <1>6, GotoKeeps, GotoWithKeeps DEF ReadForReport, WriteReport, ReadAfterShow
<1>7. CASE SkipNotification(d) \/ RepairNotification(d) \/ MarkShown(d) \/ RerunAwaited(d)
    <2>1. PICK pc \in {"checking", "showing", "rejected", "repairing"} : Goto(d, pc)
        BY <1>7 DEF SkipNotification, RepairNotification, MarkShown, RerunAwaited
    <2>2. QED BY <2>1, GotoKeeps
<1>8. CASE CheckBusiness(d)
    <2>1. CASE ErrorOnRecord(d)
        <3>1. ~Fault
            BY DEF Fault
        <3>2. Goto(d, "rerunning")
            BY <1>8, <2>1, <3>1 DEF CheckBusiness
        <3>3. QED BY <3>2, GotoKeeps
    <2>2. QED BY <1>8, <2>1 DEF CheckBusiness
<1>9. CASE ReadForRepair(d)
    <2>1. CASE business[d] # "landed"
        <3>1. Answer(d) = "error"
            BY <2>1 DEF Answer
        <3>2. QED BY <1>9, <3>1, GotoKeeps, GotoWithKeeps DEF ReadForRepair
    <2>2. QED BY <2>1
<1>10. CASE WriteRepair(d)
    <2>1. CASE business[d] # "landed"
        BY <1>10, <2>1, GotoKeeps DEF WriteRepair, Answer
    <2>2. QED BY <2>1
<1>11. CASE RequestFails(d)
    BY <1>11 DEF RequestFails, Fault
<1>12. QED
    BY <1>1, <1>2, <1>3, <1>4, <1>5, <1>6, <1>7, <1>8, <1>9, <1>10, <1>11 DEF Move, Step

(* Where the record of a live claim names no failure, somebody has landed  *)
(* or the first delivery is under way.                                     *)
LEMMA NoErrorMeansHandled ==
    ASSUME DedupeInv, ~raced, ~interrupted, NEW d \in Delivery, ~ErrorOnRecord(d),
           call[d].existing # NULL, ~Expired(call[d].existing, now)
    PROVE  \E e \in Delivery : business[e] = "landed" \/ call[e].pc \in First
<1>1. record # NULL /\ record.firstSeenAt = call[d].existing.firstSeenAt
    BY DEF DedupeInv, Fresh, Held, OnRecord, Expired
<1>2. ~record.businessError /\ ~Expired(record, now)
    BY <1>1 DEF ErrorOnRecord, SameClaim, Expired
<1>3. CASE \A e \in Delivery : business[e] # "landed"
    <2>1. PICK e \in Delivery : call[e].first /\ call[e].stamp = record.firstSeenAt
                                /\ e \notin reported
        BY <1>1, <1>2, <1>3 DEF DedupeInv, Ledger, FailureRemembered
    <2>2. Accounted(e)
        BY DEF DedupeInv, Ledger
    <2>3. ~(call[e].stamp + TTL <= now)
        BY <1>2, <2>1 DEF Expired
    <2>4. QED BY <1>3, <2>1, <2>2, <2>3 DEF Accounted
<1>4. QED BY <1>3

(* A delivery is answered cleanly (handlePushPayload resolves without an   *)
(* error) only if the business callback has landed or its first run is     *)
(* under way, within the TTL of the claim, unless merges race or a request *)
(* fails.                                                                  *)
THEOREM AnswersBacked == Spec => AnswersHonest
<1>1. DedupeInv /\ [Next]_vars
        => [\A d \in Delivery :
               /\ ~At(d, "clean") /\ At(d, "clean")'
               /\ \/ call[d].first
                  \/ call[d].existing # NULL /\ ~Expired(call[d].existing, now)
               => \/ \E e \in Delivery : business[e] = "landed"
                  \/ \E e \in Delivery : call[e].pc \in First
                  \/ raced \/ interrupted']_vars
    <2> SUFFICES ASSUME DedupeInv, [Next]_vars, NEW d \in Delivery, ~raced, ~interrupted',
                        ~At(d, "clean"), At(d, "clean")',
                        \/ call[d].first
                        \/ call[d].existing # NULL /\ ~Expired(call[d].existing, now)
                 PROVE  \E e \in Delivery : business[e] = "landed" \/ call[e].pc \in First
        OBVIOUS
    <2> USE DEF DedupeInv
    <2>1. CASE StopWorker
        BY <2>1 DEF StopWorker, Fault
    <2>2. CASE Advance \/ UNCHANGED vars
        BY <2>2 DEF Advance, vars, At
    <2>3. ASSUME NEW c \in Delivery, Move(c)
          PROVE  \E e \in Delivery : business[e] = "landed" \/ call[e].pc \in First
        <3>1. c = d
            BY <2>3, OthersStay DEF At
        <3>2. ~interrupted
            BY <2>3, Undisturbed
        <3>3. \/ business[d] = "landed"
              \/ At(d, "checking") /\ ~ErrorOnRecord(d)
            BY <2>3, <3>1, CleanEnds
        <3>4. At(d, "checking") => ~call[d].first
            BY DEF Roles, At, First, Over
        <3>5. QED BY <3>2, <3>3, <3>4, NoErrorMeansHandled
    <2>4. QED BY <2>1, <2>2, <2>3 DEF Next, Move
<1>2. QED BY <1>1, DedupeInductive, PTL DEF Spec, AnswersHonest
=============================================================================

---------------------------- MODULE InstantProofs ----------------------------
(***************************************************************************)
(* What an instant request promises at both ends: type correctness; that   *)
(* each outcome of deliver() means what it says; that the done frame, 200  *)
(* and 502 are true; that a clean end leaves no payload in the air; that a *)
(* failed run is reported once: for every number of rounds, of pushes and  *)
(* of parts, every timeout, and wherever the connection is lost.           *)
(*                                                                         *)
(* The client reads and never writes what the server keeps, but for the    *)
(* connection; so the server's invariant is kept by the server's steps     *)
(* alone, and the client's uses it.                                        *)
(***************************************************************************)
EXTENDS InstantDelivery, FiniteSetTheorems, TLAPS

-----------------------------------------------------------------------------
(* The server's inductive invariant.                                       *)

(* A push under way has messages left to send.                             *)
LeftCovers == \A i \in DOMAIN items : Under(items[i].push) => items[i].left > 0

Stages ==
    /\ srv \in {"idle", "arrived", "before"} => items = <<>>
    /\ srv \in {"before", "llm", "decide"} => round < MaxRounds
    /\ srv \notin {"throw", "settle", "closed", "answered"} => thrown = "none"
    /\ srv = "throw" => thrown # "none"
    /\ srv \in {"settle", "closed"} => mode = "sse"
    /\ srv = "answered" => mode = "push" \/ items = <<>>
    /\ doneSent => srv \in {"settle", "closed"}
    /\ srv # "answered" => status = 0

(* As long as the stream is usable, and if the done frame was written,     *)
(* everything went into it.                                                *)
Streams ==
    /\ mode = "push" => ~usable /\ \A i \in DOMAIN items : ~items[i].streamed
    /\ usable \/ doneSent => \A i \in DOMAIN items : items[i].streamed

(* Where the handler may be while an item that was not streamed is pushed. *)
AwaitStage == {"decide", "batch", "after", "extra", "throw", "settle"}

Awaits ==
    /\ \A i \in DOMAIN items :
          ~items[i].streamed /\ Under(items[i].push) =>
              i = Len(items) /\ srv \in AwaitStage
    /\ srv \in {"closed", "answered"} => AllSettled

(* What a run that answers with JSON knows of its content pushes: the last *)
(* one apart while a batch is sent, all of them after that.                *)
Accepted(i) == items[i].kind = "content" => items[i].push = "sent"

Contents == mode = "push" =>
    /\ srv \in {"llm", "decide"} =>
          \A i \in DOMAIN items : items[i].kind # "content"
    /\ srv = "batch" => \A i \in DOMAIN items : i < Len(items) => Accepted(i)
    /\ srv \in {"after", "extra", "finish"} => \A i \in DOMAIN items : Accepted(i)
    /\ srv = "answered" /\ status = 200 => \A i \in DOMAIN items : Accepted(i)

Errors ==
    /\ thrown = "push" => \E i \in DOMAIN items : items[i].push = "failed"
    /\ status = 502 => thrown \in {"llm", "push"}
    /\ status = 200 => srv = "answered"

(* The reports of a run are its last item, or there is none.               *)
Report == {"hook_threw", "stream_error"}
Reporting ==
    srv # "answered" =>
        \A i \in DOMAIN items :
            items[i].kind \in Report <=>
                /\ i = Len(items)
                /\ thrown # "none"
                /\ srv = "throw" => thrown = "hook"
(* ... and where there must be one, there is an item.                      *)
Reports ==
    /\ srv = "throw" /\ thrown = "hook" => items # <<>>
    /\ srv \in {"settle", "closed"} /\ thrown # "none" => items # <<>>

ServerInv == /\ ServerTypeOK
             /\ LeftCovers /\ Stages /\ Streams /\ Awaits /\ Contents
             /\ Errors /\ Reporting /\ Reports

-----------------------------------------------------------------------------
(* What a step does to the items.                                          *)

(* One more item, of a kind; it is streamed only if the stream was usable, *)
(* and the stream stays usable only if it was.                             *)
Appended(kind) ==
    /\ items' \in Seq(Item)
    /\ Len(items') = Len(items) + 1
    /\ \A i \in 1..Len(items) : items'[i] = items[i]
    /\ items'[Len(items) + 1].kind = kind
    /\ usable' \in BOOLEAN
    /\ usable' = items'[Len(items) + 1].streamed
    /\ usable' => usable
    /\ Under(items'[Len(items) + 1].push) => items'[Len(items) + 1].left > 0

(* An item's push goes on: what is settled stays as it is.                 *)
Pushed ==
    /\ items' \in Seq(Item)
    /\ Len(items') = Len(items)
    /\ \A i \in 1..Len(items) :
          /\ items'[i].kind = items[i].kind
          /\ items'[i].streamed = items[i].streamed
          /\ Under(items[i].push) \/ items'[i] = items[i]
          /\ Under(items'[i].push) => items'[i].left > 0
    /\ UNCHANGED <<srv, mode, hooked, wrap, round, left, usable, connected,
                   doneSent, thrown, status>>

LEMMA ItemAt == ASSUME ServerTypeOK
                PROVE  /\ DOMAIN items = 1..Len(items) /\ Len(items) \in Nat
                       /\ \A i \in 1..Len(items) : items[i] \in Item
                       /\ items = <<>> <=> Len(items) = 0
BY DEF ServerTypeOK

LEMMA NewItemTyped ==
    ASSUME ServerTypeOK, NEW kind \in Kind, NEW size \in Size
    PROVE  /\ NewItem(kind, size) \in Item
           /\ NewItem(kind, size).kind = kind
           /\ NewItem(kind, size).streamed = (usable /\ size # "bad")
           /\ Under(NewItem(kind, size).push) => NewItem(kind, size).left > 0
<1> DEFINE push == FirstPush(size)
           parts == CASE FirstPush(size) = "refused" -> 0
                      [] wrap = "multipart" /\ size = "large" -> Parts
                      [] OTHER -> 1
<1>1. push \in {"put", "send", "refused"}
    BY DEF FirstPush
<1>2. parts \in 0..Parts /\ (push # "refused" => parts > 0)
  <2>1. CASE FirstPush(size) = "refused"
    <3>1. ~(wrap = "multipart" /\ size = "large")
        BY <2>1 DEF FirstPush
    <3> QED BY <2>1, <3>1, BoundsArePositive
  <2>2. CASE FirstPush(size) # "refused"
      BY <2>2, BoundsArePositive
  <2> QED BY <2>1, <2>2
<1>3. NewItem(kind, size) = [kind |-> kind, streamed |-> usable /\ size # "bad",
                             push |-> push, left |-> parts]
    BY DEF NewItem
<1>4. (usable /\ size # "bad") \in BOOLEAN
    BY DEF ServerTypeOK
<1>5. push \in {"put", "send"} \cup Settled
    BY <1>1 DEF Settled
<1> HIDE DEF push, parts
<1>6. NewItem(kind, size) \in Item
    BY <1>2, <1>3, <1>4, <1>5 DEF Item
<1>7. NewItem(kind, size).push = push /\ NewItem(kind, size).left = parts
    BY <1>3
<1> QED BY <1>1, <1>2, <1>3, <1>6, <1>7 DEF Under

LEMMA HandToDeliverAppends ==
    ASSUME ServerTypeOK, NEW kind \in Kind, NEW size \in Size, HandToDeliver(kind, size)
    PROVE  Appended(kind)
<1> DEFINE it == NewItem(kind, size)
<1>1. items' = Append(items, it) /\ usable' = (usable /\ size # "bad")
    BY DEF HandToDeliver
<1>2. /\ it \in Item /\ it.kind = kind /\ it.streamed = (usable /\ size # "bad")
      /\ Under(it.push) => it.left > 0
    BY NewItemTyped
<1> HIDE DEF it
<1>3. items \in Seq(Item) /\ usable \in BOOLEAN
    BY DEF ServerTypeOK
<1>4. /\ items' \in Seq(Item) /\ Len(items') = Len(items) + 1
      /\ \A i \in 1..Len(items) : items'[i] = items[i]
      /\ items'[Len(items) + 1] = it
    BY <1>1, <1>2, <1>3
<1> QED BY <1>1, <1>2, <1>3, <1>4 DEF Appended

LEMMA PushingPushes == ASSUME ServerTypeOK, LeftCovers, Pushing PROVE Pushed
<1>1. PICK i \in DOMAIN items : PutBlob(i) \/ SendWebPush(i)
    BY DEF Pushing
<1>2. /\ i \in 1..Len(items) /\ items \in Seq(Item) /\ items[i] \in Item
      /\ items[i].push \in {"put", "send"}
      /\ items[i].left \in 0..Parts /\ items[i].left > 0
  <2>1. items[i].push \in {"put", "send"}
      BY <1>1 DEF PutBlob, SendWebPush
  <2>2. items[i].left > 0
      BY <2>1 DEF LeftCovers, Under
  <2>3. i \in 1..Len(items) /\ items \in Seq(Item) /\ items[i] \in Item
      BY ItemAt DEF ServerTypeOK
  <2> QED BY <2>1, <2>2, <2>3 DEF Item
<1> DEFINE Goes(it) == /\ it \in Item
                       /\ items' = [items EXCEPT ![i] = it]
                       /\ it.kind = items[i].kind /\ it.streamed = items[i].streamed
                       /\ Under(it.push) => it.left > 0
<1>3. \E it : Goes(it)
  <2>1. CASE items' = [items EXCEPT ![i].push = "send"]
    <3> DEFINE it == [items[i] EXCEPT !.push = "send"]
    <3>1. it \in Item /\ it.left = items[i].left /\ it.kind = items[i].kind
          /\ it.streamed = items[i].streamed
        BY <1>2 DEF Item
    <3>2. items' = [items EXCEPT ![i] = it]
        BY <2>1
    <3> HIDE DEF it
    <3> QED BY <1>2, <3>1, <3>2
  <2>2. ASSUME NEW push \in {"refused", "failed"},
               items' = [items EXCEPT ![i].left = 0, ![i].push = push]
        PROVE  \E it : Goes(it)
    <3> DEFINE it == [items[i] EXCEPT !.left = 0, !.push = push]
    <3>1. it \in Item /\ it.push = push /\ it.kind = items[i].kind
          /\ it.streamed = items[i].streamed
      <4>1. 0 \in 0..Parts /\ push \in {"put", "send"} \cup Settled
          BY BoundsArePositive DEF Settled
      <4> QED BY <1>2, <4>1 DEF Item
    <3>2. items' = [items EXCEPT ![i] = it]
        BY <2>2, <1>2
    <3>3. ~Under(it.push)
        BY <3>1 DEF Under
    <3> HIDE DEF it
    <3> QED BY <3>1, <3>2, <3>3
  <2>3. ASSUME items' = [items EXCEPT ![i].left = @ - 1,
                                      ![i].push = IF items[i].left = 1 THEN "sent" ELSE @]
        PROVE  \E it : Goes(it)
    <3> DEFINE push == IF items[i].left = 1 THEN "sent" ELSE items[i].push
               it == [items[i] EXCEPT !.left = @ - 1, !.push = push]
    <3>1. items[i].left - 1 \in 0..Parts
        BY <1>2, BoundsArePositive
    <3>2. push \in {"put", "send"} \cup Settled
        BY <1>2 DEF Settled
    <3>3. push = "sent" \/ items[i].left - 1 > 0
        BY <1>2
    <3> HIDE DEF push
    <3>4. it \in Item /\ it.push = push /\ it.left = items[i].left - 1
          /\ it.kind = items[i].kind /\ it.streamed = items[i].streamed
        BY <1>2, <3>1, <3>2 DEF Item
    <3>5. items' = [items EXCEPT ![i] = it]
        BY <2>3, <1>2 DEF push
    <3> HIDE DEF it
    <3> QED BY <3>3, <3>4, <3>5 DEF Under
  <2> QED BY <1>1, <2>1, <2>2, <2>3 DEF PutBlob, SendWebPush
<1>4. PICK it : Goes(it)
    BY <1>3
<1>5. Under(items[i].push)
    BY <1>2 DEF Under
<1>6. /\ items' \in Seq(Item) /\ Len(items') = Len(items)
      /\ items'[i] = it /\ \A j \in 1..Len(items) : j # i => items'[j] = items[j]
    BY <1>2, <1>4
<1>7. ASSUME NEW j \in 1..Len(items)
      PROVE  /\ items'[j].kind = items[j].kind
             /\ items'[j].streamed = items[j].streamed
             /\ Under(items[j].push) \/ items'[j] = items[j]
             /\ Under(items'[j].push) => items'[j].left > 0
  <2>1. CASE j = i
      BY <2>1, <1>4, <1>5, <1>6
  <2>2. CASE j # i
      BY <2>2, <1>6, ItemAt DEF LeftCovers
  <2> QED BY <2>1, <2>2
<1>8. UNCHANGED <<srv, mode, hooked, wrap, round, left, usable, connected,
                  doneSent, thrown, status>>
    BY <1>1 DEF PutBlob, SendWebPush
<1> QED BY <1>6, <1>7, <1>8 DEF Pushed

(* Steps that leave the items alone, and steps that add one.               *)
Quiet == UNCHANGED <<mode, hooked, wrap, items>> /\ (usable' = usable \/ usable' = FALSE)
Adds(kind) == UNCHANGED <<mode, hooked, wrap>> /\ Appended(kind)

LEMMA QuietKeeps ==
    ASSUME ServerInv, Quiet, doneSent' => doneSent \/ usable
    PROVE  LeftCovers' /\ Streams'
<1>1. LeftCovers'
    BY DEF ServerInv, LeftCovers, Quiet
<1>2. Streams'
    BY DEF ServerInv, ServerTypeOK, Streams, Quiet
<1> QED BY <1>1, <1>2

LEMMA AppendedKeeps ==
    ASSUME ServerInv, NEW kind, Adds(kind), ~doneSent'
    PROVE  LeftCovers' /\ Streams'
<1>1. /\ Len(items) \in Nat /\ DOMAIN items = 1..Len(items)
      /\ DOMAIN items' = 1..(Len(items) + 1)
    BY ItemAt DEF ServerInv, Adds, Appended
<1>2. \A i \in DOMAIN items' : i \in 1..Len(items) \/ i = Len(items) + 1
    BY <1>1
<1>3. LeftCovers'
    BY <1>1, <1>2 DEF ServerInv, LeftCovers, Adds, Appended
<1>4. Streams'
    BY <1>1, <1>2 DEF ServerInv, Streams, Adds, Appended
<1> QED BY <1>3, <1>4

LEMMA PushedKeeps == ASSUME ServerInv, Pushed PROVE ServerInv'
<1>1. /\ Len(items) \in Nat /\ DOMAIN items = 1..Len(items) /\ DOMAIN items' = 1..Len(items)
      /\ items = <<>> <=> Len(items) = 0
      /\ items' = <<>> <=> Len(items) = 0
    BY ItemAt DEF ServerInv, Pushed
<1>2. \A i \in 1..Len(items) : items[i] \in Item
    BY ItemAt DEF ServerInv
<1>3. ServerTypeOK'
    BY DEF ServerInv, ServerTypeOK, Pushed
<1>4. LeftCovers'
    BY <1>1 DEF ServerInv, LeftCovers, Pushed
<1>5. Stages'
    BY <1>1 DEF ServerInv, Stages, Pushed
<1>6. Streams'
    BY <1>1 DEF ServerInv, Streams, Pushed
<1>7. \A i \in 1..Len(items) : Under(items'[i].push) => Under(items[i].push)
    BY DEF Pushed
<1>8. Awaits'
    BY <1>1, <1>7 DEF ServerInv, Awaits, AllSettled, Pushed
<1>9. \A i \in 1..Len(items) : Accepted(i) => Accepted(i)'
    BY DEF Accepted, Pushed, Under
<1>10. Contents'
    BY <1>1, <1>9 DEF ServerInv, Contents, Pushed
<1>11. \A i \in 1..Len(items) : items[i].push = "failed" => items'[i].push = "failed"
    BY DEF Pushed, Under
<1>12. Errors'
    BY <1>1, <1>11 DEF ServerInv, Errors, Pushed
<1>13. Reporting'
    BY <1>1 DEF ServerInv, Reporting, Pushed
<1>14. Reports'
    BY <1>1 DEF ServerInv, Reports, Pushed
<1> QED BY <1>3, <1>4, <1>5, <1>6, <1>8, <1>10, <1>12, <1>13, <1>14 DEF ServerInv

(* The handler waits for a push that is not backed by the stream; so where *)
(* it goes on, none is under way.                                          *)
NoneAwaited == \A i \in DOMAIN items : items[i].streamed \/ ~Under(items[i].push)

LEMMA AtMeansNoneAwaited ==
    ASSUME ServerInv, NEW stage, At(stage) \/ srv \notin AwaitStage
    PROVE  NoneAwaited
BY ItemAt DEF ServerInv, At, Awaiting, Awaits, NoneAwaited

LEMMA AwaitsQuiet ==
    ASSUME ServerInv, NoneAwaited, UNCHANGED items,
           srv' \in {"closed", "answered"} => AllSettled
    PROVE  Awaits'
BY DEF Awaits, NoneAwaited, AllSettled

LEMMA AwaitsAppended ==
    ASSUME ServerInv, NoneAwaited, NEW kind, Appended(kind), srv' \in AwaitStage
    PROVE  Awaits'
<1>1. /\ Len(items) \in Nat /\ DOMAIN items = 1..Len(items)
      /\ DOMAIN items' = 1..Len(items')
    BY ItemAt DEF ServerInv, Appended
<1>2. \A i \in DOMAIN items' : i \in DOMAIN items \/ i = Len(items')
    BY <1>1 DEF Appended
<1>3. \A i \in DOMAIN items : items'[i] = items[i]
    BY <1>1 DEF Appended
<1> QED BY <1>1, <1>2, <1>3 DEF Awaits, NoneAwaited, AwaitStage

-----------------------------------------------------------------------------
(* The steps of the handler, one by one.                                   *)

ServerVarsTyped ==
    /\ mode' \in {"sse", "push"} /\ hooked' \in BOOLEAN
    /\ wrap' \in {"blob", "multipart", "none"}
    /\ items' \in Seq(Item) /\ usable' \in BOOLEAN

LEMMA QuietTyped == ASSUME ServerInv, Quiet PROVE ServerVarsTyped
<1>1. usable' \in BOOLEAN
    BY DEF ServerInv, ServerTypeOK, Quiet
<1>2. items \in Seq(Item) /\ items' = items
    BY DEF ServerInv, ServerTypeOK, Quiet
<1>3. items' \in Seq(Item)
    BY <1>2
<1>4. UNCHANGED <<mode, hooked, wrap>>
    BY DEF Quiet
<1> QED BY <1>1, <1>3, <1>4 DEF ServerInv, ServerTypeOK, ServerVarsTyped

LEMMA AddsTyped == ASSUME ServerInv, NEW kind, Adds(kind) PROVE ServerVarsTyped
<1>1. items' \in Seq(Item) /\ usable' \in BOOLEAN
    BY DEF Adds, Appended
<1>2. UNCHANGED <<mode, hooked, wrap>>
    BY DEF Adds
<1> QED BY <1>1, <1>2 DEF ServerInv, ServerTypeOK, ServerVarsTyped

LEMMA RefuseKeeps == ASSUME ServerInv, Refuse PROVE ServerInv'
<1>1. Quiet /\ ~doneSent /\ UNCHANGED <<round, left, connected, doneSent, thrown>>
      /\ srv = "arrived" /\ srv' = "answered" /\ status' \in {405, 401, 400, 500}
    BY DEF Refuse, Quiet, ServerInv, Stages, OtherRefusal
<1>2. items = <<>> /\ items' = <<>> /\ DOMAIN items = {} /\ thrown = "none"
    BY <1>1 DEF ServerInv, Stages, Quiet
<1>3. LeftCovers' /\ Streams'
    BY <1>1, QuietKeeps
<1>4. ServerTypeOK'
    BY <1>1, QuietTyped DEF ServerInv, ServerTypeOK, ServerVarsTyped, Stage
<1>5. Stages'
    BY <1>1, <1>2 DEF ServerInv, Stages
<1>6. Awaits' /\ Contents' /\ Reporting' /\ Reports'
    BY <1>1, <1>2 DEF Awaits, AllSettled, Contents, Reporting, Reports
<1>7. Errors'
    BY <1>1, <1>2 DEF Errors
<1> QED BY <1>3, <1>4, <1>5, <1>6, <1>7 DEF ServerInv

LEMMA AcceptKeeps == ASSUME ServerInv, Accept PROVE ServerInv'
<1>1. /\ Quiet /\ ~doneSent /\ UNCHANGED <<left, connected, doneSent, thrown, status>>
      /\ srv = "arrived" /\ srv' = "before"
    BY DEF Accept, Quiet, ServerInv, Stages
<1>2. round' \in 0..MaxRounds /\ round' < MaxRounds
  <2>1. PICK b \in Body : /\ Valid(b)
                          /\ round' = IF hooked /\ b.iteration > 0 THEN b.iteration ELSE 0
      BY DEF Accept
  <2>2. b.iteration \in -1..MaxRounds /\ b.iteration < MaxRounds
      BY <2>1 DEF Body, Valid, ValidInstant, ValidContinue, SharedFieldsValid
  <2> QED BY <2>1, <2>2, BoundsArePositive
<1>3. LeftCovers' /\ Streams'
    BY <1>1, QuietKeeps
<1>4. ServerTypeOK'
    BY <1>1, <1>2, QuietTyped DEF ServerInv, ServerTypeOK, ServerVarsTyped, Stage
<1>5. items = <<>> /\ items' = <<>> /\ DOMAIN items = {} /\ thrown = "none" /\ status = 0
    BY <1>1 DEF ServerInv, Stages, Quiet
<1>6. Stages'
    BY <1>1, <1>2, <1>5 DEF Stages
<1>7. Awaits' /\ Contents' /\ Reporting' /\ Reports' /\ Errors'
    BY <1>1, <1>5 DEF Awaits, AllSettled, Contents, Reporting, Reports, Errors
<1> QED BY <1>3, <1>4, <1>6, <1>7 DEF ServerInv

LEMMA BeforeLoopKeeps == ASSUME ServerInv, BeforeLoop PROVE ServerInv'
<1>1. /\ Quiet /\ ~doneSent /\ UNCHANGED <<round, left, connected, doneSent, status>>
      /\ srv = "before" /\ thrown = "none"
      /\ \/ srv' = "llm" /\ thrown' = "none"
         \/ srv' = "throw" /\ thrown' = "other"
    BY DEF BeforeLoop, Quiet, ServerInv, Stages
<1>2. items = <<>> /\ items' = <<>> /\ DOMAIN items = {} /\ status = 0 /\ round < MaxRounds
    BY <1>1 DEF ServerInv, Stages, Quiet
<1>3. LeftCovers' /\ Streams'
    BY <1>1, QuietKeeps
<1>4. ServerTypeOK'
    BY <1>1, QuietTyped DEF ServerInv, ServerTypeOK, ServerVarsTyped, Stage, Error
<1>5. Stages'
    BY <1>1, <1>2 DEF Stages
<1>6. Awaits' /\ Contents' /\ Reporting' /\ Reports' /\ Errors'
    BY <1>1, <1>2 DEF Awaits, AllSettled, Contents, Reporting, Reports, Errors
<1> QED BY <1>3, <1>4, <1>5, <1>6 DEF ServerInv

LEMMA LlmFailsKeeps == ASSUME ServerInv, LlmFails PROVE ServerInv'
<1>1. /\ Quiet /\ ~doneSent /\ UNCHANGED <<round, left, items, connected, doneSent, status>>
      /\ srv = "llm" /\ thrown = "none" /\ srv' = "throw" /\ thrown' = "llm" /\ status = 0
    BY DEF LlmFails, Quiet, ServerInv, Stages
<1>2. LeftCovers' /\ Streams'
    BY <1>1, QuietKeeps
<1>3. ServerTypeOK'
    BY <1>1, QuietTyped DEF ServerInv, ServerTypeOK, ServerVarsTyped, Stage, Error
<1>4. Stages'
    BY <1>1 DEF Stages
<1>5. Awaits'
    BY <1>1, AtMeansNoneAwaited, AwaitsQuiet DEF AwaitStage
<1>6. Contents' /\ Reporting' /\ Reports' /\ Errors'
    BY <1>1 DEF ServerInv, Contents, Reporting, Reports, Errors
<1> QED BY <1>2, <1>3, <1>4, <1>5, <1>6 DEF ServerInv

LEMMA LlmAnswersKeeps == ASSUME ServerInv, LlmAnswers PROVE ServerInv'
<1>1. /\ ~doneSent /\ UNCHANGED <<round, left, connected, doneSent, thrown, status>>
      /\ srv = "llm" /\ srv' = "decide" /\ thrown = "none" /\ status = 0 /\ round < MaxRounds
    BY DEF LlmAnswers, ServerInv, Stages
<1>2. (Quiet /\ UNCHANGED items) \/ Adds("reasoning")
  <2>1. ASSUME NEW size \in {"small", "large"}, HandToDeliver("reasoning", size)
        PROVE  Appended("reasoning")
      BY <2>1, HandToDeliverAppends DEF ServerInv, Kind, Size
  <2> QED BY <2>1 DEF LlmAnswers, Quiet, Adds
<1>3. NoneAwaited
    BY <1>1, AtMeansNoneAwaited DEF AwaitStage
<1>4. LeftCovers' /\ Streams'
    BY <1>1, <1>2, QuietKeeps, AppendedKeeps
<1>5. ServerTypeOK'
    BY <1>1, <1>2, QuietTyped, AddsTyped DEF ServerInv, ServerTypeOK, ServerVarsTyped, Stage
<1>6. Stages'
    BY <1>1 DEF Stages
<1>7. Awaits'
    BY <1>1, <1>2, <1>3, AwaitsQuiet, AwaitsAppended DEF AwaitStage, Adds
<1>8. Reports' /\ Errors'
    BY <1>1 DEF Reports, Errors
<1>9. Contents' /\ Reporting'
  <2>1. CASE Quiet /\ UNCHANGED items
      BY <1>1, <2>1 DEF ServerInv, Contents, Reporting, Quiet
  <2>2. CASE Adds("reasoning")
    <3>1. \A i \in DOMAIN items' : \/ i \in DOMAIN items /\ items'[i] = items[i]
                                   \/ items'[i].kind = "reasoning"
        BY <2>2, ItemAt DEF ServerInv, Adds, Appended
    <3>2. Contents'
        BY <1>1, <2>2, <3>1 DEF ServerInv, Contents, Adds
    <3>3. Reporting'
        BY <1>1, <3>1 DEF ServerInv, Reporting, Report
    <3> QED BY <3>2, <3>3
  <2> QED BY <1>2, <2>1, <2>2
<1> QED BY <1>4, <1>5, <1>6, <1>7, <1>8, <1>9 DEF ServerInv

LEMMA DecidePushesKeeps == ASSUME ServerInv, DecidePushes PROVE ServerInv'
<1>1. /\ Quiet /\ ~doneSent /\ UNCHANGED <<round, items, connected, doneSent, thrown, status>>
      /\ srv = "decide" /\ srv' = "batch" /\ thrown = "none" /\ status = 0
      /\ left' \in 0..MaxBatch /\ At("decide")
    BY DEF DecidePushes, At, Quiet, ServerInv, Stages
<1>2. LeftCovers' /\ Streams'
    BY <1>1, QuietKeeps
<1>3. ServerTypeOK'
    BY <1>1, QuietTyped DEF ServerInv, ServerTypeOK, ServerVarsTyped, Stage
<1>4. Stages'
    BY <1>1 DEF Stages
<1>5. Awaits'
    BY <1>1, AtMeansNoneAwaited, AwaitsQuiet
<1>6. Contents'
    BY <1>1 DEF ServerInv, Contents, Accepted, Quiet
<1>7. Reporting' /\ Reports' /\ Errors'
    BY <1>1 DEF ServerInv, Reporting, Reports, Errors
<1> QED BY <1>2, <1>3, <1>4, <1>5, <1>6, <1>7 DEF ServerInv

LEMMA DecideSkipKeeps == ASSUME ServerInv, DecideSkip PROVE ServerInv'
<1>1. /\ Quiet /\ ~doneSent
      /\ UNCHANGED <<round, left, items, connected, doneSent, thrown, status>>
      /\ srv = "decide" /\ srv' = "after" /\ thrown = "none" /\ status = 0 /\ At("decide")
    BY DEF DecideSkip, At, Quiet, ServerInv, Stages
<1>2. LeftCovers' /\ Streams'
    BY <1>1, QuietKeeps
<1>3. ServerTypeOK'
    BY <1>1, QuietTyped DEF ServerInv, ServerTypeOK, ServerVarsTyped, Stage
<1>4. Stages'
    BY <1>1 DEF Stages
<1>5. Awaits'
    BY <1>1, AtMeansNoneAwaited, AwaitsQuiet
<1>6. Contents'
    BY <1>1 DEF ServerInv, Contents, Accepted, Quiet
<1>7. Reporting' /\ Reports' /\ Errors'
    BY <1>1 DEF ServerInv, Reporting, Reports, Errors
<1> QED BY <1>2, <1>3, <1>4, <1>5, <1>6, <1>7 DEF ServerInv

LEMMA DecideContinueKeeps == ASSUME ServerInv, DecideContinue PROVE ServerInv'
<1>1. /\ ~doneSent /\ UNCHANGED <<left, connected, doneSent, thrown, status>>
      /\ srv = "decide" /\ thrown = "none" /\ status = 0 /\ At("decide")
      /\ round < MaxRounds /\ round' = round + 1
    BY DEF DecideContinue, At, ServerInv, Stages
<1>2. \/ Quiet /\ UNCHANGED items /\ srv' = "llm" /\ round' < MaxRounds
      \/ Adds("loop_exceeded") /\ srv' = "after"
  <2>1. HandToDeliver("loop_exceeded", "small") => Appended("loop_exceeded")
      BY HandToDeliverAppends DEF ServerInv, Kind, Size
  <2> QED BY <1>1, <2>1 DEF DecideContinue, Quiet, Adds
<1>3. NoneAwaited
    BY <1>1, AtMeansNoneAwaited
<1>4. LeftCovers' /\ Streams'
    BY <1>1, <1>2, QuietKeeps, AppendedKeeps
<1>5. round' \in 0..MaxRounds
    BY <1>1, BoundsArePositive DEF ServerInv, ServerTypeOK
<1>6. ServerTypeOK'
    BY <1>1, <1>2, <1>5, QuietTyped, AddsTyped
       DEF ServerInv, ServerTypeOK, ServerVarsTyped, Stage
<1>7. Stages'
    BY <1>1, <1>2 DEF Stages
<1>8. Awaits'
    BY <1>1, <1>2, <1>3, AwaitsQuiet, AwaitsAppended DEF AwaitStage, Adds
<1>9. Reports' /\ Errors'
    BY <1>1, <1>2 DEF Reports, Errors
<1>10. Contents' /\ Reporting'
  <2>1. CASE Quiet /\ UNCHANGED items /\ srv' = "llm"
      BY <1>1, <2>1 DEF ServerInv, Contents, Reporting, Quiet
  <2>2. CASE Adds("loop_exceeded") /\ srv' = "after"
    <3>1. \A i \in DOMAIN items' : \/ i \in DOMAIN items /\ items'[i] = items[i]
                                   \/ items'[i].kind = "loop_exceeded"
        BY <2>2, ItemAt DEF ServerInv, Adds, Appended
    <3>2. Contents'
        BY <1>1, <2>2, <3>1 DEF ServerInv, Contents, Accepted, Adds
    <3>3. Reporting'
        BY <1>1, <2>2, <3>1 DEF ServerInv, Reporting, Report
    <3> QED BY <3>2, <3>3
  <2> QED BY <1>2, <2>1, <2>2
<1> QED BY <1>4, <1>6, <1>7, <1>8, <1>9, <1>10 DEF ServerInv

(* A new item after items none of which reports the run.                   *)
LEMMA ReportingAppended ==
    ASSUME ServerInv, NEW kind, Appended(kind), srv # "answered",
           thrown = "none" \/ (srv = "throw" /\ thrown # "hook"),
           kind \in Report <=> thrown' # "none" /\ (srv' = "throw" => thrown' = "hook")
    PROVE  Reporting' /\ items' # <<>>
<1>1. \A i \in DOMAIN items : items[i].kind \notin Report
    BY DEF ServerInv, Reporting
<1>2. /\ Len(items) \in Nat /\ DOMAIN items = 1..Len(items)
      /\ DOMAIN items' = 1..(Len(items) + 1) /\ Len(items') = Len(items) + 1
    BY ItemAt DEF ServerInv, Appended
<1>3. \A i \in DOMAIN items' : \/ i # Len(items') /\ items'[i].kind \notin Report
                               \/ i = Len(items') /\ items'[i].kind = kind
    BY <1>1, <1>2 DEF Appended
<1>4. Reporting'
    BY <1>3 DEF Reporting
<1> QED BY <1>2, <1>4

LEMMA DecideThrowsKeeps == ASSUME ServerInv, DecideThrows PROVE ServerInv'
<1>1. /\ ~doneSent /\ UNCHANGED <<round, left, connected, doneSent, status>>
      /\ srv = "decide" /\ srv' = "throw" /\ thrown = "none" /\ thrown' = "hook"
      /\ status = 0 /\ At("decide")
    BY DEF DecideThrows, At, ServerInv, Stages
<1>2. Adds("hook_threw")
  <2>1. HandToDeliver("hook_threw", "small") => Appended("hook_threw")
      BY HandToDeliverAppends DEF ServerInv, Kind, Size
  <2> QED BY <2>1 DEF DecideThrows, Adds
<1>3. LeftCovers' /\ Streams'
    BY <1>1, <1>2, AppendedKeeps
<1>4. ServerTypeOK'
    BY <1>1, <1>2, AddsTyped DEF ServerInv, ServerTypeOK, ServerVarsTyped, Stage, Error
<1>5. Stages'
    BY <1>1 DEF Stages
<1>6. Awaits'
    BY <1>1, <1>2, AtMeansNoneAwaited, AwaitsAppended DEF AwaitStage, Adds
<1>7. Contents' /\ Errors'
    BY <1>1 DEF Contents, Errors
<1>8. Reporting' /\ items' # <<>>
    BY <1>1, <1>2, ReportingAppended DEF Report, Adds
<1>9. Reports'
    BY <1>1, <1>8 DEF Reports
<1> QED BY <1>3, <1>4, <1>5, <1>6, <1>7, <1>8, <1>9 DEF ServerInv

(* Of a batch that goes on every push so far was accepted.                 *)
LEMMA BatchAccepted ==
    ASSUME ServerInv, At("batch"), ~Threw, mode = "push"
    PROVE  \A i \in DOMAIN items : Accepted(i)
<1>1. NoneAwaited
    BY AtMeansNoneAwaited
<1>2. \A i \in DOMAIN items : i < Len(items) => Accepted(i)
    BY DEF ServerInv, Contents, At
<1>3. ASSUME NEW i \in DOMAIN items, i = Len(items), items[i].kind = "content"
      PROVE  items[i].push = "sent"
  <2>1. ~Under(items[i].push)
      BY <1>1 DEF NoneAwaited, ServerInv, Streams
  <2>2. items[i].push \notin {"failed", "refused"}
      BY <1>3, ItemAt DEF Threw, ServerInv
  <2>3. items[i].push \in {"put", "send"} \cup Settled
      BY ItemAt DEF ServerInv, Item
  <2> QED BY <2>1, <2>2, <2>3 DEF Under, Settled
<1>4. \A i \in DOMAIN items : i < Len(items) \/ i = Len(items)
    BY ItemAt DEF ServerInv
<1> QED BY <1>2, <1>3, <1>4 DEF Accepted

LEMMA DeliverNextKeeps == ASSUME ServerInv, DeliverNext PROVE ServerInv'
<1>1. /\ ~doneSent /\ UNCHANGED <<srv, round, connected, doneSent, thrown, status>>
      /\ srv = "batch" /\ thrown = "none" /\ status = 0 /\ At("batch") /\ ~Threw
    BY DEF DeliverNext, At, ServerInv, Stages
<1>2. Adds("content")
  <2>1. ASSUME NEW size \in Size, HandToDeliver("content", size)
        PROVE  Appended("content")
      BY <2>1, HandToDeliverAppends DEF ServerInv, Kind
  <2> QED BY <2>1 DEF DeliverNext, Adds
<1>3. LeftCovers' /\ Streams'
    BY <1>1, <1>2, AppendedKeeps
<1>4. left' \in 0..MaxBatch
    BY BoundsArePositive DEF DeliverNext, ServerInv, ServerTypeOK
<1>5. ServerTypeOK'
    BY <1>1, <1>2, <1>4, AddsTyped DEF ServerInv, ServerTypeOK, ServerVarsTyped
<1>6. Stages'
    BY <1>1 DEF Stages
<1>7. Awaits'
    BY <1>1, <1>2, AtMeansNoneAwaited, AwaitsAppended DEF AwaitStage, Adds
<1>8. Contents'
  <2>1. mode = "push" => \A i \in DOMAIN items : Accepted(i)
      BY <1>1, BatchAccepted
  <2>2. \A i \in DOMAIN items' : i < Len(items') => i \in DOMAIN items /\ items'[i] = items[i]
      BY <1>2, ItemAt DEF ServerInv, Adds, Appended
  <2> QED BY <1>1, <1>2, <2>1, <2>2 DEF Contents, Accepted, Adds
<1>9. Reporting'
    BY <1>1, <1>2, ReportingAppended DEF Report, Adds
<1>10. Reports' /\ Errors'
    BY <1>1 DEF Reports, Errors
<1> QED BY <1>3, <1>5, <1>6, <1>7, <1>8, <1>9, <1>10 DEF ServerInv

LEMMA BatchDoneKeeps == ASSUME ServerInv, BatchDone PROVE ServerInv'
<1>1. /\ Quiet /\ ~doneSent
      /\ UNCHANGED <<round, left, items, connected, doneSent, thrown, status>>
      /\ srv = "batch" /\ srv' = "after" /\ thrown = "none" /\ status = 0 /\ At("batch") /\ ~Threw
    BY DEF BatchDone, At, Quiet, ServerInv, Stages
<1>2. LeftCovers' /\ Streams'
    BY <1>1, QuietKeeps
<1>3. ServerTypeOK'
    BY <1>1, QuietTyped DEF ServerInv, ServerTypeOK, ServerVarsTyped, Stage
<1>4. Stages'
    BY <1>1 DEF Stages
<1>5. Awaits'
    BY <1>1, AtMeansNoneAwaited, AwaitsQuiet
<1>6. Contents'
    BY <1>1, BatchAccepted DEF Contents, Accepted, Quiet
<1>7. Reporting' /\ Reports' /\ Errors'
    BY <1>1 DEF ServerInv, Reporting, Reports, Errors
<1> QED BY <1>2, <1>3, <1>4, <1>5, <1>6, <1>7 DEF ServerInv

LEMMA ThrownByPush ==
    ASSUME ServerInv, Threw, thrown' = PushError
    PROVE  /\ thrown' \in {"push", "shape"} /\ items # <<>>
           /\ thrown' = "push" => \E i \in DOMAIN items : items[i].push = "failed"
BY ItemAt DEF ServerInv, Threw, PushError

LEMMA BatchThrowsKeeps == ASSUME ServerInv, BatchThrows PROVE ServerInv'
<1>1. /\ Quiet /\ ~doneSent
      /\ UNCHANGED <<round, left, items, connected, doneSent, status>>
      /\ srv = "batch" /\ srv' = "throw" /\ thrown = "none" /\ status = 0 /\ At("batch")
      /\ Threw /\ thrown' = PushError
    BY DEF BatchThrows, At, Quiet, ServerInv, Stages
<1>2. /\ thrown' \in {"push", "shape"}
      /\ thrown' = "push" => \E i \in DOMAIN items : items[i].push = "failed"
    BY <1>1, ThrownByPush
<1>3. LeftCovers' /\ Streams'
    BY <1>1, QuietKeeps
<1>4. ServerTypeOK'
    BY <1>1, <1>2, QuietTyped DEF ServerInv, ServerTypeOK, ServerVarsTyped, Stage, Error
<1>5. Stages'
    BY <1>1, <1>2 DEF Stages
<1>6. Awaits'
    BY <1>1, AtMeansNoneAwaited, AwaitsQuiet
<1>7. Contents' /\ Reports' /\ Errors'
    BY <1>1, <1>2 DEF Contents, Reports, Errors
<1>8. Reporting'
    BY <1>1, <1>2 DEF ServerInv, Reporting
<1> QED BY <1>3, <1>4, <1>5, <1>6, <1>7, <1>8 DEF ServerInv

LEMMA AfterLoopKeeps == ASSUME ServerInv, AfterLoop PROVE ServerInv'
<1>1. /\ ~doneSent /\ UNCHANGED <<round, left, connected, doneSent, status>>
      /\ srv = "after" /\ thrown = "none" /\ status = 0 /\ At("after")
    BY DEF AfterLoop, At, ServerInv, Stages
<1>2. \/ Quiet /\ UNCHANGED items /\ srv' = "finish" /\ thrown' = "none"
      \/ Quiet /\ UNCHANGED items /\ srv' = "throw" /\ thrown' = "other"
      \/ Adds("extra") /\ srv' = "extra" /\ thrown' = "none"
  <2>1. ASSUME NEW size \in Size, HandToDeliver("extra", size)
        PROVE  Appended("extra")
      BY <2>1, HandToDeliverAppends DEF ServerInv, Kind
  <2> QED BY <1>1, <2>1 DEF AfterLoop, Quiet, Adds
<1>3. NoneAwaited
    BY <1>1, AtMeansNoneAwaited
<1>4. LeftCovers' /\ Streams'
    BY <1>1, <1>2, QuietKeeps, AppendedKeeps
<1>5. ServerTypeOK'
    BY <1>1, <1>2, QuietTyped, AddsTyped
       DEF ServerInv, ServerTypeOK, ServerVarsTyped, Stage, Error
<1>6. Stages'
    BY <1>1, <1>2 DEF Stages
<1>7. Awaits'
    BY <1>1, <1>2, <1>3, AwaitsQuiet, AwaitsAppended DEF AwaitStage, Adds
<1>8. Reports' /\ Errors'
    BY <1>1, <1>2 DEF Reports, Errors
<1>9. Contents' /\ Reporting'
  <2>1. CASE Quiet /\ UNCHANGED items /\ srv' = "finish" /\ thrown' = "none"
      BY <1>1, <2>1 DEF ServerInv, Contents, Accepted, Reporting, Quiet
  <2>2. CASE Quiet /\ UNCHANGED items /\ srv' = "throw" /\ thrown' = "other"
      BY <1>1, <2>2 DEF ServerInv, Contents, Reporting, Quiet
  <2>3. CASE Adds("extra") /\ srv' = "extra" /\ thrown' = "none"
    <3>1. \A i \in DOMAIN items' : \/ i \in DOMAIN items /\ items'[i] = items[i]
                                   \/ items'[i].kind = "extra"
        BY <2>3, ItemAt DEF ServerInv, Adds, Appended
    <3>2. Contents'
        BY <1>1, <2>3, <3>1 DEF ServerInv, Contents, Accepted, Adds
    <3>3. Reporting'
        BY <1>1, <2>3, <3>1 DEF ServerInv, Reporting, Report
    <3> QED BY <3>2, <3>3
  <2> QED BY <1>2, <2>1, <2>2, <2>3
<1> QED BY <1>4, <1>5, <1>6, <1>7, <1>8, <1>9 DEF ServerInv

LEMMA AfterDeliveredKeeps == ASSUME ServerInv, AfterDelivered PROVE ServerInv'
<1>1. /\ Quiet /\ ~doneSent
      /\ UNCHANGED <<round, left, items, connected, doneSent, status>>
      /\ srv = "extra" /\ thrown = "none" /\ status = 0 /\ At("extra")
      /\ \/ srv' = "finish" /\ thrown' = "none"
         \/ Threw /\ srv' = "throw" /\ thrown' = PushError
    BY DEF AfterDelivered, At, Quiet, ServerInv, Stages
<1>2. \/ srv' = "finish" /\ thrown' = "none"
      \/ /\ srv' = "throw" /\ thrown' \in {"push", "shape"}
         /\ thrown' = "push" => \E i \in DOMAIN items : items[i].push = "failed"
    BY <1>1, ThrownByPush
<1>3. LeftCovers' /\ Streams'
    BY <1>1, QuietKeeps
<1>4. ServerTypeOK'
    BY <1>1, <1>2, QuietTyped DEF ServerInv, ServerTypeOK, ServerVarsTyped, Stage, Error
<1>5. Stages'
    BY <1>1, <1>2 DEF Stages
<1>6. Awaits'
    BY <1>1, <1>2, AtMeansNoneAwaited, AwaitsQuiet
<1>7. Contents'
    BY <1>1, <1>2 DEF ServerInv, Contents, Accepted, Quiet
<1>8. Reports' /\ Errors'
    BY <1>1, <1>2 DEF Reports, Errors
<1>9. Reporting'
    BY <1>1, <1>2 DEF ServerInv, Reporting
<1> QED BY <1>3, <1>4, <1>5, <1>6, <1>7, <1>8, <1>9 DEF ServerInv

(* Callers that want JSON are answered when nothing is in the air.         *)
LEMMA SettledForJson ==
    ASSUME ServerInv, NoneAwaited, mode = "push" PROVE AllSettled
BY DEF ServerInv, NoneAwaited, Streams, AllSettled

LEMMA FinishKeeps == ASSUME ServerInv, Finish PROVE ServerInv'
<1>1. /\ Quiet /\ ~doneSent /\ UNCHANGED <<round, left, items, usable, connected, thrown>>
      /\ srv = "finish" /\ thrown = "none" /\ status = 0
      /\ \/ /\ mode = "sse" /\ srv' = "settle" /\ doneSent' = usable /\ status' = 0
         \/ mode = "push" /\ srv' = "answered" /\ status' = 200 /\ doneSent' = FALSE
  <2>1. mode \in {"sse", "push"} /\ ~doneSent /\ doneSent \in BOOLEAN
      BY DEF Finish, ServerInv, ServerTypeOK, Stages
  <2> QED BY <2>1 DEF Finish, DoneFrame, Quiet, ServerInv, Stages
<1>2. LeftCovers' /\ Streams'
    BY <1>1, QuietKeeps
<1>3. ServerTypeOK'
  <2>1. doneSent' \in BOOLEAN
      BY <1>1 DEF ServerInv, ServerTypeOK
  <2> QED BY <1>1, <2>1, QuietTyped DEF ServerInv, ServerTypeOK, ServerVarsTyped, Stage
<1>4. Stages'
    BY <1>1 DEF Stages, Quiet
<1>5. Awaits'
    BY <1>1, AtMeansNoneAwaited, SettledForJson, AwaitsQuiet DEF AwaitStage
<1>6. Contents'
    BY <1>1 DEF ServerInv, Contents, Accepted, Quiet
<1>7. Reporting' /\ Reports' /\ Errors'
    BY <1>1 DEF ServerInv, Reporting, Reports, Errors
<1> QED BY <1>2, <1>3, <1>4, <1>5, <1>6, <1>7 DEF ServerInv

LEMMA FailKeeps == ASSUME ServerInv, Fail PROVE ServerInv'
<1>1. /\ ~doneSent /\ UNCHANGED <<round, left, connected, doneSent, thrown>>
      /\ srv = "throw" /\ thrown # "none" /\ status = 0 /\ At("throw")
    BY DEF Fail, At, ServerInv, Stages
<1>2. \/ /\ mode = "sse" /\ Quiet /\ UNCHANGED items /\ srv' = "settle" /\ status' = 0
         /\ thrown = "hook"
      \/ /\ mode = "sse" /\ Adds("stream_error") /\ srv' = "settle" /\ status' = 0
         /\ thrown # "hook"
      \/ /\ mode = "push" /\ Quiet /\ UNCHANGED items /\ srv' = "answered"
         /\ status' = ErrorStatus
  <2>1. mode \in {"sse", "push"}
      BY DEF ServerInv, ServerTypeOK
  <2>2. HandToDeliver("stream_error", "small") => Appended("stream_error")
      BY HandToDeliverAppends DEF ServerInv, Kind, Size
  <2>3. ASSUME mode = "sse", thrown = "hook"
        PROVE  Quiet /\ UNCHANGED items /\ srv' = "settle" /\ status' = 0
      BY <1>1, <2>3 DEF Fail, Reported, Quiet
  <2>4. ASSUME mode = "sse", thrown # "hook"
        PROVE  Adds("stream_error") /\ srv' = "settle" /\ status' = 0
      BY <1>1, <2>2, <2>4 DEF Fail, Reported, Adds
  <2>5. ASSUME mode = "push"
        PROVE  Quiet /\ UNCHANGED items /\ srv' = "answered" /\ status' = ErrorStatus
      BY <1>1, <2>5 DEF Fail, Quiet
  <2> QED BY <2>1, <2>3, <2>4, <2>5
<1>3. NoneAwaited
    BY <1>1, AtMeansNoneAwaited
<1>4. status' \in {0, 500, 502}
      /\ (status' = 502 => thrown \in {"llm", "push"})
    BY <1>1, <1>2 DEF ErrorStatus
<1>5. LeftCovers' /\ Streams'
    BY <1>1, <1>2, QuietKeeps, AppendedKeeps
<1>6. ServerTypeOK'
    BY <1>1, <1>2, <1>4, QuietTyped, AddsTyped
       DEF ServerInv, ServerTypeOK, ServerVarsTyped, Stage
<1>7. Stages'
    BY <1>1, <1>2 DEF Stages, Quiet, Adds
<1>8. Awaits'
    BY <1>1, <1>2, <1>3, SettledForJson, AwaitsQuiet, AwaitsAppended DEF AwaitStage, Adds
<1>9. Contents'
    BY <1>2, <1>4 DEF Contents, Quiet, Adds
<1>10. Reporting' /\ Reports'
  <2>1. CASE mode = "sse" /\ UNCHANGED items /\ srv' = "settle" /\ thrown = "hook"
      BY <1>1, <2>1 DEF ServerInv, Reporting, Reports
  <2>2. CASE Adds("stream_error") /\ srv' = "settle" /\ thrown # "hook"
      BY <1>1, <2>2, ReportingAppended DEF Report, Reports, Adds
  <2>3. CASE srv' = "answered"
      BY <2>3 DEF Reporting, Reports
  <2> QED BY <1>2, <2>1, <2>2, <2>3
<1>11. Errors'
  <2>1. thrown = "push" => \E i \in DOMAIN items' : items'[i].push = "failed"
    <3>1. \A i \in DOMAIN items : i \in DOMAIN items' /\ items'[i] = items[i]
        BY <1>2, ItemAt DEF ServerInv, Adds, Appended
    <3> QED BY <3>1 DEF ServerInv, Errors
  <2> QED BY <1>1, <1>4, <2>1 DEF Errors
<1> QED BY <1>5, <1>6, <1>7, <1>8, <1>9, <1>10, <1>11 DEF ServerInv

LEMMA CloseKeeps == ASSUME ServerInv, Close PROVE ServerInv'
<1>1. /\ Quiet /\ UNCHANGED <<round, left, items, usable, connected, doneSent, thrown, status>>
      /\ srv = "settle" /\ srv' = "closed" /\ status = 0 /\ mode = "sse" /\ AllSettled
    BY DEF Close, Quiet, ServerInv, Stages
<1>2. LeftCovers' /\ Streams'
    BY <1>1, QuietKeeps
<1>3. ServerTypeOK'
    BY <1>1, QuietTyped DEF ServerInv, ServerTypeOK, ServerVarsTyped, Stage
<1>4. Stages'
    BY <1>1 DEF Stages, Quiet
<1>5. Awaits'
    BY <1>1 DEF Awaits, AllSettled
<1>6. Contents'
    BY <1>1 DEF Contents, Quiet
<1>7. Reporting' /\ Reports' /\ Errors'
    BY <1>1 DEF ServerInv, Reporting, Reports, Errors
<1> QED BY <1>2, <1>3, <1>4, <1>5, <1>6, <1>7 DEF ServerInv

LEMMA NoticeLossKeeps == ASSUME ServerInv, NoticeLoss PROVE ServerInv'
<1>1. /\ Quiet /\ UNCHANGED <<srv, mode, hooked, wrap, round, left, items, connected,
                              doneSent, thrown, status>>
    BY DEF NoticeLoss, Quiet
<1>2. LeftCovers' /\ Streams'
    BY <1>1, QuietKeeps
<1>3. ServerTypeOK'
    BY <1>1, QuietTyped DEF ServerInv, ServerTypeOK, ServerVarsTyped
<1>4. Stages' /\ Awaits' /\ Contents'
    BY <1>1 DEF ServerInv, Stages, Awaits, AllSettled, Contents, Accepted
<1>5. Reporting' /\ Reports' /\ Errors'
    BY <1>1 DEF ServerInv, Reporting, Reports, Errors
<1> QED BY <1>2, <1>3, <1>4, <1>5 DEF ServerInv

LEMMA ServerStepKeeps == ASSUME ServerInv, ServerStep PROVE ServerInv'
<1>1. Pushing => ServerInv'
    BY PushingPushes, PushedKeeps DEF ServerInv
<1>2. Handle => ServerInv'
    BY RefuseKeeps, AcceptKeeps, BeforeLoopKeeps, LlmFailsKeeps, LlmAnswersKeeps,
       DecidePushesKeeps, DecideSkipKeeps, DecideContinueKeeps, DecideThrowsKeeps,
       DeliverNextKeeps, BatchDoneKeeps, BatchThrowsKeeps, AfterLoopKeeps,
       AfterDeliveredKeeps, FinishKeeps, FailKeeps, CloseKeeps DEF Handle
<1> QED BY <1>1, <1>2, NoticeLossKeeps DEF ServerStep

-----------------------------------------------------------------------------
(* The client's inductive invariant.                                       *)

(* Where the call is, and what that says of its timer, its signal and its  *)
(* detail.  Before the request is out the server has not heard of it; the  *)
(* timer in charge never fires later than the whole call may take.         *)
Calls ==
    /\ call \in {"start", "building"} => srv = "idle" /\ transport = "idle"
    /\ call = "start" => now = 0
    /\ call = "building" => now <= MaxBuild
    /\ outcome = "none" <=> call # "done"
    /\ call # "done" => receipt # "valid" /\ ~detail.stalled /\ detail.waited = 0
    /\ call \in {"start", "building", "racing", "lateGrace"} => ~detail.cancelled
    /\ call = "cancelGrace" => signal /\ detail.cancelled
    /\ call \in {"racing", "lateGrace"} /\ style # "low-level" => ~signal
    /\ call = "lateGrace" => transport \in {"ended", "error"}
    /\ style = "low-level" => /\ call \notin {"cancelGrace", "lateGrace"}
                              /\ outcome \in {"none", "threw", "resolved", "rejected"}
    /\ call \in Waiting /\ style # "low-level" =>
          now <= due /\ due <= MaxBuild + Timeout

(* A transport that ended cleanly had read all there was before the done   *)
(* frame, or had waited for the server to close.                           *)
Clean == transport = "ended" =>
    IF doneSent THEN read = Len(items) ELSE srv \in {"closed", "answered"}

(* onChunk runs for a frame of the stream, and the transport waits for it. *)
Handling == handler => transport = "open" /\ mode = "sse" /\ items # <<>>

ClientInv == ClientTypeOK /\ Calls /\ Clean /\ Handling /\ OutcomeTrue

(* What steps of the server do to what the client looks at.                *)
Sent == \E i \in DOMAIN items : items[i].push = "sent"

LEMMA ServerMoves ==
    ASSUME ServerInv, ServerStep
    PROVE  /\ srv = "idle" => srv' = "idle"
           /\ srv \in {"closed", "answered"} => srv' = srv /\ doneSent' = doneSent
           /\ doneSent => doneSent' /\ Len(items') = Len(items)
           /\ Sent => Sent'
           /\ mode' = mode /\ (items # <<>> => items' # <<>>)
<1>1. CASE Pushing
  <2>1. Pushed
      BY <1>1, PushingPushes DEF ServerInv
  <2>2. /\ DOMAIN items = 1..Len(items) /\ DOMAIN items' = 1..Len(items)
        /\ items # <<>> => items' # <<>>
      BY <2>1, ItemAt DEF ServerInv, Pushed
  <2> QED BY <2>1, <2>2 DEF Pushed, Sent, Under
<1>2. CASE NoticeLoss
    BY <1>2 DEF NoticeLoss, Sent
<1>3. CASE Handle
  <2>1. srv \notin {"idle", "closed", "answered"}
      BY <1>3 DEF Handle, At, Refuse, Accept, BeforeLoop, LlmFails, LlmAnswers,
                  DecidePushes, DecideSkip, DecideContinue, DecideThrows, DeliverNext,
                  BatchDone, BatchThrows, AfterLoop, AfterDelivered, Finish, Fail, Close
  <2>2. doneSent => srv = "settle"
      BY <2>1 DEF ServerInv, Stages
  <2>3. srv = "settle" => UNCHANGED <<doneSent, items>>
      BY <1>3 DEF Handle, At, Refuse, Accept, BeforeLoop, LlmFails, LlmAnswers,
                  DecidePushes, DecideSkip, DecideContinue, DecideThrows, DeliverNext,
                  BatchDone, BatchThrows, AfterLoop, AfterDelivered, Finish, Fail, Close
  <2>4. UNCHANGED items \/ \E kind \in Kind : \E size \in Size : HandToDeliver(kind, size)
      BY <1>3 DEF Handle, Refuse, Accept, BeforeLoop, LlmFails, LlmAnswers,
                  DecidePushes, DecideSkip, DecideContinue, DecideThrows, DeliverNext,
                  BatchDone, BatchThrows, AfterLoop, AfterDelivered, Finish, Fail, Close,
                  Kind, Size
  <2>5. UNCHANGED items \/ \E kind \in Kind : Appended(kind)
      BY <2>4, HandToDeliverAppends DEF ServerInv
  <2>6. /\ \A i \in DOMAIN items : i \in DOMAIN items' /\ items'[i] = items[i]
        /\ items # <<>> => items' # <<>>
      BY <2>5, ItemAt DEF ServerInv, Appended
  <2>7. mode' = mode
      BY <1>3 DEF Handle, Refuse, Accept, BeforeLoop, LlmFails, LlmAnswers,
                  DecidePushes, DecideSkip, DecideContinue, DecideThrows, DeliverNext,
                  BatchDone, BatchThrows, AfterLoop, AfterDelivered, Finish, Fail, Close
  <2> QED BY <2>1, <2>2, <2>3, <2>6, <2>7 DEF Sent
<1> QED BY <1>1, <1>2, <1>3 DEF ServerStep

LEMMA ClientUnderServer ==
    ASSUME ServerInv, ClientInv, ServerStep, UNCHANGED clientVars
    PROVE  ClientInv'
<1>1. ClientTypeOK'
    BY DEF ClientInv, ClientTypeOK, clientVars
<1>2. Calls'
    BY ServerMoves DEF ClientInv, Calls, clientVars, Waiting
<1>3. Clean'
    BY ServerMoves DEF ClientInv, Clean, clientVars
<1>4. Reached => Reached'
    BY ServerMoves DEF Reached, Sent, clientVars
<1>5. OutcomeTrue'
    BY <1>4 DEF ClientInv, OutcomeTrue, clientVars
<1>6. Handling'
    BY ServerMoves DEF ClientInv, Handling, clientVars
<1> QED BY <1>1, <1>2, <1>3, <1>5, <1>6 DEF ClientInv

(* The steps of the client leave all but the connection to the server.     *)
ServerAlone == UNCHANGED <<mode, hooked, wrap, round, left, items, usable,
                           doneSent, thrown, status>>

LEMMA ServerUnderClient ==
    ASSUME ServerInv, ServerAlone, connected' \in BOOLEAN,
           srv' = srv \/ (srv = "idle" /\ srv' = "arrived")
    PROVE  ServerInv'
<1>1. ServerTypeOK' /\ LeftCovers'
    BY DEF ServerInv, ServerTypeOK, LeftCovers, ServerAlone, Stage
<1>2. Stages' /\ Streams'
    BY DEF ServerInv, Stages, Streams, ServerAlone
<1>3. srv = "idle" => items = <<>> /\ DOMAIN items = {} /\ thrown = "none" /\ status = 0
    BY DEF ServerInv, Stages
<1>4. Awaits' /\ Contents'
    BY <1>3 DEF ServerInv, Awaits, AllSettled, Contents, Accepted, ServerAlone
<1>5. Errors' /\ Reporting' /\ Reports'
    BY <1>3 DEF ServerInv, Errors, Reporting, Reports, ServerAlone
<1> QED BY <1>1, <1>2, <1>4, <1>5 DEF ServerInv

-----------------------------------------------------------------------------
(* The steps of the client.                                                *)

LEMMA DetailFields ==
    ASSUME NEW d \in Detail, NEW waited \in Nat, NEW b \in BOOLEAN, NEW c \in BOOLEAN
    PROVE  /\ [d EXCEPT !.cancelled = b] \in Detail
           /\ [d EXCEPT !.stalled = b] \in Detail
           /\ [d EXCEPT !.response = b] \in Detail
           /\ [d EXCEPT !.chunkError = b] \in Detail
           /\ [d EXCEPT !.cancelled = b, !.waited = waited] \in Detail
           /\ [d EXCEPT !.waited = waited, !.ended = b, !.error = c] \in Detail
BY DEF Detail

LEMMA FinalizeGives ==
    ASSUME ClientTypeOK, NEW d \in Detail, NEW settled, NEW result,
           Finalize(result, settled, d)
    PROVE  /\ call' = "done" /\ outcome' = result /\ due' = 0 /\ connected' = FALSE
           /\ detail' \in Detail /\ detail'.waited = now
           /\ detail'.ended <=> settled = "ended"
           /\ detail'.error <=> settled = "error"
           /\ detail'.cancelled = d.cancelled /\ detail'.stalled = d.stalled
<1> DEFINE e == settled = "ended"
           f == settled = "error"
<1>1. e \in BOOLEAN /\ f \in BOOLEAN /\ now \in Nat
    BY DEF ClientTypeOK
<1>2. detail' = [d EXCEPT !.waited = now, !.ended = e, !.error = f]
    BY DEF Finalize
<1> HIDE DEF e, f
<1>3. /\ detail' \in Detail /\ detail'.waited = now /\ detail'.ended = e /\ detail'.error = f
      /\ detail'.cancelled = d.cancelled /\ detail'.stalled = d.stalled
    BY <1>1, <1>2 DEF Detail
<1> QED BY <1>3 DEF Finalize, e, f

(* A grace period, and half of one, ends before the whole call may.        *)
LEMMA GraceBounded ==
    ASSUME ClientTypeOK, now <= MaxBuild + Timeout
    PROVE  /\ ComputeGrace \in Nat /\ ComputeGrace \div 2 \in Nat
           /\ now + ComputeGrace <= MaxBuild + Timeout
           /\ now + ComputeGrace \div 2 <= MaxBuild + Timeout
<1>1. now \in Nat /\ Timeout \in Nat /\ Grace \in Nat /\ MaxBuild \in Nat
    BY TimesAreTyped DEF ClientTypeOK
<1>2. Remaining \in Nat /\ now + Remaining <= MaxBuild + Timeout
    BY <1>1 DEF Remaining
<1>3. ComputeGrace \in Nat /\ ComputeGrace <= Remaining
    BY <1>1, <1>2 DEF ComputeGrace, Least
<1>4. ComputeGrace \div 2 \in Nat /\ ComputeGrace \div 2 <= ComputeGrace
    BY <1>3
<1> QED BY <1>1, <1>2, <1>3, <1>4

(* A wait ends: the call returns `result' and its detail is final, which   *)
(* keeps the invariant if the result means what it says.                   *)
LEMMA WaitEnds ==
    ASSUME ServerInv, ClientInv, call \in Waiting,
           NEW result \in {"delivered", "completed-unconfirmed", "timeout", "cancelled",
                           "send-failed", "resolved", "rejected"},
           NEW d \in Detail, d.waited = detail.waited,
           Finalize(result, transport', d),
           ServerAlone, UNCHANGED <<srv, now, style>>,
           transport' \in {"idle", "open", "ended", "error"},
           signal' \in BOOLEAN, handler' \in BOOLEAN, read' \in Nat,
           receipt' \in {"none", "valid", "invalid"},
           result = "delivered" => style = "observed" /\ receipt' = "valid" /\ Reached',
           result = "completed-unconfirmed" => style = "transport-only" /\ transport' = "ended",
           result = "send-failed" => transport' = "error" /\ ~signal',
           result = "timeout" => (d.stalled => transport' = "ended") /\ ~d.cancelled,
           result = "cancelled" => signal' /\ d.cancelled,
           result \in {"timeout", "cancelled", "send-failed"} => receipt' # "valid",
           style = "low-level" <=> result \in {"resolved", "rejected"}
    PROVE  ClientTypeOK' /\ Calls' /\ OutcomeTrue' /\ connected' \in BOOLEAN
<1>1. /\ call' = "done" /\ outcome' = result /\ due' = 0 /\ connected' = FALSE
      /\ detail' \in Detail /\ detail'.waited = now
      /\ detail'.ended <=> transport' = "ended"
      /\ detail'.error <=> transport' = "error"
      /\ detail'.cancelled = d.cancelled /\ detail'.stalled = d.stalled
    BY FinalizeGives DEF ClientInv
<1>2. ClientTypeOK'
    BY <1>1 DEF ClientInv, ClientTypeOK, Calling, Outcome
<1>3. Calls'
    BY <1>1 DEF Calls, Waiting
<1>4. style # "low-level" => detail'.waited <= MaxBuild + Timeout
  <2>1. now \in Nat /\ due \in Nat /\ MaxBuild + Timeout \in Nat
      BY TimesAreTyped DEF ClientInv, ClientTypeOK
  <2> QED BY <1>1, <2>1 DEF ClientInv, Calls
<1>5. OutcomeTrue'
    BY <1>1, <1>4 DEF OutcomeTrue
<1> QED BY <1>1, <1>2, <1>3, <1>5

LEMMA SettlesKeeps ==
    ASSUME ServerInv, ClientInv, ServerAlone, UNCHANGED srv, transport = "open",
           NEW settled \in {"ended", "error"}, NEW body \in BOOLEAN,
           TransportSettles(settled, body),
           handler' = FALSE, read' \in Nat, read' >= read,
           settled = "ended" => IF doneSent THEN read' = Len(items)
                                            ELSE srv \in {"closed", "answered"}
    PROVE  ClientInv' /\ connected' \in BOOLEAN
<1> DEFINE d == [detail EXCEPT !.response = body]
<1>1. /\ d \in Detail /\ d.waited = detail.waited /\ d.cancelled = detail.cancelled
      /\ d.stalled = detail.stalled
  <2>1. detail \in Detail
      BY DEF ClientInv, ClientTypeOK
  <2>2. d \in Detail
      BY <2>1, DetailFields
  <2> QED BY <2>1, <2>2 DEF Detail
<1>2. transport' = settled /\ UNCHANGED <<now, style, signal, receipt>>
    BY DEF TransportSettles
<1>3. call \in {"racing", "cancelGrace", "done"} /\ style \in {"observed", "transport-only", "low-level"}
    BY DEF ClientInv, ClientTypeOK, Calling, Calls
<1>4. Clean' /\ Handling'
    BY <1>2 DEF Clean, Handling, ServerAlone
<1>5. Reached => Reached'
    BY DEF Reached, ServerAlone, ClientInv, ClientTypeOK
<1>6. connected \in BOOLEAN
    BY DEF ServerInv, ServerTypeOK
<1>7. CASE call = "racing" /\ style = "transport-only"
  <2>1. Finalize(IF settled = "error" THEN "send-failed" ELSE "completed-unconfirmed",
                 settled, d)
      BY <1>7 DEF TransportSettles
  <2>2. ~signal /\ receipt # "valid"
      BY <1>7 DEF ClientInv, Calls
  <2> HIDE DEF d
  <2>3. CASE settled = "error"
      BY <1>1, <1>2, <1>4, <1>7, <2>1, <2>2, <2>3, WaitEnds DEF ClientInv, ClientTypeOK, Waiting
  <2>4. CASE settled = "ended"
      BY <1>1, <1>2, <1>4, <1>7, <2>1, <2>2, <2>4, WaitEnds DEF ClientInv, ClientTypeOK, Waiting
  <2> QED BY <2>3, <2>4
<1>8. CASE call = "racing" /\ style = "low-level"
  <2>1. Finalize(IF settled = "error" THEN "rejected" ELSE "resolved", settled, d)
      BY <1>8 DEF TransportSettles
  <2> HIDE DEF d
  <2>2. CASE settled = "error"
      BY <1>1, <1>2, <1>4, <1>8, <2>1, <2>2, WaitEnds DEF ClientInv, ClientTypeOK, Waiting
  <2>3. CASE settled = "ended"
      BY <1>1, <1>2, <1>4, <1>8, <2>1, <2>3, WaitEnds DEF ClientInv, ClientTypeOK, Waiting
  <2> QED BY <2>2, <2>3
<1>9. CASE call = "racing" /\ style = "observed"
  <2>1. /\ call' = "lateGrace" /\ due' = now + ComputeGrace /\ detail' = d
        /\ UNCHANGED <<outcome, connected>>
      BY <1>9 DEF TransportSettles
  <2>2. now <= MaxBuild + Timeout /\ ~signal /\ ~detail.cancelled /\ ~detail.stalled
        /\ detail.waited = 0 /\ outcome = "none" /\ receipt # "valid"
    <3>1. now \in Nat /\ due \in Nat /\ MaxBuild + Timeout \in Nat
        BY TimesAreTyped DEF ClientInv, ClientTypeOK
    <3> QED BY <1>9, <3>1 DEF ClientInv, Calls, Waiting
  <2>3. ComputeGrace \in Nat /\ now + ComputeGrace <= MaxBuild + Timeout /\ now \in Nat
      BY <2>2, GraceBounded DEF ClientInv, ClientTypeOK
  <2> HIDE DEF d
  <2>4. due' \in Nat /\ now <= due' /\ due' <= MaxBuild + Timeout
      BY <2>1, <2>3
  <2>5. ClientTypeOK'
      BY <1>1, <1>2, <2>1, <2>4 DEF ClientInv, ClientTypeOK, Calling
  <2>6. Calls'
      BY <1>1, <1>2, <1>9, <2>1, <2>2, <2>4 DEF Calls, Waiting
  <2>7. OutcomeTrue'
      BY <2>1, <2>2 DEF OutcomeTrue
  <2> QED BY <1>4, <1>6, <2>1, <2>5, <2>6, <2>7 DEF ClientInv
<1>10. CASE call = "cancelGrace"
  <2>1. detail' = d /\ UNCHANGED <<call, due, outcome, connected>>
      BY <1>10 DEF TransportSettles
  <2> HIDE DEF d
  <2>2. ClientTypeOK'
      BY <1>1, <1>2, <2>1 DEF ClientInv, ClientTypeOK
  <2>3. Calls'
      BY <1>1, <1>2, <1>10, <2>1 DEF ClientInv, Calls
  <2>4. OutcomeTrue'
      BY <1>10, <2>1 DEF ClientInv, Calls, OutcomeTrue
  <2> QED BY <1>4, <1>6, <2>1, <2>2, <2>3, <2>4 DEF ClientInv
<1>11. CASE call = "done"
  <2>1. UNCHANGED <<call, due, outcome, connected, detail>>
      BY <1>11 DEF TransportSettles
  <2>2. ClientTypeOK'
      BY <1>2, <2>1 DEF ClientInv, ClientTypeOK
  <2>3. Calls'
      BY <1>2, <1>11, <2>1 DEF ClientInv, Calls, Waiting
  <2>4. OutcomeTrue'
      BY <1>2, <1>5, <2>1 DEF ClientInv, OutcomeTrue
  <2> QED BY <1>4, <1>6, <2>1, <2>2, <2>3, <2>4 DEF ClientInv
<1> QED BY <1>3, <1>7, <1>8, <1>9, <1>10, <1>11

(* A step that leaves the race as it is.                                   *)
LEMMA RaceKeeps ==
    ASSUME ServerInv, ClientInv, ServerAlone, UNCHANGED <<srv, style, call, due, signal,
           transport, receipt, outcome, now>>,
           detail' \in Detail, handler' \in BOOLEAN, read' \in Nat, read' >= read,
           transport = "ended" => read' = read,
           handler' => transport = "open" /\ mode = "sse" /\ items # <<>>,
           UNCHANGED detail \/ /\ call # "done"
                               /\ detail'.waited = detail.waited
                               /\ detail'.cancelled = detail.cancelled
                               /\ detail'.stalled = detail.stalled
    PROVE  ClientInv'
<1>1. ClientTypeOK'
    BY DEF ClientInv, ClientTypeOK
<1>2. Calls'
    BY DEF ClientInv, Calls, Waiting
<1>3. Clean' /\ Handling'
    BY DEF ClientInv, Clean, Handling, ServerAlone
<1>4. Reached => Reached'
    BY DEF Reached, ServerAlone, ClientInv, ClientTypeOK
<1>5. OutcomeTrue'
    BY <1>4 DEF ClientInv, Calls, OutcomeTrue
<1> QED BY <1>1, <1>2, <1>3, <1>5 DEF ClientInv

(* A stream that has ended as written: all of its items were read.         *)
LEMMA AllStreamed ==
    ASSUME ServerInv, doneSent PROVE Streamed = Len(items)
<1>1. {i \in DOMAIN items : items[i].streamed} = 1..Len(items)
    BY ItemAt DEF ServerInv, Streams
<1>2. Len(items) \in Nat
    BY ItemAt DEF ServerInv
<1>3. Cardinality(1..Len(items)) = Len(items)
  <2>1. 1 \in Int /\ Len(items) \in Int
      BY <1>2
  <2>2. Cardinality(1..Len(items)) = IF 1 > Len(items) THEN 0 ELSE Len(items) - 1 + 1
      BY <2>1, FS_Interval
  <2>3. (IF 1 > Len(items) THEN 0 ELSE Len(items) - 1 + 1) = Len(items)
      BY <1>2
  <2> QED BY <2>2, <2>3
<1> QED BY <1>1, <1>3 DEF Streamed

LEMMA NothingStreamed ==
    ASSUME ServerInv, items = <<>> PROVE Streamed = 0
<1>1. {i \in DOMAIN items : items[i].streamed} = {}
    BY ItemAt DEF ServerInv
<1> QED BY <1>1, FS_EmptySet DEF Streamed

LEMMA ReadFrameKeeps ==
    ASSUME ServerInv, ClientInv, ServerAlone, UNCHANGED srv, ReadFrame
    PROVE  ClientInv' /\ connected' \in BOOLEAN
<1>1. /\ transport = "open" /\ mode = "sse" /\ handler = FALSE
      /\ read \in Nat /\ read' = read + 1 /\ read < Streamed
    BY DEF ReadFrame, Reading, ClientInv, ClientTypeOK
<1>2. read' \in Nat /\ read' >= read /\ items # <<>>
    BY <1>1, NothingStreamed
<1>3. CASE items[read + 1].kind = "stream_error"
    BY <1>1, <1>2, <1>3, SettlesKeeps DEF ReadFrame
<1>4. CASE items[read + 1].kind # "stream_error"
  <2>1. handler' \in BOOLEAN /\ UNCHANGED <<now, style, call, due, signal, transport,
                                            receipt, outcome, detail, connected>>
      BY <1>4 DEF ReadFrame
  <2>2. detail' \in Detail /\ connected' \in BOOLEAN
      BY <2>1 DEF ClientInv, ClientTypeOK, ServerInv, ServerTypeOK
  <2> QED BY <1>1, <1>2, <2>1, <2>2, RaceKeeps
<1> QED BY <1>3, <1>4

LEMMA ChunkHandledKeeps ==
    ASSUME ServerInv, ClientInv, ServerAlone, UNCHANGED srv, ChunkHandled
    PROVE  ClientInv' /\ connected' \in BOOLEAN
<1>1. /\ transport = "open" /\ handler' = FALSE /\ read' = read /\ read \in Nat
      /\ detail \in Detail /\ connected \in BOOLEAN /\ read >= read
    BY DEF ChunkHandled, ClientInv, ClientTypeOK, Handling, ServerInv, ServerTypeOK
<1>2. CASE UNCHANGED <<now, style, call, due, signal, transport, receipt, outcome, detail,
                       connected>>
    BY <1>1, <1>2, RaceKeeps
<1>3. CASE /\ detail' = IF Returned THEN detail ELSE [detail EXCEPT !.chunkError = TRUE]
           /\ UNCHANGED <<now, style, call, due, signal, transport, receipt, outcome,
                          connected>>
  <2>1. CASE Returned
      BY <1>1, <1>3, <2>1, RaceKeeps
  <2>2. CASE ~Returned
    <3>1. detail' = [detail EXCEPT !.chunkError = TRUE] /\ call # "done"
        BY <1>3, <2>2 DEF Returned
    <3>2. /\ detail' \in Detail /\ detail'.waited = detail.waited
          /\ detail'.cancelled = detail.cancelled /\ detail'.stalled = detail.stalled
        BY <1>1, <3>1 DEF Detail
    <3> QED BY <1>1, <1>3, <3>1, <3>2, RaceKeeps
  <2> QED BY <2>1, <2>2
<1>4. CASE TransportSettles("error", FALSE)
    BY <1>1, <1>4, SettlesKeeps
<1> QED BY <1>2, <1>3, <1>4 DEF ChunkHandled

LEMMA TransportEndsKeeps ==
    ASSUME ServerInv, ClientInv, ServerAlone, UNCHANGED srv,
           ReadEnd \/ ReadAnswer \/ ConnectionFails
    PROVE  ClientInv' /\ connected' \in BOOLEAN
<1>1. read \in Nat /\ read >= read /\ handler \in BOOLEAN
    BY DEF ClientInv, ClientTypeOK
<1>2. CASE ReadEnd
  <2>1. doneSent => read = Len(items)
      BY <1>2, AllStreamed DEF ReadEnd
  <2>2. /\ transport = "open" /\ ~handler /\ read' = read /\ handler' = handler
        /\ TransportSettles("ended", FALSE) /\ (doneSent \/ srv = "closed")
      BY <1>2 DEF ReadEnd, Reading
  <2> QED BY <1>1, <2>1, <2>2, SettlesKeeps
<1>3. CASE ReadAnswer
  <2>1. /\ transport = "open" /\ srv = "answered" /\ read' = read /\ handler' = handler
        /\ \E settled \in {"ended", "error"} : \E body \in BOOLEAN :
              TransportSettles(settled, body)
      BY <1>3 DEF ReadAnswer
  <2>2. ~doneSent /\ ~handler
      BY <2>1 DEF ServerInv, Stages, ClientInv, Handling
  <2> QED BY <1>1, <2>1, <2>2, SettlesKeeps
<1>4. CASE ConnectionFails
    BY <1>1, <1>4, SettlesKeeps DEF ConnectionFails
<1> QED BY <1>2, <1>3, <1>4

LEMMA ReceiptArrivesKeeps ==
    ASSUME ServerInv, ClientInv, ServerAlone, UNCHANGED srv, ReceiptArrives
    PROVE  ClientInv' /\ connected' \in BOOLEAN
<1>1. /\ style = "observed" /\ receipt = "none" /\ call \in Waiting
      /\ UNCHANGED <<now, style, signal, transport, read, handler>>
    BY DEF ReceiptArrives
<1>2. Clean' /\ Handling'
    BY <1>1 DEF ClientInv, Clean, Handling, ServerAlone
<1>3. CASE /\ receipt' = "invalid"
           /\ UNCHANGED <<call, due, outcome, detail, connected>>
  <2>1. ClientTypeOK' /\ connected' \in BOOLEAN
      BY <1>1, <1>3 DEF ClientInv, ClientTypeOK, ServerInv, ServerTypeOK
  <2>2. Calls'
      BY <1>1, <1>3 DEF ClientInv, Calls
  <2>3. OutcomeTrue'
      BY <1>1, <1>3 DEF ClientInv, Calls, OutcomeTrue, Waiting
  <2> QED BY <1>2, <2>1, <2>2, <2>3 DEF ClientInv
<1>4. CASE Reached /\ receipt' = "valid" /\ Finalize("delivered", transport, detail)
  <2>1. Reached'
      BY <1>1, <1>4 DEF Reached, ServerAlone
  <2>2. /\ detail \in Detail /\ transport' \in {"idle", "open", "ended", "error"}
        /\ signal' \in BOOLEAN /\ handler' \in BOOLEAN /\ read' \in Nat
        /\ Finalize("delivered", transport', detail)
      BY <1>1, <1>4 DEF ClientInv, ClientTypeOK
  <2>3. ClientTypeOK' /\ Calls' /\ OutcomeTrue' /\ connected' \in BOOLEAN
      BY <1>1, <1>4, <2>1, <2>2, WaitEnds
  <2> QED BY <1>2, <2>3 DEF ClientInv
<1> QED BY <1>1, <1>3, <1>4 DEF ReceiptArrives, Listening

LEMMA AbortKeeps ==
    ASSUME ServerInv, ClientInv, ServerAlone, UNCHANGED srv, Abort
    PROVE  ClientInv' /\ connected' \in BOOLEAN
<1> DEFINE d == [detail EXCEPT !.cancelled = TRUE]
<1>1. /\ call # "done" /\ signal' = TRUE
      /\ UNCHANGED <<now, style, transport, read, handler, receipt>>
    BY DEF Abort
<1>2. Clean' /\ Handling'
    BY <1>1 DEF ClientInv, Clean, Handling, ServerAlone
<1>3. /\ receipt # "valid" /\ outcome = "none" /\ ~detail.stalled /\ detail.waited = 0
      /\ call \in Calling /\ style \in {"observed", "transport-only", "low-level"}
    BY <1>1 DEF ClientInv, ClientTypeOK, Calls, Calling
<1>4. /\ d \in Detail /\ d.waited = detail.waited /\ d.cancelled = TRUE
      /\ d.stalled = detail.stalled
  <2>1. detail \in Detail
      BY DEF ClientInv, ClientTypeOK
  <2>2. d \in Detail
      BY <2>1, DetailFields
  <2> QED BY <2>1, <2>2 DEF Detail
<1>5. CASE call = "racing" /\ style = "observed"
  <2>1. /\ call' = "cancelGrace" /\ due' = now + ComputeGrace \div 2 /\ detail' = d
        /\ connected' = FALSE /\ UNCHANGED outcome
      BY <1>5 DEF Abort
  <2> HIDE DEF d
  <2>2. now <= MaxBuild + Timeout
    <3>1. now \in Nat /\ due \in Nat /\ MaxBuild + Timeout \in Nat
        BY TimesAreTyped DEF ClientInv, ClientTypeOK
    <3> QED BY <1>5, <3>1 DEF ClientInv, Calls, Waiting
  <2>3. now \in Nat /\ ComputeGrace \div 2 \in Nat
        /\ now + ComputeGrace \div 2 <= MaxBuild + Timeout
      BY <2>2, GraceBounded DEF ClientInv, ClientTypeOK
  <2>4. due' \in Nat /\ now <= due' /\ due' <= MaxBuild + Timeout
      BY <2>1, <2>3
  <2>5. ClientTypeOK'
      BY <1>1, <1>4, <2>1, <2>4 DEF ClientInv, ClientTypeOK, Calling
  <2>6. Calls'
      BY <1>1, <1>3, <1>4, <1>5, <2>1, <2>4 DEF Calls, Waiting
  <2>7. OutcomeTrue'
      BY <1>3, <2>1 DEF OutcomeTrue
  <2> QED BY <1>2, <2>1, <2>5, <2>6, <2>7 DEF ClientInv
<1>6. CASE (call = "racing" /\ style = "transport-only") \/ call = "lateGrace"
  <2>1. Finalize("cancelled", transport, d)
      BY <1>6 DEF Abort
  <2>2. style # "low-level" /\ call \in Waiting
      BY <1>6 DEF ClientInv, Calls, Waiting
  <2> HIDE DEF d
  <2>3. /\ transport' \in {"idle", "open", "ended", "error"} /\ signal' \in BOOLEAN
        /\ handler' \in BOOLEAN /\ read' \in Nat /\ receipt' \in {"none", "valid", "invalid"}
        /\ receipt' # "valid" /\ Finalize("cancelled", transport', d)
      BY <1>1, <1>3, <2>1 DEF ClientInv, ClientTypeOK
  <2>4. ClientTypeOK' /\ Calls' /\ OutcomeTrue' /\ connected' \in BOOLEAN
      BY <1>1, <1>4, <2>2, <2>3, WaitEnds
  <2> QED BY <1>2, <2>4 DEF ClientInv
<1>7. CASE \/ call = "racing" /\ style = "low-level"
           \/ call \in {"start", "building", "cancelGrace"}
  <2>1. /\ UNCHANGED <<call, due, outcome, detail>>
        /\ connected' = FALSE \/ connected' = connected
      BY <1>7 DEF Abort
  <2>2. ClientTypeOK'
      BY <1>1, <2>1 DEF ClientInv, ClientTypeOK
  <2>3. connected' \in BOOLEAN
      BY <2>1 DEF ServerInv, ServerTypeOK
  <2>4. Calls'
      BY <1>1, <1>7, <2>1 DEF ClientInv, Calls, Waiting
  <2>5. OutcomeTrue'
      BY <1>3, <2>1 DEF OutcomeTrue
  <2> QED BY <1>2, <2>2, <2>3, <2>4, <2>5 DEF ClientInv
<1> QED BY <1>3, <1>5, <1>6, <1>7 DEF Calling

LEMMA TimerFiresKeeps ==
    ASSUME ServerInv, ClientInv, ServerAlone, UNCHANGED srv, TimerFires
    PROVE  ClientInv' /\ connected' \in BOOLEAN
<1>1. /\ call \in Waiting /\ style # "low-level"
      /\ UNCHANGED <<now, style, signal, transport, read, handler, receipt>>
    BY DEF TimerFires, TimerDue
<1>2. Clean' /\ Handling'
    BY <1>1 DEF ClientInv, Clean, Handling, ServerAlone
<1>3. /\ receipt # "valid" /\ ~detail.stalled /\ detail \in Detail
      /\ transport' \in {"idle", "open", "ended", "error"} /\ signal' \in BOOLEAN
      /\ handler' \in BOOLEAN /\ read' \in Nat /\ receipt' \in {"none", "valid", "invalid"}
    BY <1>1 DEF ClientInv, ClientTypeOK, Calls, Waiting
<1>4. ClientTypeOK' /\ Calls' /\ OutcomeTrue' /\ connected' \in BOOLEAN
  <2>1. CASE call = "racing"
    <3>1. Finalize("timeout", transport', detail) /\ ~detail.cancelled
        BY <1>1, <2>1 DEF TimerFires, ClientInv, Calls
    <3> QED BY <1>1, <1>3, <3>1, WaitEnds
  <2>2. CASE call = "cancelGrace"
    <3>1. Finalize("cancelled", transport', detail) /\ detail.cancelled /\ signal'
        BY <1>1, <2>2 DEF TimerFires, ClientInv, Calls
    <3> QED BY <1>1, <1>3, <3>1, WaitEnds
  <2>3. CASE call = "lateGrace" /\ transport = "error"
    <3>1. Finalize("send-failed", transport', detail) /\ ~signal'
        BY <1>1, <2>3 DEF TimerFires, ClientInv, Calls
    <3> QED BY <1>1, <1>3, <2>3, <3>1, WaitEnds
  <2>4. CASE call = "lateGrace" /\ transport = "ended"
    <3> DEFINE d == [detail EXCEPT !.stalled = TRUE]
    <3>1. d \in Detail
        BY <1>3, DetailFields
    <3>2. d.waited = detail.waited /\ d.cancelled = detail.cancelled
        BY <1>3, <3>1 DEF Detail
    <3>3. Finalize("timeout", transport', d)
        BY <1>1, <2>4 DEF TimerFires
    <3>4. ~detail.cancelled
        BY <2>4 DEF ClientInv, Calls
    <3> HIDE DEF d
    <3> QED BY <1>1, <1>3, <2>4, <3>1, <3>2, <3>3, <3>4, WaitEnds
  <2>5. call = "lateGrace" => transport \in {"ended", "error"}
      BY DEF ClientInv, Calls
  <2> QED BY <1>1, <2>1, <2>2, <2>3, <2>4, <2>5 DEF Waiting
<1> QED BY <1>2, <1>4 DEF ClientInv

LEMMA AdvanceKeeps ==
    ASSUME ServerInv, ClientInv, ServerAlone, UNCHANGED srv, Advance
    PROVE  ClientInv' /\ connected' \in BOOLEAN
<1>1. /\ call # "start" /\ call # "done" /\ style # "low-level" /\ ~TimerDue
      /\ call = "building" => now < MaxBuild
      /\ now' = now + 1
      /\ UNCHANGED <<style, call, due, signal, transport, read, handler, receipt, outcome,
                     detail, connected>>
    BY DEF Advance
<1>2. now \in Nat /\ due \in Nat /\ MaxBuild \in Nat
    BY TimesAreTyped DEF ClientInv, ClientTypeOK
<1>3. call \in Waiting => now' <= due
    BY <1>1, <1>2 DEF TimerDue
<1>4. call = "building" => now' <= MaxBuild
    BY <1>1, <1>2
<1>5. ClientTypeOK' /\ connected' \in BOOLEAN
    BY <1>1, <1>2 DEF ClientInv, ClientTypeOK, ServerInv, ServerTypeOK
<1>6. Calls'
    BY <1>1, <1>3, <1>4 DEF ClientInv, Calls
<1>7. Clean' /\ Handling'
    BY <1>1 DEF ClientInv, Clean, Handling, ServerAlone
<1>8. OutcomeTrue'
    BY <1>1 DEF ClientInv, Calls, OutcomeTrue
<1> QED BY <1>5, <1>6, <1>7, <1>8 DEF ClientInv

LEMMA DisconnectKeeps ==
    ASSUME ServerInv, ClientInv, ServerAlone, UNCHANGED srv, Disconnect
    PROVE  ClientInv' /\ connected' \in BOOLEAN
<1>1. UNCHANGED clientVars /\ connected' = FALSE
    BY DEF Disconnect
<1>2. detail \in Detail /\ handler \in BOOLEAN /\ read \in Nat /\ read >= read
    BY DEF ClientInv, ClientTypeOK
<1>3. ClientInv'
    BY <1>1, <1>2, RaceKeeps DEF clientVars, ClientInv, Handling
<1> QED BY <1>1, <1>3

(* Before the request is out: it may end here, or the call races.          *)
LEMMA ClientAloneKeeps ==
    ASSUME ServerInv, ClientInv, ClientAlone PROVE ClientInv'
<1>1. /\ call \in {"start", "building"} /\ call' \in {"building", "done"}
      /\ transport = "idle" /\ srv = "idle"
      /\ UNCHANGED <<now, style, due, signal, transport, read, handler, receipt>>
    BY DEF ClientAlone, Begin, BuildThrows, CancelledWhileBuilding, ClientInv, Calls
<1>2. UNCHANGED serverVars
    BY DEF ClientAlone
<1>3. /\ receipt # "valid" /\ outcome = "none" /\ ~detail.stalled /\ detail.waited = 0
      /\ ~detail.cancelled /\ detail \in Detail /\ now \in Nat
      /\ style \in {"observed", "transport-only", "low-level"}
    BY <1>1 DEF ClientInv, ClientTypeOK, Calls
<1>4. now <= MaxBuild /\ now <= MaxBuild + Timeout /\ 0 <= MaxBuild + Timeout
  <2>1. now = 0 \/ now <= MaxBuild
      BY <1>1 DEF ClientInv, Calls
  <2> QED BY <1>3, <2>1, TimesAreTyped
<1>5. \/ call' = "building" /\ UNCHANGED <<outcome, detail>>
      \/ /\ call' = "done" /\ outcome' = "threw" /\ detail' = detail
      \/ /\ call' = "done" /\ outcome' = "cancelled" /\ style # "low-level" /\ signal
         /\ detail' = [detail EXCEPT !.cancelled = TRUE]
      \/ /\ call' = "done" /\ signal
         /\ outcome' = IF style = "low-level" THEN "rejected" ELSE "cancelled"
         /\ detail' = [detail EXCEPT !.cancelled = TRUE, !.waited = now]
    BY DEF ClientAlone, Begin, BuildThrows, CancelledWhileBuilding
<1>6. Clean' /\ Handling'
    BY <1>1, <1>2 DEF ClientInv, Clean, Handling, serverVars
<1>7. CASE call' = "building" /\ UNCHANGED <<outcome, detail>>
  <2>1. ClientTypeOK'
      BY <1>1, <1>7 DEF ClientInv, ClientTypeOK, Calling
  <2>2. Calls'
      BY <1>1, <1>2, <1>3, <1>4, <1>7 DEF ClientInv, Calls, Waiting, serverVars
  <2>3. OutcomeTrue'
      BY <1>3, <1>7 DEF OutcomeTrue
  <2> QED BY <1>6, <2>1, <2>2, <2>3 DEF ClientInv
<1>8. CASE call' = "done"
  <2>1. /\ detail' \in Detail /\ detail'.waited \in {0, now} /\ ~detail'.stalled
        /\ outcome' \in {"cancelled", "rejected"} => detail'.cancelled /\ signal
        /\ outcome' \in {"cancelled", "rejected", "threw"}
        /\ style = "low-level" => outcome' \in {"threw", "rejected"}
        /\ style # "low-level" => outcome' # "rejected"
    <3>1. ASSUME detail' = [detail EXCEPT !.cancelled = TRUE]
          PROVE  /\ detail' \in Detail /\ detail'.waited = 0 /\ ~detail'.stalled
                 /\ detail'.cancelled
        BY <1>3, <3>1 DEF Detail
    <3>2. ASSUME detail' = [detail EXCEPT !.cancelled = TRUE, !.waited = now]
          PROVE  /\ detail' \in Detail /\ detail'.waited = now /\ ~detail'.stalled
                 /\ detail'.cancelled
        BY <1>3, <3>2 DEF Detail
    <3> QED BY <1>3, <1>5, <1>8, <3>1, <3>2
  <2>2. ClientTypeOK'
      BY <1>1, <1>8, <2>1 DEF ClientInv, ClientTypeOK, Outcome
  <2>3. Calls'
      BY <1>1, <1>8, <2>1 DEF Calls, Waiting
  <2>4. OutcomeTrue'
      BY <1>1, <1>3, <1>4, <2>1 DEF OutcomeTrue
  <2> QED BY <1>6, <2>2, <2>3, <2>4 DEF ClientInv
<1> QED BY <1>1, <1>5, <1>7, <1>8

LEMMA DispatchKeeps ==
    ASSUME ServerInv, ClientInv, Dispatch PROVE ClientInv' /\ ServerInv'
<1>1. /\ call = "building" /\ ~signal /\ call' = "racing" /\ due' = now + Timeout
      /\ transport = "idle" /\ transport' = "open" /\ srv = "idle" /\ srv' = "arrived"
      /\ UNCHANGED <<now, style, signal, read, handler, receipt, outcome, detail>>
      /\ ServerAlone /\ UNCHANGED connected
    BY DEF Dispatch, ClientInv, Calls, ServerAlone
<1>2. ServerInv'
    BY <1>1, ServerUnderClient DEF ServerInv, ServerTypeOK
<1>3. due' \in Nat /\ now <= due' /\ due' <= MaxBuild + Timeout
  <2>1. now \in Nat /\ now <= MaxBuild
      BY <1>1 DEF ClientInv, ClientTypeOK, Calls
  <2> QED BY <1>1, <2>1, TimesAreTyped
<1>4. ClientTypeOK'
    BY <1>1, <1>3 DEF ClientInv, ClientTypeOK, Calling
<1>5. Calls'
    BY <1>1, <1>3 DEF ClientInv, Calls, Waiting
<1>6. Clean' /\ Handling'
    BY <1>1 DEF ClientInv, Clean, Handling, ServerAlone
<1>7. OutcomeTrue'
    BY <1>1 DEF ClientInv, Calls, OutcomeTrue
<1> QED BY <1>2, <1>4, <1>5, <1>6, <1>7 DEF ClientInv

LEMMA ClientOnConnectionKeeps ==
    ASSUME ServerInv, ClientInv, ClientOnConnection PROVE ClientInv' /\ ServerInv'
<1>1. ServerAlone /\ UNCHANGED srv
    BY DEF ClientOnConnection, ServerAlone
<1>2. ClientInv' /\ connected' \in BOOLEAN
    BY <1>1, ReadFrameKeeps, ChunkHandledKeeps, TransportEndsKeeps, ReceiptArrivesKeeps,
       AbortKeeps, TimerFiresKeeps, AdvanceKeeps, DisconnectKeeps DEF ClientOnConnection
<1>3. srv' = srv \/ (srv = "idle" /\ srv' = "arrived")
    BY <1>1
<1>4. ServerInv'
  <2>1. connected' \in BOOLEAN
      BY <1>2
  <2>2. ServerAlone
      BY <1>1
  <2> QED BY <1>3, <2>1, <2>2, ServerUnderClient
<1> QED BY <1>2, <1>4

-----------------------------------------------------------------------------
(* The invariant, and what follows from it.                                *)

IInv == ServerInv /\ ClientInv

LEMMA InitImpliesIInv == Init => IInv
<1> SUFFICES ASSUME Init PROVE IInv
    OBVIOUS
<1>1. items = <<>> /\ DOMAIN items = {} /\ Len(items) = 0 /\ items \in Seq(Item)
    BY DEF Init, ServerInit
<1>2. wrap \in {"blob", "multipart", "none"} /\ 0 \in 0..MaxRounds /\ 0 \in 0..MaxBatch
      /\ 0 < MaxRounds
    BY BoundsArePositive, WrapsAreKnown DEF Init, ServerInit
<1>3. ServerTypeOK
  <2>1. usable \in BOOLEAN /\ connected \in BOOLEAN /\ doneSent \in BOOLEAN
      BY DEF Init, ServerInit
  <2> QED BY <1>1, <1>2, <2>1 DEF Init, ServerInit, ServerTypeOK, Stage, Error
<1>4. LeftCovers /\ Streams /\ Awaits /\ Reporting
    BY <1>1 DEF Init, ServerInit, LeftCovers, Streams, Awaits, AllSettled, Reporting
<1>5. Stages /\ Contents /\ Errors /\ Reports
    BY <1>1, <1>2 DEF Init, ServerInit, Stages, Contents, Errors, Reports
<1>6. detail \in Detail /\ detail.waited = 0 /\ ~detail.stalled /\ ~detail.cancelled
    BY DEF Init, ClientInit, Detail
<1>7. ClientTypeOK
    BY <1>6 DEF Init, ClientInit, ClientTypeOK, Calling
<1>8. Calls
    BY <1>6 DEF Init, ServerInit, ClientInit, Calls, Waiting
<1>9. Clean /\ Handling /\ OutcomeTrue
    BY DEF Init, ClientInit, Clean, Handling, OutcomeTrue
<1> QED BY <1>3, <1>4, <1>5, <1>7, <1>8, <1>9 DEF IInv, ServerInv, ClientInv

LEMMA NextKeepsIInv == IInv /\ [Next]_vars => IInv'
<1> SUFFICES ASSUME IInv, [Next]_vars PROVE IInv'
    OBVIOUS
<1> USE DEF IInv
<1>1. CASE ServerStep /\ UNCHANGED clientVars
    BY <1>1, ServerStepKeeps, ClientUnderServer
<1>2. CASE ClientAlone
  <2>1. connected' = connected /\ srv' = srv /\ ServerAlone
      BY <1>2 DEF ClientAlone, serverVars, ServerAlone
  <2>2. connected' \in BOOLEAN
      BY <2>1 DEF ServerInv, ServerTypeOK
  <2> QED BY <1>2, <2>1, <2>2, ClientAloneKeeps, ServerUnderClient
<1>3. CASE Dispatch
    BY <1>3, DispatchKeeps
<1>4. CASE ClientOnConnection
    BY <1>4, ClientOnConnectionKeeps
<1>5. CASE UNCHANGED vars
  <2>1. connected' = connected /\ srv' = srv /\ ServerAlone /\ UNCHANGED clientVars
      BY <1>5 DEF vars, serverVars, ServerAlone
  <2>2. /\ connected' \in BOOLEAN /\ detail \in Detail /\ handler \in BOOLEAN
        /\ read \in Nat /\ read >= read
      BY <2>1 DEF ServerInv, ServerTypeOK, ClientInv, ClientTypeOK
  <2>3. ClientInv'
      BY <2>1, <2>2, RaceKeeps DEF clientVars, ClientInv, Handling
  <2> QED BY <2>1, <2>2, <2>3, ServerUnderClient
<1> QED BY <1>1, <1>2, <1>3, <1>4, <1>5 DEF Next

LEMMA SpecImpliesIInv == Spec => []IInv
BY InitImpliesIInv, NextKeepsIInv, PTL DEF Spec

(* Type correctness of the request at both ends.                           *)
THEOREM TypeCorrect == Spec => []TypeOK
<1>1. IInv => TypeOK
    BY DEF IInv, ServerInv, ClientInv, TypeOK
<1> QED BY <1>1, SpecImpliesIInv, PTL

(* Each outcome of deliver() means what its typedef says, whatever order   *)
(* the transport, the receipt, the timer and the signal come in, and it    *)
(* comes in time (client/src/index.js, deliver).                           *)
THEOREM OutcomesMeanWhatTheySay == Spec => []OutcomeTrue
<1>1. IInv => OutcomeTrue
    BY DEF IInv, ClientInv
<1> QED BY <1>1, SpecImpliesIInv, PTL

(* The done frame, 200 and 502 say what has become of the run: the done    *)
(* frame is written only if everything went into the stream, the handler   *)
(* waits for every push it answers 200 for, and PUSH_SEND_FAILED comes     *)
(* from a push that failed (instant/src/index.js).                         *)
THEOREM AnswersAreTrue == Spec => []AnswerTrue
<1>1. IInv => AnswerTrue
  <2> SUFFICES ASSUME IInv PROVE AnswerTrue
      OBVIOUS
  <2>1. transport = "ended" /\ doneSent => read = Len(items)
      BY DEF IInv, ClientInv, Clean
  <2>2. ASSUME srv = "answered", status = 200, NEW i \in DOMAIN items,
               items[i].kind = "content"
        PROVE  items[i].push = "sent"
    <3>1. mode = "push"
        BY <2>2 DEF IInv, ServerInv, Stages
    <3> QED BY <2>2, <3>1 DEF IInv, ServerInv, Contents, Accepted
  <2>3. status = 502 => thrown = "llm" \/ \E i \in DOMAIN items : items[i].push = "failed"
      BY DEF IInv, ServerInv, Errors
  <2> QED BY <2>1, <2>2, <2>3 DEF AnswerTrue
<1> QED BY <1>1, SpecImpliesIInv, PTL

(* A transport that ends cleanly leaves no payload in the air: the stream  *)
(* closes after its backup pushes are settled, and whoever stops reading   *)
(* before that does so at a done frame behind every payload.               *)
THEOREM CleanEndsAreHandled == Spec => []CleanMeansHandled
<1>1. IInv => CleanMeansHandled
  <2> SUFFICES ASSUME IInv, transport = "ended", NEW i \in DOMAIN items
               PROVE  i <= read \/ ~Under(items[i].push)
      BY DEF CleanMeansHandled
  <2>1. CASE doneSent
    <3>1. read = Len(items)
        BY <2>1 DEF IInv, ClientInv, Clean
    <3> QED BY <3>1, ItemAt DEF IInv, ServerInv
  <2>2. CASE ~doneSent
    <3>1. AllSettled
        BY <2>2 DEF IInv, ClientInv, Clean, ServerInv, Awaits
    <3> QED BY <3>1 DEF AllSettled
  <2> QED BY <2>1, <2>2
<1> QED BY <1>1, SpecImpliesIInv, PTL

(* A failed run over SSE is reported exactly once, by the diagnostic of    *)
(* the hook or by the error frame, and a run that did not fail by neither. *)
THEOREM FailuresReportedOnce == Spec => []ReportedOnce
<1>1. IInv => ReportedOnce
  <2> SUFFICES ASSUME IInv, srv = "closed"
               PROVE  Cardinality({i \in DOMAIN items :
                                      items[i].kind \in {"hook_threw", "stream_error"}})
                         = IF thrown = "none" THEN 0 ELSE 1
      BY DEF ReportedOnce
  <2> DEFINE Rs == {i \in DOMAIN items : items[i].kind \in {"hook_threw", "stream_error"}}
  <2>1. \A i \in DOMAIN items : i \in Rs <=> i = Len(items) /\ thrown # "none"
      BY DEF IInv, ServerInv, Reporting, Report
  <2>2. CASE thrown = "none"
    <3>1. Rs = {}
        BY <2>1, <2>2
    <3> QED BY <2>2, <3>1, FS_EmptySet
  <2>3. CASE thrown # "none"
    <3>1. Len(items) \in DOMAIN items
        BY <2>3, ItemAt DEF IInv, ServerInv, Reports
    <3>2. Rs = {Len(items)}
        BY <2>1, <2>3, <3>1
    <3> HIDE DEF Rs
    <3>3. Cardinality(Rs) = 1
        BY <3>2, FS_Singleton
    <3> QED BY <2>3, <3>3 DEF Rs
  <2> QED BY <2>2, <2>3
<1> QED BY <1>1, SpecImpliesIInv, PTL
=============================================================================

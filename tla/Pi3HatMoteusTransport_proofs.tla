-------------------- MODULE Pi3HatMoteusTransport_proofs --------------------
(***************************************************************************)
(* Proofs about Pi3HatMoteusTransport for any number of clients, any       *)
(* adversity and any bound of the event queue: type correctness, that      *)
(* every request is accounted for, and that the transport implements       *)
(* CycleService.                                                           *)
(***************************************************************************)
EXTENDS Pi3HatMoteusTransport, TLAPS

(* The section of Cycle(): who is in it, with what, and how far its stores *)
(* have come.                                                              *)
SectionInv ==
  /\ mutex = None => request = NoRequest /\ stores = {}
  /\ mutex # None => /\ request \in Requests
                     /\ active <=> "active" \notin stores
                     /\ "data" \notin stores => cycleData = request
  /\ mutex = Child <=> childPc = "nested"
  /\ mutex = None /\ active => cycleData \in Requests

(* What the child holds at each place of its loop. *)
ChildInv ==
  /\ childPc \in {"cycle", "finish"} => active
  /\ childPc \in {"callback", "event"} <=> callback \in Requests
  /\ childPc \notin {"callback", "event"} => callback = NoRequest

(* Who is inside a call, and that nobody is once the destructor runs. *)
CallInv ==
  /\ \A c \in Clients : op[c] = "issuing" <=> mutex = c
  /\ mutex \in Clients => request.client = mutex
  /\ mutex \in Clients => ownerPc \in {"flush", "live"}
  /\ childPc = "exited" => done
  /\ done => ownerPc \in {"join", "gone"}

IInv == TypeOK /\ SectionInv /\ ChildInv /\ CallInv /\ Accounted


(* Every step keeps every variable in its type. *)
LEMMA TypeStep == IInv /\ [Next]_vars => TypeOK'
<1> SUFFICES ASSUME IInv, [Next]_vars PROVE TypeOK'
  OBVIOUS
<1>0. TypeOK /\ SectionInv /\ ChildInv
  BY DEF IInv
<1> USE ConstantsOK DEF ConstantsAssumption, members, child, TypeOK, SectionInv, ChildInv, Threads, ChildPcs, Requests, Emptied, NoRequest, AllKinds
<1>1. CASE CtorInitMembers
  BY <1>0, <1>1 DEF CtorInitMembers
<1>2. CASE DtorSetDone
  <2>1. asleep' \in BOOLEAN /\ done' \in BOOLEAN
    BY <1>0, <1>2, Zenon DEF DtorSetDone
  <2> QED
    BY <1>0, <1>2, <2>1 DEF DtorSetDone
<1>3. CASE DtorJoin
  BY <1>0, <1>3 DEF DtorJoin
<1>4. ASSUME NEW c \in Clients, ClientCycle(c) PROVE TypeOK'
  BY <1>0, <1>4 DEF ClientCycle, CycleEnter, MayCall
<1>5. ASSUME NEW c \in Clients, ClientPost(c) PROVE TypeOK'
  <2>1. asleep' \in BOOLEAN
    BY <1>0, <1>5, Zenon DEF ClientPost, PushEvent
  <2> QED
    BY <1>0, <1>5, <2>1 DEF ClientPost, PushEvent
<1>6. ASSUME NEW c \in Clients, Consume(c) PROVE TypeOK'
  BY <1>0, <1>6 DEF Consume
<1>7. ASSUME NEW x \in {"data", "active"}, CycleStore(x) PROVE TypeOK'
  <2>1. active' \in BOOLEAN
    BY <1>0, <1>7, Zenon DEF CycleStore
  <2> QED
    BY <1>0, <1>7, <2>1 DEF CycleStore
<1>8. CASE CycleLeave
  <2>1. asleep' \in BOOLEAN
    BY <1>0, <1>8, Zenon DEF CycleLeave
  <2> QED
    BY <1>0, <1>8, <2>1 DEF CycleLeave
<1>9. CASE ChildConstruct
  BY <1>0, <1>9 DEF ChildConstruct
<1>10. CASE ChildConstructDies
  BY <1>0, <1>10 DEF ChildConstructDies
<1>11. CASE ChildSleep
  BY <1>0, <1>11 DEF ChildSleep, WaitPredicate
<1>12. CASE ChildWake
  BY <1>0, <1>12 DEF ChildWake, WaitPredicate
<1>13. CASE ChildCheck
  BY <1>0, <1>13 DEF ChildCheck
<1>14. CASE ChildCycle
  BY <1>0, <1>14 DEF ChildCycle
<1>15. CASE ChildCycleNull
  BY <1>0, <1>15 DEF ChildCycleNull
<1>16. CASE ChildFinish
  <2>1. active' \in BOOLEAN
    BY <1>0, <1>16, Zenon DEF ChildFinish
  <2> QED
    BY <1>0, <1>16, <2>1 DEF ChildFinish
<1>17. CASE ChildCallbackSignal
  BY <1>0, <1>17 DEF ChildCallbackSignal, Signal
<1>18. CASE ChildCallbackPost
  <2>1. asleep' \in BOOLEAN
    BY <1>0, <1>18, Zenon DEF ChildCallbackPost, PushEvent
  <2> QED
    BY <1>0, <1>18, <2>1 DEF ChildCallbackPost, PushEvent
<1>19. CASE ChildCallbackChain
  BY <1>0, <1>19 DEF ChildCallbackChain, CycleEnter
<1>20. CASE ChildCallbackThrows
  BY <1>0, <1>20 DEF ChildCallbackThrows
<1>21. CASE ChildPop
  BY <1>0, <1>21 DEF ChildPop
<1>22. CASE ChildEvent
  BY <1>0, <1>22 DEF ChildEvent, Signal
<1>23. CASE UNCHANGED vars
  BY <1>0, <1>23 DEF vars
<1> QED
  BY <1>1, <1>2, <1>3, <1>4, <1>5, <1>6, <1>7, <1>8, <1>9, <1>10, <1>11, <1>12, <1>13, <1>14, <1>15, <1>16, <1>17, <1>18, <1>19, <1>20, <1>21, <1>22, <1>23 DEF Next, Running, CycleSection, ChildStep, Terminated

(* Every step keeps the section of Cycle() exclusive. *)
LEMMA SectionStep == IInv /\ [Next]_vars => SectionInv'
<1> SUFFICES ASSUME IInv, [Next]_vars PROVE SectionInv'
  OBVIOUS
<1>0. TypeOK /\ SectionInv /\ ChildInv
  BY DEF IInv
<1> USE ConstantsOK DEF ConstantsAssumption, members, child, TypeOK, SectionInv, ChildInv, Threads, Requests, NoRequest, AllKinds
<1>1. CASE CtorInitMembers
  BY <1>0, <1>1 DEF CtorInitMembers
<1>2. CASE DtorSetDone
  BY <1>0, <1>2 DEF DtorSetDone
<1>3. CASE DtorJoin
  BY <1>0, <1>3 DEF DtorJoin
<1>4. ASSUME NEW c \in Clients, ClientCycle(c) PROVE SectionInv'
  BY <1>0, <1>4 DEF ClientCycle, CycleEnter, MayCall
<1>5. ASSUME NEW c \in Clients, ClientPost(c) PROVE SectionInv'
  BY <1>0, <1>5 DEF ClientPost, PushEvent, MayCall
<1>6. ASSUME NEW c \in Clients, Consume(c) PROVE SectionInv'
  BY <1>0, <1>6 DEF Consume
<1>7. ASSUME NEW x \in {"data", "active"}, CycleStore(x) PROVE SectionInv'
  BY <1>0, <1>7 DEF CycleStore
<1>8. CASE CycleLeave
  BY <1>0, <1>8 DEF CycleLeave
<1>9. CASE ChildConstruct
  BY <1>0, <1>9 DEF ChildConstruct
<1>10. CASE ChildConstructDies
  BY <1>0, <1>10 DEF ChildConstructDies
<1>11. CASE ChildSleep
  BY <1>0, <1>11 DEF ChildSleep, WaitPredicate
<1>12. CASE ChildWake
  BY <1>0, <1>12 DEF ChildWake, WaitPredicate
<1>13. CASE ChildCheck
  BY <1>0, <1>13 DEF ChildCheck
<1>14. CASE ChildCycle
  BY <1>0, <1>14 DEF ChildCycle
<1>15. CASE ChildCycleNull
  BY <1>0, <1>15 DEF ChildCycleNull
<1>16. CASE ChildFinish
  BY <1>0, <1>16 DEF ChildFinish
<1>17. CASE ChildCallbackSignal
  BY <1>0, <1>17 DEF ChildCallbackSignal, Signal
<1>18. CASE ChildCallbackPost
  BY <1>0, <1>18 DEF ChildCallbackPost, PushEvent
<1>19. CASE ChildCallbackChain
  BY <1>0, <1>19 DEF ChildCallbackChain, CycleEnter
<1>20. CASE ChildCallbackThrows
  BY <1>0, <1>20 DEF ChildCallbackThrows
<1>21. CASE ChildPop
  BY <1>0, <1>21 DEF ChildPop
<1>22. CASE ChildEvent
  BY <1>0, <1>22 DEF ChildEvent, Signal
<1>23. CASE UNCHANGED vars
  BY <1>0, <1>23 DEF vars
<1> QED
  BY <1>1, <1>2, <1>3, <1>4, <1>5, <1>6, <1>7, <1>8, <1>9, <1>10, <1>11, <1>12, <1>13, <1>14, <1>15, <1>16, <1>17, <1>18, <1>19, <1>20, <1>21, <1>22, <1>23 DEF Next, Running, CycleSection, ChildStep, Terminated

(* Every step keeps what the child holds. *)
LEMMA ChildStepInv == IInv /\ [Next]_vars => ChildInv'
<1> SUFFICES ASSUME IInv, [Next]_vars PROVE ChildInv'
  OBVIOUS
<1>0. TypeOK /\ SectionInv /\ ChildInv
  BY DEF IInv
<1> USE ConstantsOK DEF ConstantsAssumption, members, child, TypeOK, SectionInv, ChildInv, ChildPcs, Requests, NoRequest, AllKinds
<1>1. CASE CtorInitMembers
  BY <1>0, <1>1 DEF CtorInitMembers
<1>2. CASE DtorSetDone
  BY <1>0, <1>2 DEF DtorSetDone
<1>3. CASE DtorJoin
  BY <1>0, <1>3 DEF DtorJoin
<1>4. ASSUME NEW c \in Clients, ClientCycle(c) PROVE ChildInv'
  BY <1>0, <1>4 DEF ClientCycle, CycleEnter, MayCall
<1>5. ASSUME NEW c \in Clients, ClientPost(c) PROVE ChildInv'
  BY <1>0, <1>5 DEF ClientPost, PushEvent, MayCall
<1>6. ASSUME NEW c \in Clients, Consume(c) PROVE ChildInv'
  BY <1>0, <1>6 DEF Consume
<1>7. ASSUME NEW x \in {"data", "active"}, CycleStore(x) PROVE ChildInv'
  BY <1>0, <1>7 DEF CycleStore
<1>8. CASE CycleLeave
  BY <1>0, <1>8 DEF CycleLeave
<1>9. CASE ChildConstruct
  BY <1>0, <1>9 DEF ChildConstruct
<1>10. CASE ChildConstructDies
  BY <1>0, <1>10 DEF ChildConstructDies
<1>11. CASE ChildSleep
  BY <1>0, <1>11 DEF ChildSleep, WaitPredicate
<1>12. CASE ChildWake
  BY <1>0, <1>12 DEF ChildWake, WaitPredicate
<1>13. CASE ChildCheck
  BY <1>0, <1>13 DEF ChildCheck
<1>14. CASE ChildCycle
  BY <1>0, <1>14 DEF ChildCycle
<1>15. CASE ChildCycleNull
  BY <1>0, <1>15 DEF ChildCycleNull
<1>16. CASE ChildFinish
  BY <1>0, <1>16 DEF ChildFinish
<1>17. CASE ChildCallbackSignal
  BY <1>0, <1>17 DEF ChildCallbackSignal, Signal
<1>18. CASE ChildCallbackPost
  BY <1>0, <1>18 DEF ChildCallbackPost, PushEvent
<1>19. CASE ChildCallbackChain
  BY <1>0, <1>19 DEF ChildCallbackChain, CycleEnter
<1>20. CASE ChildCallbackThrows
  BY <1>0, <1>20 DEF ChildCallbackThrows
<1>21. CASE ChildPop
  BY <1>0, <1>21 DEF ChildPop
<1>22. CASE ChildEvent
  BY <1>0, <1>22 DEF ChildEvent, Signal
<1>23. CASE UNCHANGED vars
  BY <1>0, <1>23 DEF vars
<1> QED
  BY <1>1, <1>2, <1>3, <1>4, <1>5, <1>6, <1>7, <1>8, <1>9, <1>10, <1>11, <1>12, <1>13, <1>14, <1>15, <1>16, <1>17, <1>18, <1>19, <1>20, <1>21, <1>22, <1>23 DEF Next, Running, CycleSection, ChildStep, Terminated

(* Every step keeps who is inside a call. *)
LEMMA CallStep == IInv /\ [Next]_vars => CallInv'
<1> SUFFICES ASSUME IInv, [Next]_vars PROVE CallInv'
  OBVIOUS
<1>0. TypeOK /\ SectionInv /\ ChildInv /\ CallInv /\ Accounted
  BY DEF IInv
<1> USE ConstantsOK DEF ConstantsAssumption, members, child, TypeOK, SectionInv, ChildInv, CallInv, Requests, NoRequest
<1>1. CASE CtorInitMembers
  BY <1>0, <1>1 DEF CtorInitMembers
<1>2. CASE DtorSetDone
  BY <1>0, <1>2 DEF DtorSetDone
<1>3. CASE DtorJoin
  BY <1>0, <1>3 DEF DtorJoin
<1>4. ASSUME NEW c \in Clients, ClientCycle(c) PROVE CallInv'
  BY <1>0, <1>4 DEF ClientCycle, CycleEnter, MayCall
<1>5. ASSUME NEW c \in Clients, ClientPost(c) PROVE CallInv'
  BY <1>0, <1>5 DEF ClientPost, PushEvent, MayCall
<1>6. ASSUME NEW c \in Clients, Consume(c) PROVE CallInv'
  BY <1>0, <1>6 DEF Consume
<1>7. ASSUME NEW x \in {"data", "active"}, CycleStore(x) PROVE CallInv'
  BY <1>0, <1>7 DEF CycleStore
<1>8. CASE CycleLeave
  BY <1>0, <1>8 DEF CycleLeave
<1>9. CASE ChildConstruct
  BY <1>0, <1>9 DEF ChildConstruct
<1>10. CASE ChildConstructDies
  BY <1>0, <1>10 DEF ChildConstructDies
<1>11. CASE ChildSleep
  BY <1>0, <1>11 DEF ChildSleep, WaitPredicate
<1>12. CASE ChildWake
  BY <1>0, <1>12 DEF ChildWake, WaitPredicate
<1>13. CASE ChildCheck
  BY <1>0, <1>13 DEF ChildCheck
<1>14. CASE ChildCycle
  BY <1>0, <1>14 DEF ChildCycle
<1>15. CASE ChildCycleNull
  BY <1>0, <1>15 DEF ChildCycleNull
<1>16. CASE ChildFinish
  BY <1>0, <1>16 DEF ChildFinish
<1>17. CASE ChildCallbackSignal
  BY <1>0, <1>17 DEF ChildCallbackSignal, Signal, Accounted, InCall, Held
<1>18. CASE ChildCallbackPost
  BY <1>0, <1>18 DEF ChildCallbackPost, PushEvent
<1>19. CASE ChildCallbackChain
  BY <1>0, <1>19 DEF ChildCallbackChain, CycleEnter
<1>20. CASE ChildCallbackThrows
  BY <1>0, <1>20 DEF ChildCallbackThrows
<1>21. CASE ChildPop
  BY <1>0, <1>21 DEF ChildPop
<1>22. CASE ChildEvent
  BY <1>0, <1>22 DEF ChildEvent, Signal, Accounted, InCall, Held
<1>23. CASE UNCHANGED vars
  BY <1>0, <1>23 DEF vars
<1> QED
  BY <1>1, <1>2, <1>3, <1>4, <1>5, <1>6, <1>7, <1>8, <1>9, <1>10, <1>11, <1>12, <1>13, <1>14, <1>15, <1>16, <1>17, <1>18, <1>19, <1>20, <1>21, <1>22, <1>23 DEF Next, Running, CycleSection, ChildStep, Terminated

(* No step loses, duplicates or invents a request. *)
LEMMA AccountedStep == IInv /\ [Next]_vars => Accounted'
<1> SUFFICES ASSUME IInv, [Next]_vars PROVE Accounted'
  OBVIOUS
<1>0. TypeOK /\ SectionInv /\ ChildInv /\ CallInv /\ Accounted
  BY DEF IInv
<1> USE ConstantsOK DEF ConstantsAssumption, members, child, TypeOK, SectionInv, ChildInv, CallInv, Requests, NoRequest, Accounted, InCall, InService, Held, Queued, Unsettled
<1>1. CASE CtorInitMembers
  BY <1>0, <1>1 DEF CtorInitMembers
<1>2. CASE DtorSetDone
  BY <1>0, <1>2 DEF DtorSetDone
<1>3. CASE DtorJoin
  BY <1>0, <1>3 DEF DtorJoin
<1>4. ASSUME NEW c \in Clients, ClientCycle(c) PROVE Accounted'
  BY <1>0, <1>4 DEF ClientCycle, CycleEnter, MayCall
<1>5. ASSUME NEW c \in Clients, ClientPost(c) PROVE Accounted'
  BY <1>0, <1>5 DEF ClientPost, PushEvent, MayCall
<1>6. ASSUME NEW c \in Clients, Consume(c) PROVE Accounted'
  BY <1>0, <1>6 DEF Consume
<1>7. ASSUME NEW x \in {"data", "active"}, CycleStore(x) PROVE Accounted'
  BY <1>0, <1>7 DEF CycleStore
<1>8. CASE CycleLeave
  BY <1>0, <1>8 DEF CycleLeave
<1>9. CASE ChildConstruct
  BY <1>0, <1>9 DEF ChildConstruct
<1>10. CASE ChildConstructDies
  BY <1>0, <1>10 DEF ChildConstructDies
<1>11. CASE ChildSleep
  BY <1>0, <1>11 DEF ChildSleep, WaitPredicate
<1>12. CASE ChildWake
  BY <1>0, <1>12 DEF ChildWake, WaitPredicate
<1>13. CASE ChildCheck
  BY <1>0, <1>13 DEF ChildCheck
<1>14. CASE ChildCycle
  BY <1>0, <1>14 DEF ChildCycle
<1>15. CASE ChildCycleNull
  BY <1>0, <1>15 DEF ChildCycleNull
<1>16. CASE ChildFinish
  BY <1>0, <1>16 DEF ChildFinish
<1>17. CASE ChildCallbackSignal
  BY <1>0, <1>17 DEF ChildCallbackSignal, Signal
<1>18. CASE ChildCallbackPost
  BY <1>0, <1>18 DEF ChildCallbackPost, PushEvent
<1>19. CASE ChildCallbackChain
  BY <1>0, <1>19 DEF ChildCallbackChain, CycleEnter
<1>20. CASE ChildCallbackThrows
  BY <1>0, <1>20 DEF ChildCallbackThrows
<1>21. CASE ChildPop
  <2>1. CASE eventQueue = <<>>
    BY <1>0, <1>21, <2>1 DEF ChildPop
  <2>2. CASE eventQueue # <<>>
    <3>1. /\ Head(eventQueue) = eventQueue[1] /\ eventQueue[1] \in Clients
          /\ eventQueue' = Tail(eventQueue)
          /\ Len(eventQueue) \in Nat /\ Len(eventQueue) > 0
          /\ Len(eventQueue') = Len(eventQueue) - 1
          /\ \A i \in 1 .. Len(eventQueue') : eventQueue'[i] = eventQueue[i + 1]
      BY <1>0, <1>21, <2>2 DEF ChildPop
    <3>2. ASSUME NEW c \in Clients
          PROVE  /\ Queued(c) <=> (c = eventQueue[1] \/ Queued(c)')
                 /\ c = eventQueue[1] => ~Queued(c)'
                 /\ \A i, j \in 1 .. Len(eventQueue') :
                      eventQueue'[i] = c /\ eventQueue'[j] = c => i = j
      <4>1. \A i, j \in 1 .. Len(eventQueue) :
              eventQueue[i] = c /\ eventQueue[j] = c => i = j
        BY <1>0
      <4>2. \A i \in 1 .. Len(eventQueue) : i = 1 \/ i - 1 \in 1 .. Len(eventQueue')
        BY <3>1
      <4>3. \A i \in 1 .. Len(eventQueue') : i + 1 \in 1 .. Len(eventQueue) /\ i + 1 # 1
        BY <3>1
      <4>4. 1 \in 1 .. Len(eventQueue)
        BY <3>1
      <4>5. \A i \in 2 .. Len(eventQueue) : eventQueue[i] = eventQueue'[i - 1]
        BY <3>1
      <4>6. Queued(c) => (c = eventQueue[1] \/ Queued(c)')
        BY <4>2, <4>5
      <4>7. Queued(c)' => Queued(c)
        BY <3>1, <4>3
      <4>8. c = eventQueue[1] => Queued(c) /\ ~Queued(c)'
        BY <3>1, <4>1, <4>3, <4>4
      <4>9. ASSUME NEW i \in 1 .. Len(eventQueue'), NEW j \in 1 .. Len(eventQueue'),
                   eventQueue'[i] = c, eventQueue'[j] = c
            PROVE  i = j
        <5>1. i + 1 = j + 1
          BY <3>1, <4>1, <4>3, <4>9
        <5> QED
          BY <5>1
      <4> QED
        BY <4>6, <4>7, <4>8, <4>9
    <3>3. callback' = [client |-> eventQueue[1], kind |-> "signal"]
      BY <1>21, <2>2, <3>1 DEF ChildPop
    <3>4. callback = NoRequest
      BY <1>0, <1>21 DEF ChildPop
    <3> HIDE DEF Queued
    <3> QED
      BY <1>0, <1>21, <2>2, <3>1, <3>2, <3>3, <3>4 DEF ChildPop
  <2> QED
    BY <2>1, <2>2
<1>22. CASE ChildEvent
  BY <1>0, <1>22 DEF ChildEvent, Signal
<1>23. CASE UNCHANGED vars
  BY <1>0, <1>23 DEF vars
<1> QED
  BY <1>1, <1>2, <1>3, <1>4, <1>5, <1>6, <1>7, <1>8, <1>9, <1>10, <1>11, <1>12, <1>13, <1>14, <1>15, <1>16, <1>17, <1>18, <1>19, <1>20, <1>21, <1>22, <1>23 DEF Next, Running, CycleSection, ChildStep, Terminated

(* The strengthened invariant holds in every state the program reaches. *)
LEMMA Inductive == Spec => []IInv
<1>1. Init => IInv
  <2> SUFFICES ASSUME Init PROVE IInv
    OBVIOUS
  <2> USE ConstantsOK DEF ConstantsAssumption, Init, NoRequest
  <2>1. TypeOK
    <3>1. active \in BOOLEAN /\ done \in BOOLEAN /\ asleep \in BOOLEAN /\ aborted \in BOOLEAN
      BY Zenon
    <3>2. eventQueue \in Seq(Clients)
      OBVIOUS
    <3> QED
      BY <3>1, <3>2 DEF TypeOK, Threads, ChildPcs
  <2>2. SectionInv /\ CallInv
    BY DEF SectionInv, CallInv
  <2>3. ChildInv
    BY DEF ChildInv, Requests
  <2>4. Accounted
    <3>1. 1 .. Len(eventQueue) = {}
      OBVIOUS
    <3>2. callback.client = None /\ mutex = None /\ active = FALSE
      OBVIOUS
    <3>3. \A c \in Clients : op[c] = "idle" /\ c # None
      OBVIOUS
    <3> HIDE DEF Init
    <3>4. \A c \in Clients : ~Queued(c)
      BY <3>1 DEF Queued
    <3>5. \A c \in Clients : ~InCall(c) /\ ~InService(c) /\ ~Held(c) /\ ~Unsettled(c)
      BY <3>2, <3>3 DEF InCall, InService, Held, Unsettled
    <3> QED
      BY <3>1, <3>4, <3>5 DEF Accounted
  <2> QED
    BY <2>1, <2>2, <2>3, <2>4 DEF IInv
<1>2. IInv /\ [Next]_vars => IInv'
  BY TypeStep, SectionStep, ChildStepInv, CallStep, AccountedStep DEF IInv
<1> QED
  BY <1>1, <1>2, PTL DEF Spec

(* Every variable keeps its type, for any number of clients. *)
THEOREM TypeCorrect == Spec => []TypeOK
<1>1. IInv => TypeOK
  BY DEF IInv
<1> QED
  BY <1>1, Inductive, PTL

(* Every unsettled request is in exactly one place and every settled one in *)
(* none, for any number of clients and whatever their callbacks do.         *)
THEOREM RequestsAccounted == Spec => []Accounted
<1>1. IInv => Accounted
  BY DEF IInv
<1> QED
  BY <1>1, Inductive, PTL

(* What the child exchanges is what it then completes. *)
RanInv ==
  "stores" \notin adversity =>
    /\ active => "data" \notin stores
    /\ childPc \in {"cycle", "finish"} => running = cycleData

(* As long as the stores of Cycle() become visible in program order, the *)
(* child completes the cycle whose frames it exchanged.                  *)
THEOREM InOrderRuns == Spec => []RanInOrder
<1>1. Init => RanInv
  BY DEF Init, RanInv
<1>2. IInv /\ RanInv /\ [Next]_vars => RanInv'
  <2> SUFFICES ASSUME IInv, RanInv, [Next]_vars PROVE RanInv'
    OBVIOUS
  <2>0. TypeOK /\ SectionInv /\ ChildInv
    BY DEF IInv
  <2> USE DEF TypeOK, SectionInv, ChildInv, RanInv, members, child
  <2>1. CASE CtorInitMembers
    BY <2>0, <2>1 DEF CtorInitMembers
  <2>2. CASE DtorSetDone
    BY <2>0, <2>2 DEF DtorSetDone
  <2>3. CASE DtorJoin
    BY <2>0, <2>3 DEF DtorJoin
  <2>4. ASSUME NEW c \in Clients, ClientCycle(c) PROVE RanInv'
    BY <2>0, <2>4 DEF ClientCycle, CycleEnter, MayCall
  <2>5. ASSUME NEW c \in Clients, ClientPost(c) PROVE RanInv'
    BY <2>0, <2>5 DEF ClientPost, PushEvent, MayCall
  <2>6. ASSUME NEW c \in Clients, Consume(c) PROVE RanInv'
    BY <2>0, <2>6 DEF Consume
  <2>7. ASSUME NEW x \in {"data", "active"}, CycleStore(x) PROVE RanInv'
    BY <2>0, <2>7 DEF CycleStore
  <2>8. CASE CycleLeave
    BY <2>0, <2>8 DEF CycleLeave
  <2>9. CASE ChildConstruct
    BY <2>0, <2>9 DEF ChildConstruct
  <2>10. CASE ChildConstructDies
    BY <2>0, <2>10 DEF ChildConstructDies
  <2>11. CASE ChildSleep
    BY <2>0, <2>11 DEF ChildSleep, WaitPredicate
  <2>12. CASE ChildWake
    BY <2>0, <2>12 DEF ChildWake, WaitPredicate
  <2>13. CASE ChildCheck
    BY <2>0, <2>13 DEF ChildCheck
  <2>14. CASE ChildCycle
    BY <2>0, <2>14 DEF ChildCycle
  <2>15. CASE ChildCycleNull
    BY <2>0, <2>15 DEF ChildCycleNull
  <2>16. CASE ChildFinish
    BY <2>0, <2>16 DEF ChildFinish
  <2>17. CASE ChildCallbackSignal
    BY <2>0, <2>17 DEF ChildCallbackSignal, Signal
  <2>18. CASE ChildCallbackPost
    BY <2>0, <2>18 DEF ChildCallbackPost, PushEvent
  <2>19. CASE ChildCallbackChain
    BY <2>0, <2>19 DEF ChildCallbackChain, CycleEnter
  <2>20. CASE ChildCallbackThrows
    BY <2>0, <2>20 DEF ChildCallbackThrows
  <2>21. CASE ChildPop
    BY <2>0, <2>21 DEF ChildPop
  <2>22. CASE ChildEvent
    BY <2>0, <2>22 DEF ChildEvent, Signal
  <2>23. CASE UNCHANGED vars
    BY <2>0, <2>23 DEF vars
  <2> QED
    BY <2>1, <2>2, <2>3, <2>4, <2>5, <2>6, <2>7, <2>8, <2>9, <2>10, <2>11, <2>12, <2>13, <2>14, <2>15, <2>16, <2>17, <2>18, <2>19, <2>20, <2>21, <2>22, <2>23 DEF Next, Running, CycleSection, ChildStep, Terminated
<1>3. RanInv => RanInOrder
  BY DEF RanInv, RanInOrder, RanAsRequested
<1> QED
  BY <1>1, <1>2, <1>3, Inductive, PTL DEF Spec

(* Until its flush cycle is answered the constructor is alone with the     *)
(* child: nothing is posted, no cycle but the flush runs, and a child that *)
(* has lost its hat gets no further than that cycle.                       *)
Constructing ==
  /\ ownerPc = "init" => /\ childPc \in {"start", "wait"} /\ ~active
                         /\ mutex = None /\ op[Owner] = "idle" /\ eventQueue = <<>>
  /\ ownerPc = "flush" /\ hat # "open" =>
       /\ childPc \in {"start", "wait", "cycle"} \/ (childPc = "check" /\ active)
       /\ op[Owner] # "signalled" /\ eventQueue = <<>>
  /\ LiveHasHat

(* The transport a constructor returns has its hat for good, whatever the  *)
(* race of its thread with the initialiser of pi3hat_ does.                *)
THEOREM HatOpen == Spec => []LiveHasHat
<1>1. Init => Constructing
  BY ConstantsOK DEF ConstantsAssumption, Init, Constructing, LiveHasHat
<1>2. IInv /\ Constructing /\ [Next]_vars => Constructing'
  <2> SUFFICES ASSUME IInv, Constructing, [Next]_vars PROVE Constructing'
    OBVIOUS
  <2>0. TypeOK /\ SectionInv /\ ChildInv /\ CallInv
    BY DEF IInv
  <2> USE ConstantsOK, <2>0 DEF ConstantsAssumption, members, child, Constructing, LiveHasHat, TypeOK, SectionInv, ChildInv, CallInv, Requests, NoRequest
  <2>1. CASE CtorInitMembers
    BY <2>1 DEF CtorInitMembers
  <2>2. CASE DtorSetDone
    BY <2>2 DEF DtorSetDone
  <2>3. CASE DtorJoin
    BY <2>3 DEF DtorJoin
  <2>4. ASSUME NEW c \in Clients, ClientCycle(c) PROVE Constructing'
    BY <2>4 DEF ClientCycle, CycleEnter, MayCall
  <2>5. ASSUME NEW c \in Clients, ClientPost(c) PROVE Constructing'
    BY <2>5 DEF ClientPost, PushEvent, MayCall
  <2>6. ASSUME NEW c \in Clients, Consume(c) PROVE Constructing'
    BY <2>6 DEF Consume
  <2>7. ASSUME NEW x \in {"data", "active"}, CycleStore(x) PROVE Constructing'
    BY <2>7 DEF CycleStore
  <2>8. CASE CycleLeave
    BY <2>8 DEF CycleLeave
  <2>9. CASE ChildConstruct
    BY <2>9 DEF ChildConstruct
  <2>10. CASE ChildConstructDies
    BY <2>10 DEF ChildConstructDies
  <2>11. CASE ChildSleep
    BY <2>11 DEF ChildSleep, WaitPredicate
  <2>12. CASE ChildWake
    BY <2>12 DEF ChildWake, WaitPredicate
  <2>13. CASE ChildCheck
    BY <2>13 DEF ChildCheck
  <2>14. CASE ChildCycle
    BY <2>14 DEF ChildCycle
  <2>15. CASE ChildCycleNull
    BY <2>15 DEF ChildCycleNull
  <2>16. CASE ChildFinish
    BY <2>16 DEF ChildFinish
  <2>17. CASE ChildCallbackSignal
    BY <2>17 DEF ChildCallbackSignal, Signal
  <2>18. CASE ChildCallbackPost
    BY <2>18 DEF ChildCallbackPost, PushEvent
  <2>19. CASE ChildCallbackChain
    BY <2>19 DEF ChildCallbackChain, CycleEnter
  <2>20. CASE ChildCallbackThrows
    BY <2>20 DEF ChildCallbackThrows
  <2>21. CASE ChildPop
    BY <2>21 DEF ChildPop
  <2>22. CASE ChildEvent
    BY <2>22 DEF ChildEvent, Signal
  <2>23. CASE UNCHANGED vars
    BY <2>23 DEF vars
  <2> QED
    BY <2>1, <2>2, <2>3, <2>4, <2>5, <2>6, <2>7, <2>8, <2>9, <2>10, <2>11, <2>12, <2>13, <2>14, <2>15, <2>16, <2>17, <2>18, <2>19, <2>20, <2>21, <2>22, <2>23 DEF Next, Running, CycleSection, ChildStep, Terminated
<1>3. Constructing => LiveHasHat
  BY DEF Constructing
<1> QED
  BY <1>1, <1>2, <1>3, Inductive, PTL DEF Spec

(* Every step of a transport thread is a step of the abstract service. *)
LEMMA ServiceStep == IInv /\ [Next]_vars => Service!Next \/ UNCHANGED Service!vars
<1> DEFINE Goal == Service!Next \/ UNCHANGED Service!vars
<1> SUFFICES ASSUME IInv, [Next]_vars PROVE Goal
  OBVIOUS
<1>0. TypeOK /\ SectionInv /\ ChildInv /\ CallInv /\ Accounted
  BY DEF IInv
<1> USE ConstantsOK DEF ConstantsAssumption, members, child
(* Nothing the service knows of has changed, or only that it is closed. *)
<1>a. OpView' = OpView /\ BusyView' = BusyView /\ (ClosedView' = ClosedView \/ ClosedView' = TRUE)
      => Goal
  BY DEF Service!Next, Service!Close, Service!vars
<1>b. ASSUME NEW c \in Clients, NEW v, op' = [op EXCEPT ![c] = v]
      PROVE  OpView' = [OpView EXCEPT ![c] =
                          CASE v \in {"idle", "issuing"}    -> "idle"
                            [] v \in {"blocked", "pending"} -> "outstanding"
                            [] OTHER                        -> "signalled"]
  BY <1>0, <1>b DEF OpView, TypeOK
<1>1. CASE CtorInitMembers
  <2>1. OpView' = OpView
    BY <1>0, <1>1 DEF CtorInitMembers, TypeOK, SectionInv, ChildInv, CallInv, OpView
  <2>2. BusyView' = BusyView
    BY <1>0, <1>1 DEF CtorInitMembers, TypeOK, SectionInv, ChildInv, CallInv, BusyView
  <2>3. ClosedView' = ClosedView \/ ClosedView' = TRUE
    BY <1>0, <1>1 DEF CtorInitMembers, TypeOK, SectionInv, ChildInv, CallInv, ClosedView
  <2> QED
    BY <2>1, <2>2, <2>3, <1>a
<1>2. CASE DtorSetDone
  <2>1. OpView' = OpView
    BY <1>0, <1>2 DEF DtorSetDone, TypeOK, SectionInv, ChildInv, CallInv, OpView
  <2>2. BusyView' = BusyView
    BY <1>0, <1>2 DEF DtorSetDone, TypeOK, SectionInv, ChildInv, CallInv, BusyView
  <2>3. ClosedView' = ClosedView \/ ClosedView' = TRUE
    BY <1>0, <1>2 DEF DtorSetDone, TypeOK, SectionInv, ChildInv, CallInv, ClosedView
  <2> QED
    BY <2>1, <2>2, <2>3, <1>a
<1>3. CASE DtorJoin
  <2>1. OpView' = OpView
    BY <1>0, <1>3 DEF DtorJoin, TypeOK, SectionInv, ChildInv, CallInv, OpView
  <2>2. BusyView' = BusyView
    BY <1>0, <1>3 DEF DtorJoin, TypeOK, SectionInv, ChildInv, CallInv, BusyView
  <2>3. ClosedView' = ClosedView \/ ClosedView' = TRUE
    BY <1>0, <1>3 DEF DtorJoin, TypeOK, SectionInv, ChildInv, CallInv, ClosedView
  <2> QED
    BY <2>1, <2>2, <2>3, <1>a
<1>4. ASSUME NEW c \in Clients, ClientCycle(c) PROVE Goal
  <2>1. OpView' = OpView
    BY <1>0, <1>4 DEF ClientCycle, CycleEnter, MayCall, TypeOK, SectionInv, ChildInv, CallInv, OpView
  <2>2. BusyView' = BusyView
    BY <1>0, <1>4 DEF ClientCycle, CycleEnter, MayCall, TypeOK, SectionInv, ChildInv, CallInv, BusyView
  <2>3. ClosedView' = ClosedView \/ ClosedView' = TRUE
    BY <1>0, <1>4 DEF ClientCycle, CycleEnter, MayCall, TypeOK, SectionInv, ChildInv, CallInv, ClosedView
  <2> QED
    BY <2>1, <2>2, <2>3, <1>a
<1>5. ASSUME NEW c \in Clients, ClientPost(c) PROVE Goal
  <2>1. OpView' = [OpView EXCEPT ![c] = "outstanding"]
    BY <1>b, <1>5 DEF ClientPost
  <2>2. OpView[c] = "idle"
    BY <1>5 DEF ClientPost, OpView
  <2>3. BusyView' = BusyView
    BY <1>5 DEF ClientPost, PushEvent, BusyView
  <2>4. ~ClosedView /\ ClosedView' = ClosedView
    BY <1>0, <1>5 DEF ClientPost, CallInv, ClosedView
  <2>5. Service!Schedule(c)
    BY <2>1, <2>2, <2>3, <2>4 DEF Service!Schedule
  <2> QED
    BY <2>5 DEF Service!Next
<1>6. ASSUME NEW c \in Clients, Consume(c) PROVE Goal
  <2>1. OpView' = [OpView EXCEPT ![c] = "idle"]
    BY <1>b, <1>6 DEF Consume
  <2>2. OpView[c] = "signalled"
    BY <1>6 DEF Consume, OpView
  <2>3. BusyView' = BusyView /\ ClosedView' = ClosedView
    BY <1>6 DEF Consume, BusyView, ClosedView
  <2>4. Service!Consume(c)
    BY <2>1, <2>2, <2>3 DEF Service!Consume
  <2> QED
    BY <2>4 DEF Service!Next
<1>7. ASSUME NEW x \in {"data", "active"}, CycleStore(x) PROVE Goal
  <2>1. OpView' = OpView
    BY <1>0, <1>7 DEF CycleStore, TypeOK, SectionInv, ChildInv, CallInv, OpView
  <2>2. BusyView' = BusyView
    BY <1>0, <1>7 DEF CycleStore, TypeOK, SectionInv, ChildInv, CallInv, BusyView
  <2>3. ClosedView' = ClosedView \/ ClosedView' = TRUE
    BY <1>0, <1>7 DEF CycleStore, TypeOK, SectionInv, ChildInv, CallInv, ClosedView
  <2> QED
    BY <2>1, <2>2, <2>3, <1>a
<1>8. CASE CycleLeave
  <2>1. PICK c \in Clients : c = request.client
    BY <1>0, <1>8 DEF CycleLeave, SectionInv, Requests
  <2>2. BusyView = None /\ BusyView' = c
    BY <1>0, <1>8, <2>1 DEF CycleLeave, SectionInv, BusyView
  <2>3. CASE mutex = Child
    <3>1. OpView' = OpView
      BY <1>8, <2>3 DEF CycleLeave, OpView
    <3>2. OpView[c] = "outstanding"
      BY <1>0, <1>8, <2>1, <2>3 DEF CycleLeave, OpView, TypeOK, CallInv, Accounted, InCall, Unsettled
    <3>3. ~ClosedView /\ ClosedView' = ClosedView
      BY <1>0, <1>8, <2>3 DEF CycleLeave, SectionInv, ClosedView
    <3>4. Service!Continue(c)
      BY <2>2, <3>1, <3>2, <3>3 DEF Service!Continue
    <3> QED
      BY <3>4 DEF Service!Next
  <2>4. CASE mutex # Child
    <3>0. mutex = c /\ mutex \in Clients
      BY <1>0, <1>8, <2>1, <2>4 DEF CycleLeave, TypeOK, CallInv, Threads
    <3>1. OpView' = [OpView EXCEPT ![c] = "outstanding"]
      <4>1. CASE op' = [op EXCEPT ![c] = "blocked"]
        BY <1>b, <4>1
      <4>2. CASE op' = [op EXCEPT ![c] = "pending"]
        BY <1>b, <4>2
      <4> QED
        BY <1>8, <2>1, <2>4, <4>1, <4>2 DEF CycleLeave
    <3>2. OpView[c] = "idle"
      BY <1>0, <3>0 DEF OpView, CallInv
    <3>3. ~ClosedView /\ ClosedView' = ClosedView
      BY <1>0, <1>8, <2>4, <3>0 DEF CycleLeave, CallInv, ClosedView
    <3>4. Service!Accept(c)
      BY <2>2, <3>1, <3>2, <3>3 DEF Service!Accept
    <3> QED
      BY <3>4 DEF Service!Next
  <2> QED
    BY <2>3, <2>4
<1>9. CASE ChildConstruct
  <2>1. OpView' = OpView
    BY <1>0, <1>9 DEF ChildConstruct, TypeOK, SectionInv, ChildInv, CallInv, OpView
  <2>2. BusyView' = BusyView
    BY <1>0, <1>9 DEF ChildConstruct, TypeOK, SectionInv, ChildInv, CallInv, BusyView
  <2>3. ClosedView' = ClosedView \/ ClosedView' = TRUE
    BY <1>0, <1>9 DEF ChildConstruct, TypeOK, SectionInv, ChildInv, CallInv, ClosedView
  <2> QED
    BY <2>1, <2>2, <2>3, <1>a
<1>10. CASE ChildConstructDies
  <2>1. OpView' = OpView
    BY <1>0, <1>10 DEF ChildConstructDies, TypeOK, SectionInv, ChildInv, CallInv, OpView
  <2>2. BusyView' = BusyView
    BY <1>0, <1>10 DEF ChildConstructDies, TypeOK, SectionInv, ChildInv, CallInv, BusyView
  <2>3. ClosedView' = ClosedView \/ ClosedView' = TRUE
    BY <1>0, <1>10 DEF ChildConstructDies, TypeOK, SectionInv, ChildInv, CallInv, ClosedView
  <2> QED
    BY <2>1, <2>2, <2>3, <1>a
<1>11. CASE ChildSleep
  <2>1. OpView' = OpView
    BY <1>0, <1>11 DEF ChildSleep, WaitPredicate, TypeOK, SectionInv, ChildInv, CallInv, OpView
  <2>2. BusyView' = BusyView
    BY <1>0, <1>11 DEF ChildSleep, WaitPredicate, TypeOK, SectionInv, ChildInv, CallInv, BusyView
  <2>3. ClosedView' = ClosedView \/ ClosedView' = TRUE
    BY <1>0, <1>11 DEF ChildSleep, WaitPredicate, TypeOK, SectionInv, ChildInv, CallInv, ClosedView
  <2> QED
    BY <2>1, <2>2, <2>3, <1>a
<1>12. CASE ChildWake
  <2>1. OpView' = OpView
    BY <1>0, <1>12 DEF ChildWake, WaitPredicate, TypeOK, SectionInv, ChildInv, CallInv, OpView
  <2>2. BusyView' = BusyView
    BY <1>0, <1>12 DEF ChildWake, WaitPredicate, TypeOK, SectionInv, ChildInv, CallInv, BusyView
  <2>3. ClosedView' = ClosedView \/ ClosedView' = TRUE
    BY <1>0, <1>12 DEF ChildWake, WaitPredicate, TypeOK, SectionInv, ChildInv, CallInv, ClosedView
  <2> QED
    BY <2>1, <2>2, <2>3, <1>a
<1>13. CASE ChildCheck
  <2>1. OpView' = OpView
    BY <1>0, <1>13 DEF ChildCheck, TypeOK, SectionInv, ChildInv, CallInv, OpView
  <2>2. BusyView' = BusyView
    BY <1>0, <1>13 DEF ChildCheck, TypeOK, SectionInv, ChildInv, CallInv, BusyView
  <2>3. ClosedView' = ClosedView \/ ClosedView' = TRUE
    BY <1>0, <1>13 DEF ChildCheck, TypeOK, SectionInv, ChildInv, CallInv, ClosedView
  <2> QED
    BY <2>1, <2>2, <2>3, <1>a
<1>14. CASE ChildCycle
  <2>1. OpView' = OpView
    BY <1>0, <1>14 DEF ChildCycle, TypeOK, SectionInv, ChildInv, CallInv, OpView
  <2>2. BusyView' = BusyView
    BY <1>0, <1>14 DEF ChildCycle, TypeOK, SectionInv, ChildInv, CallInv, BusyView
  <2>3. ClosedView' = ClosedView \/ ClosedView' = TRUE
    BY <1>0, <1>14 DEF ChildCycle, TypeOK, SectionInv, ChildInv, CallInv, ClosedView
  <2> QED
    BY <2>1, <2>2, <2>3, <1>a
<1>15. CASE ChildCycleNull
  <2>1. OpView' = OpView
    BY <1>0, <1>15 DEF ChildCycleNull, TypeOK, SectionInv, ChildInv, CallInv, OpView
  <2>2. BusyView' = BusyView
    BY <1>0, <1>15 DEF ChildCycleNull, TypeOK, SectionInv, ChildInv, CallInv, BusyView
  <2>3. ClosedView' = ClosedView \/ ClosedView' = TRUE
    BY <1>0, <1>15 DEF ChildCycleNull, TypeOK, SectionInv, ChildInv, CallInv, ClosedView
  <2> QED
    BY <2>1, <2>2, <2>3, <1>a
<1>16. CASE ChildFinish
  <2>1. OpView' = OpView /\ ClosedView' = ClosedView
    BY <1>16 DEF ChildFinish, OpView, ClosedView
  <2>2. BusyView # None /\ BusyView' = None
    BY <1>0, <1>16 DEF ChildFinish, SectionInv, ChildInv, Requests, BusyView
  <2> QED
    BY <2>1, <2>2 DEF Service!Next, Service!Exchanged
<1>17. CASE ChildCallbackSignal
  <2>1. PICK c \in Clients : c = callback.client
    BY <1>0, <1>17 DEF ChildCallbackSignal, ChildInv, Requests
  <2>2. OpView' = [OpView EXCEPT ![c] = "signalled"]
    BY <1>b, <1>17, <2>1 DEF ChildCallbackSignal, Signal
  <2>3. OpView[c] = "outstanding" /\ BusyView # c
    BY <1>0, <1>17, <2>1 DEF ChildCallbackSignal, OpView, BusyView, TypeOK, CallInv, Accounted, Held, InCall, InService, Unsettled
  <2>4. ~ClosedView /\ ClosedView' = ClosedView /\ BusyView' = BusyView
    BY <1>17 DEF ChildCallbackSignal, ClosedView, BusyView
  <2>5. Service!Complete(c)
    BY <2>2, <2>3, <2>4 DEF Service!Complete
  <2> QED
    BY <2>5 DEF Service!Next
<1>18. CASE ChildCallbackPost
  <2>1. OpView' = OpView
    BY <1>0, <1>18 DEF ChildCallbackPost, PushEvent, TypeOK, SectionInv, ChildInv, CallInv, OpView
  <2>2. BusyView' = BusyView
    BY <1>0, <1>18 DEF ChildCallbackPost, PushEvent, TypeOK, SectionInv, ChildInv, CallInv, BusyView
  <2>3. ClosedView' = ClosedView \/ ClosedView' = TRUE
    BY <1>0, <1>18 DEF ChildCallbackPost, PushEvent, TypeOK, SectionInv, ChildInv, CallInv, ClosedView
  <2> QED
    BY <2>1, <2>2, <2>3, <1>a
<1>19. CASE ChildCallbackChain
  <2>1. OpView' = OpView
    BY <1>0, <1>19 DEF ChildCallbackChain, CycleEnter, TypeOK, SectionInv, ChildInv, CallInv, OpView
  <2>2. BusyView' = BusyView
    BY <1>0, <1>19 DEF ChildCallbackChain, CycleEnter, TypeOK, SectionInv, ChildInv, CallInv, BusyView
  <2>3. ClosedView' = ClosedView \/ ClosedView' = TRUE
    BY <1>0, <1>19 DEF ChildCallbackChain, CycleEnter, TypeOK, SectionInv, ChildInv, CallInv, ClosedView
  <2> QED
    BY <2>1, <2>2, <2>3, <1>a
<1>20. CASE ChildCallbackThrows
  <2>1. OpView' = OpView
    BY <1>0, <1>20 DEF ChildCallbackThrows, TypeOK, SectionInv, ChildInv, CallInv, OpView
  <2>2. BusyView' = BusyView
    BY <1>0, <1>20 DEF ChildCallbackThrows, TypeOK, SectionInv, ChildInv, CallInv, BusyView
  <2>3. ClosedView' = ClosedView \/ ClosedView' = TRUE
    BY <1>0, <1>20 DEF ChildCallbackThrows, TypeOK, SectionInv, ChildInv, CallInv, ClosedView
  <2> QED
    BY <2>1, <2>2, <2>3, <1>a
<1>21. CASE ChildPop
  <2>1. OpView' = OpView
    BY <1>0, <1>21 DEF ChildPop, TypeOK, SectionInv, ChildInv, CallInv, OpView
  <2>2. BusyView' = BusyView
    BY <1>0, <1>21 DEF ChildPop, TypeOK, SectionInv, ChildInv, CallInv, BusyView
  <2>3. ClosedView' = ClosedView \/ ClosedView' = TRUE
    BY <1>0, <1>21 DEF ChildPop, TypeOK, SectionInv, ChildInv, CallInv, ClosedView
  <2> QED
    BY <2>1, <2>2, <2>3, <1>a
<1>22. CASE ChildEvent
  <2>1. PICK c \in Clients : c = callback.client
    BY <1>0, <1>22 DEF ChildEvent, ChildInv, Requests
  <2>2. OpView' = [OpView EXCEPT ![c] = "signalled"]
    BY <1>b, <1>22, <2>1 DEF ChildEvent, Signal
  <2>3. OpView[c] = "outstanding" /\ BusyView # c
    BY <1>0, <1>22, <2>1 DEF ChildEvent, OpView, BusyView, TypeOK, CallInv, Accounted, Held, InCall, InService, Unsettled
  <2>4. ~ClosedView /\ ClosedView' = ClosedView /\ BusyView' = BusyView
    BY <1>22 DEF ChildEvent, ClosedView, BusyView
  <2>5. Service!Complete(c)
    BY <2>2, <2>3, <2>4 DEF Service!Complete
  <2> QED
    BY <2>5 DEF Service!Next
<1>23. CASE UNCHANGED vars
  <2>1. OpView' = OpView /\ BusyView' = BusyView /\ ClosedView' = ClosedView
    BY <1>23 DEF vars, OpView, BusyView, ClosedView
  <2> QED
    BY <2>1, <1>a
<1> QED
  BY <1>1, <1>2, <1>3, <1>4, <1>5, <1>6, <1>7, <1>8, <1>9, <1>10, <1>11, <1>12, <1>13, <1>14, <1>15, <1>16, <1>17, <1>18, <1>19, <1>20, <1>21, <1>22, <1>23 DEF Next, Running, CycleSection, ChildStep, Terminated

(* The transport thread implements the abstract service, for any number of *)
(* clients and under every adversity.                                      *)
THEOREM Implements == Spec => ImplementsService
<1>1. Init => Service!Init
  BY ConstantsOK DEF ConstantsAssumption, Init, Service!Init, OpView, BusyView, ClosedView
<1>2. IInv /\ [Next]_vars => [Service!Next]_Service!vars
  BY ServiceStep
<1> QED
  BY <1>1, <1>2, Inductive, PTL DEF Spec, ImplementsService, Service!Spec
=============================================================================

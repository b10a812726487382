--------------------------- MODULE CtlBridgeProofs ---------------------------
(***************************************************************************)
(* The safety of the bridge for any number of readers, slots, units and    *)
(* calls and any width of the counter: slots are owned, no wakeup is lost, *)
(* and a reply never reaches another call.                                 *)
(*                                                                         *)
(* ReplyMatchesCall is not inductive by itself.  It needs the slots to be  *)
(* owned, their numbers to be distinct, and every request on its way to    *)
(* the daemon or back to carry the number of the call it was made for, or  *)
(* a number nobody waits for any more.                                     *)
(***************************************************************************)
EXTENDS CtlBridge, TLAPS

\* The call holds a slot.
Holds(r) == pc[r] \notin {"idle", "entry"}

\* The request is in the socket of a daemon or a daemon works on it.
InFlight(q) ==
    \E u \in Units : busy[u] = q \/ \E k \in 1 .. Len(queue[u]) : queue[u][k] = q

\* A reader without a call in progress has no slot.
IdleHasNone == \A r \in Readers : ~Holds(r) => slot[r] = None

\* No two slots in use wait for the same number.
SeqsDistinct ==
    \A i, j \in Slots : inUse[i] /\ inUse[j] /\ slotSeq[i] = slotSeq[j] => i = j

\* A request whose number a call waits for was made for that call.
RequestsMatch ==
    \A q \in Request : InFlight(q) =>
        \A r \in Readers : Holds(r) /\ slotSeq[slot[r]] = q.seq => q.call = ThisCall(r)

\* What is in the buffer of a slot is the answer to the call that holds it.
BuffersMatch ==
    \A r \in Readers :
        Holds(r) /\ slotBuf[slot[r]] # None => slotBuf[slot[r]] = ThisCall(r)

\* A call in progress was counted.
CallsCounted == \A r \in Readers : pc[r] # "idle" => count[r] > 0

Owned == SlotOwnership /\ IdleHasNone /\ SeqsDistinct /\ RequestsMatch

IInv ==
    TypeOK /\ Owned /\ BuffersMatch /\ ReplyMatchesCall /\ NoLostWakeup /\ CallsCounted

\* ++g_ctl_seq stays within the width of the counter.
LEMMA NextSeqType == seq \in 0 .. (SeqMod - 1) => NextSeq \in 0 .. (SeqMod - 1)
BY SeqAssumption DEF NextSeq

\* Nothing is in flight and no slot is in use when the control is registered.
LEMMA InitIInv == Init => IInv
<1> SUFFICES ASSUME Init PROVE IInv
  OBVIOUS
<1>1. TypeOK
  <2>1. seq \in 0 .. (SeqMod - 1) /\ 0 \in 0 .. (SeqMod - 1) /\ 0 \in 0 .. MaxCalls
    BY SeqAssumption, BoundsAssumption DEF Init
  <2>2. queue \in [Units -> Seq(Request)]
    BY DEF Init
  <2>3. /\ connected \in BOOLEAN /\ unit \in Units \union {None}
        /\ inUse \in [Slots -> BOOLEAN] /\ done \in [Slots -> BOOLEAN]
    BY Zenon DEF Init
  <2>4. /\ slotSeq \in [Slots -> 0 .. (SeqMod - 1)] /\ mySeq \in [Readers -> 0 .. (SeqMod - 1)]
        /\ count \in [Readers -> 0 .. MaxCalls]
    BY <2>1, Zenon DEF Init
  <2> QED
    BY <2>1, <2>2, <2>3, <2>4, Zenon DEF Init, TypeOK, Failures, Locations
<1>2. Owned
  <2>1. \A q \in Request : ~InFlight(q)
    <3> SUFFICES ASSUME NEW q \in Request, NEW u \in Units PROVE busy[u] # q /\ Len(queue[u]) = 0
      BY DEF InFlight
    <3> QED
      BY NoneAssumption DEF Init
  <2> QED
    BY <2>1 DEF Init, Owned, SlotOwnership, IdleHasNone, SeqsDistinct, RequestsMatch, Holds
<1>3. BuffersMatch /\ ReplyMatchesCall /\ NoLostWakeup /\ CallsCounted
  BY DEF Init, BuffersMatch, ReplyMatchesCall, NoLostWakeup, CallsCounted, Holds
<1> QED
  BY <1>1, <1>2, <1>3 DEF IInv

\* Ownership only depends on who holds which slot under which number: a step that
\* leaves that alone, and puts no request in flight, keeps it.
LEMMA OwnedFrame ==
    ASSUME IInv,
           UNCHANGED <<inUse, slotSeq, slot, mySeq>>,
           \A r \in Readers : (Holds(r)' <=> Holds(r)) /\ (Holds(r) => count'[r] = count[r]),
           \A q \in Request : InFlight(q)' => InFlight(q)
    PROVE  Owned'
<1>1. SlotOwnership'
  <2>1. SlotOwnership
    BY DEF IInv, Owned
  <2> QED
    BY <2>1 DEF SlotOwnership, Holds
<1>2. IdleHasNone' /\ SeqsDistinct'
  BY DEF IInv, Owned, IdleHasNone, SeqsDistinct
<1>3. RequestsMatch'
  BY DEF IInv, Owned, RequestsMatch, ThisCall
<1> QED
  BY <1>1, <1>2, <1>3 DEF Owned

\* The steps of a call that only move it or set what it returns.
LEMMA MoveIInv ==
    ASSUME NEW r \in Readers,
           IInv,
           Call(r) \/ CallUnconnected(r) \/ NoSlot(r) \/ EnqueueFail(r) \/ Sleep(r)
             \/ Expire(r) \/ Collect(r) \/ GiveUp(r)
    PROVE  IInv'
<1> DEFINE Moves ==
      /\ UNCHANGED <<connected, unit, seq, slotVars, daemonVars, slot, mySeq, myUnit>>
      /\ \A s \in Readers \ {r} : /\ pc'[s] = pc[s] /\ count'[s] = count[s]
                                 /\ error'[s] = error[s] /\ answer'[s] = answer[s]
      /\ pc' \in [Readers -> Locations] /\ count' \in [Readers -> 0 .. MaxCalls]
      /\ error' \in [Readers -> Failures \union {"none"}]
      /\ answer' \in [Readers -> Calls \union {None}]
      /\ (Holds(r)' <=> Holds(r)) /\ (Holds(r) => count'[r] = count[r])
      /\ answer'[r] # None => answer'[r] = ThisCall(r)'
      /\ pc'[r] = "asleep" => ~done[slot[r]]
      /\ pc'[r] # "idle" => count'[r] > 0
<1>0. TypeOK /\ (pc[r] # "idle" => count[r] > 0)
  BY DEF IInv, CallsCounted
<1>5. Moves
  <2>1. CASE Call(r) \/ CallUnconnected(r)
    <3>1. count[r] + 1 \in 0 .. MaxCalls
      BY <1>0, <2>1, BoundsAssumption DEF TypeOK, Call, CallUnconnected
    <3>2. CASE Call(r)
      BY <1>0, <3>1, <3>2 DEF TypeOK, Call, Goto, Returns, Locations, Failures, Holds
    <3>3. CASE CallUnconnected(r)
      BY <1>0, <3>1, <3>3 DEF TypeOK, CallUnconnected, Returns, Failures, Holds
    <3> QED
      BY <2>1, <3>2, <3>3
  <2>2. CASE NoSlot(r) \/ EnqueueFail(r) \/ GiveUp(r)
    <3>1. CASE NoSlot(r)
      BY <1>0, <3>1 DEF TypeOK, NoSlot, Goto, Returns, Locations, Failures, Holds
    <3>2. CASE EnqueueFail(r)
      BY <1>0, <3>2 DEF TypeOK, EnqueueFail, Goto, Returns, Locations, Failures, Holds
    <3>3. CASE GiveUp(r)
      BY <1>0, <3>3 DEF TypeOK, GiveUp, Goto, Returns, Locations, Failures, Holds
    <3> QED
      BY <2>2, <3>1, <3>2, <3>3
  <2>3. CASE Sleep(r) \/ Expire(r)
    BY <1>0, <2>3
    DEF IInv, TypeOK, Sleep, Expire, Goto, Locations, Holds, ReplyMatchesCall, ThisCall
  <2>4. CASE Collect(r)
    <3>1. slot[r] \in Slots /\ Holds(r)
      BY <2>4 DEF Collect, IInv, Owned, SlotOwnership, Holds
    <3>2. slotBuf[slot[r]] # None => slotBuf[slot[r]] = ThisCall(r)
      BY <3>1 DEF IInv, BuffersMatch
    <3>3. slotBuf[slot[r]] \in Calls \union {None} /\ slotErr[slot[r]] \in Failures \union {"none"}
      BY <1>0, <3>1 DEF TypeOK
    <3> QED
      BY <1>0, <2>4, <3>1, <3>2, <3>3
      DEF TypeOK, Collect, Goto, Returns, Locations, Holds, ThisCall
  <2> QED
    BY <2>1, <2>2, <2>3, <2>4
<1>6. Owned'
  <2>1. \A q \in Request : InFlight(q)' => InFlight(q)
    BY <1>5 DEF InFlight, daemonVars
  <2>2. \A s \in Readers : (Holds(s)' <=> Holds(s)) /\ (Holds(s) => count'[s] = count[s])
    BY <1>5 DEF Holds
  <2>3. UNCHANGED <<inUse, slotSeq, slot, mySeq>>
    BY <1>5 DEF slotVars
  <2> QED
    BY <2>1, <2>2, <2>3, OwnedFrame
<1>7. TypeOK'
  BY <1>0, <1>5 DEF TypeOK, slotVars, daemonVars
<1>8. BuffersMatch'
  BY <1>5, SMTT(30) DEF IInv, BuffersMatch, Holds, ThisCall, slotVars
<1>9. ReplyMatchesCall'
  BY <1>5 DEF IInv, ReplyMatchesCall, ThisCall
<1>10. NoLostWakeup' /\ CallsCounted'
  BY <1>5 DEF IInv, NoLostWakeup, CallsCounted, slotVars
<1> QED
  BY <1>6, <1>7, <1>8, <1>9, <1>10 DEF IInv

\* A free slot is taken under a number that nothing in flight carries.
LEMMA TakeSlotIInv == ASSUME NEW r \in Readers, IInv, TakeSlot(r) PROVE IInv'
<1>0. TypeOK /\ NextSeq \in 0 .. (SeqMod - 1)
  BY NextSeqType DEF IInv, TypeOK
<1>1. PICK i \in Slots :
        /\ ~inUse[i]
        /\ inUse' = [inUse EXCEPT ![i] = TRUE]
        /\ done' = [done EXCEPT ![i] = FALSE]
        /\ slotSeq' = [slotSeq EXCEPT ![i] = NextSeq]
        /\ slotErr' = [slotErr EXCEPT ![i] = "none"]
        /\ slotBuf' = [slotBuf EXCEPT ![i] = None]
        /\ slot' = [slot EXCEPT ![r] = i]
  BY DEF TakeSlot, FreeSlot
<1>2. /\ pc[r] = "entry" /\ pc' = [pc EXCEPT ![r] = "send"]
      /\ seq' = NextSeq /\ mySeq' = [mySeq EXCEPT ![r] = NextSeq]
      /\ myUnit' = [myUnit EXCEPT ![r] = unit]
      /\ UNCHANGED <<connected, unit, link, queue, busy, count, error, answer>>
  BY DEF TakeSlot, Goto, daemonVars
<1>3. TypeOK'
  BY <1>0, <1>1, <1>2 DEF TypeOK, Locations
<1>4. /\ \A s \in Readers \ {r} : slot'[s] = slot[s] /\ pc'[s] = pc[s] /\ mySeq'[s] = mySeq[s]
      /\ slot'[r] = i /\ pc'[r] = "send" /\ mySeq'[r] = NextSeq
  BY <1>0, <1>1, <1>2 DEF TypeOK
<1>5. /\ \A j \in Slots \ {i} : /\ inUse'[j] = inUse[j] /\ slotSeq'[j] = slotSeq[j]
                               /\ slotBuf'[j] = slotBuf[j] /\ done'[j] = done[j]
      /\ inUse'[i] /\ slotSeq'[i] = NextSeq /\ slotBuf'[i] = None
  BY <1>0, <1>1 DEF TypeOK
<1>6. \A s \in Readers \ {r} : slot[s] # i
  <2> SUFFICES ASSUME NEW s \in Readers, slot[s] = i PROVE FALSE
    OBVIOUS
  <2>1. ~Holds(s)
    BY <1>1 DEF IInv, Owned, SlotOwnership, Holds
  <2> QED
    BY <2>1, NoneAssumption DEF IInv, Owned, IdleHasNone
<1>7. \A s \in Readers \ {r} : Holds(s) => slot[s] \in Slots \ {i}
  BY <1>6 DEF IInv, Owned, SlotOwnership, Holds
<1>8. \A j \in Slots \ {i} : inUse[j] => slotSeq[j] # NextSeq
  BY DEF TakeSlot, SeqFresh
<1>9. SlotOwnership'
  <2>1. \A s \in Readers : Holds(s)' =>
            slot'[s] \in Slots /\ inUse'[slot'[s]] /\ slotSeq'[slot'[s]] = mySeq'[s]
    BY <1>4, <1>5, <1>7 DEF IInv, Owned, SlotOwnership, Holds
  <2>2. \A j \in Slots : inUse'[j] => \E s \in Readers : Holds(s)' /\ slot'[s] = j
    <3>1. Holds(r)' /\ ~Holds(r)
      BY <1>2, <1>4 DEF Holds
    <3> QED
      BY <1>4, <1>5, <3>1 DEF IInv, Owned, SlotOwnership, Holds
  <2>3. \A s, t \in Readers : slot'[s] # None /\ slot'[s] = slot'[t] => s = t
    BY <1>4, <1>6 DEF IInv, Owned, SlotOwnership
  <2> QED
    BY <2>1, <2>2, <2>3 DEF SlotOwnership, Holds
<1>10. IdleHasNone'
  BY <1>4 DEF IInv, Owned, IdleHasNone, Holds
<1>11. SeqsDistinct'
  BY <1>5, <1>8 DEF IInv, Owned, SeqsDistinct
<1>12. RequestsMatch'
  <2> SUFFICES ASSUME NEW q \in Request, InFlight(q)', NEW s \in Readers,
                      Holds(s)', slotSeq'[slot'[s]] = q.seq
               PROVE  q.call = ThisCall(s)
    BY <1>2 DEF RequestsMatch, ThisCall
  <2>1. InFlight(q)
    BY <1>2 DEF InFlight
  <2>2. q.seq # NextSeq
    <3>1. q # None
      BY NoneAssumption
    <3> QED
      BY <2>1, <3>1 DEF InFlight, TakeSlot, SeqFresh
  <2>3. s # r /\ Holds(s)
    BY <1>4, <1>5, <2>2 DEF Holds
  <2>4. slotSeq[slot[s]] = q.seq
    BY <1>4, <1>5, <1>7, <2>3
  <2> QED
    BY <2>1, <2>3, <2>4 DEF IInv, Owned, RequestsMatch
<1>13. BuffersMatch'
  <2> SUFFICES ASSUME NEW s \in Readers, Holds(s)', slotBuf'[slot'[s]] # None
               PROVE  slotBuf'[slot'[s]] = ThisCall(s)
    BY <1>2 DEF BuffersMatch, ThisCall
  <2>1. s # r
    BY <1>4, <1>5
  <2>2. Holds(s) /\ slot'[s] = slot[s]
    BY <1>4, <2>1 DEF Holds
  <2>3. slotBuf'[slot'[s]] = slotBuf[slot[s]]
    BY <1>5, <1>7, <2>1, <2>2
  <2> QED
    BY <2>2, <2>3 DEF IInv, BuffersMatch
<1>14. ReplyMatchesCall'
  BY <1>2 DEF IInv, ReplyMatchesCall, ThisCall
<1>15. NoLostWakeup' /\ CallsCounted'
  BY <1>2, <1>4, <1>5, <1>7 DEF IInv, NoLostWakeup, CallsCounted, Holds
<1> QED
  BY <1>3, <1>9, <1>10, <1>11, <1>12, <1>13, <1>14, <1>15 DEF IInv, Owned

\* The request put in flight carries the number of the slot of its call.
LEMMA EnqueueIInv == ASSUME NEW r \in Readers, IInv, EnqueueOk(r) PROVE IInv'
<1> DEFINE q0 == [seq |-> mySeq[r], call |-> ThisCall(r)]
<1>0. TypeOK /\ Holds(r)
  BY DEF IInv, EnqueueOk, Holds
<1>1. /\ pc' = [pc EXCEPT ![r] = "wait"]
      /\ queue' = [queue EXCEPT ![myUnit[r]] = Append(@, q0)]
      /\ UNCHANGED <<connected, unit, seq, slotVars, link, busy, count, slot, mySeq,
                     myUnit, error, answer>>
  BY DEF EnqueueOk, Goto
<1>2. q0 \in Request
  <2>1. count[r] \in 1 .. MaxCalls
    BY <1>0, BoundsAssumption DEF IInv, CallsCounted, Holds, TypeOK
  <2> QED
    BY <1>0, <2>1 DEF TypeOK, Request, Calls, ThisCall
<1>3. TypeOK'
  <2>1. queue' \in [Units -> Seq(Request)]
    <3>1. queue \in [Units -> Seq(Request)]
      BY <1>0 DEF TypeOK
    <3>2. \A u \in Units : Append(queue[u], q0) \in Seq(Request)
      BY <1>2, <3>1
    <3> HIDE DEF q0
    <3>3. queue' = [u \in Units |-> IF u = myUnit[r] THEN Append(queue[u], q0) ELSE queue[u]]
      BY <1>1, <3>1
    <3> QED
      BY <3>1, <3>2, <3>3
  <2> QED
    BY <1>0, <1>1, <2>1 DEF TypeOK, slotVars, Locations
<1>4. \A s \in Readers : Holds(s)' <=> Holds(s)
  BY <1>0, <1>1 DEF TypeOK, Holds
<1>5. \A q \in Request : InFlight(q)' => InFlight(q) \/ q = q0
  <2> SUFFICES ASSUME NEW q \in Request, NEW u \in Units, NEW k \in 1 .. Len(queue'[u]),
                      queue'[u][k] = q
               PROVE  q = q0 \/ \E j \in 1 .. Len(queue[u]) : queue[u][j] = q
    BY <1>1 DEF InFlight
  <2>1. queue[u] \in Seq(Request) /\ queue'[u] \in {queue[u], Append(queue[u], q0)}
    BY <1>0, <1>1 DEF TypeOK
  <2>2. CASE queue'[u] = queue[u]
    BY <2>2
  <2>3. CASE queue'[u] = Append(queue[u], q0)
    BY <1>2, <2>1, <2>3
  <2> QED
    BY <2>1, <2>2, <2>3
<1>6. SlotOwnership' /\ IdleHasNone' /\ SeqsDistinct'
  <2>1. SlotOwnership'
    BY <1>1, <1>4 DEF IInv, Owned, SlotOwnership, Holds, slotVars
  <2> QED
    BY <1>1, <1>4, <2>1 DEF IInv, Owned, IdleHasNone, SeqsDistinct, slotVars
<1>7. RequestsMatch'
  <2> SUFFICES ASSUME NEW q \in Request, InFlight(q)', NEW s \in Readers,
                      Holds(s), slotSeq[slot[s]] = q.seq
               PROVE  q.call = ThisCall(s)
    BY <1>1, <1>4 DEF RequestsMatch, ThisCall, slotVars
  <2>1. CASE InFlight(q)
    BY <2>1 DEF IInv, Owned, RequestsMatch
  <2>2. CASE q = q0
    <3>1. slotSeq[slot[r]] = slotSeq[slot[s]]
      BY <1>0, <2>2 DEF IInv, Owned, SlotOwnership, Holds
    <3>2. slot[r] = slot[s] /\ slot[s] # None
      BY <1>0, <3>1, NoneAssumption DEF IInv, Owned, SlotOwnership, SeqsDistinct, Holds
    <3>3. r = s
      BY <3>2, SMTT(30) DEF IInv, Owned, SlotOwnership
    <3> QED
      BY <2>2, <3>3
  <2> QED
    BY <1>5, <2>1, <2>2
<1>8. BuffersMatch'
  BY <1>1, <1>4 DEF IInv, BuffersMatch, ThisCall, slotVars
<1>9. ReplyMatchesCall'
  BY <1>1 DEF IInv, ReplyMatchesCall, ThisCall
<1>10. NoLostWakeup'
  BY <1>0, <1>1 DEF IInv, NoLostWakeup, TypeOK, slotVars
<1>11. CallsCounted'
  BY <1>0, <1>1 DEF IInv, CallsCounted, Holds, TypeOK
<1> QED
  BY <1>3, <1>6, <1>7, <1>8, <1>9, <1>10, <1>11 DEF IInv, Owned

\* The slot goes back; nobody else held it.
LEMMA ReleaseIInv == ASSUME NEW r \in Readers, IInv, Release(r) PROVE IInv'
<1>0. TypeOK /\ Holds(r) /\ slot[r] \in Slots /\ slot[r] # None
  BY NoneAssumption DEF IInv, Owned, SlotOwnership, Release, Holds
<1>1. /\ inUse' = [inUse EXCEPT ![slot[r]] = FALSE]
      /\ slot' = [slot EXCEPT ![r] = None]
      /\ mySeq' = [mySeq EXCEPT ![r] = 0]
      /\ myUnit' = [myUnit EXCEPT ![r] = None]
      /\ pc' = [pc EXCEPT ![r] = "idle"]
      /\ UNCHANGED <<connected, unit, seq, done, slotSeq, slotErr, slotBuf, link, queue, busy,
                     count, error, answer>>
  BY DEF Release, Goto, daemonVars
<1>2. TypeOK'
  <2>1. 0 \in 0 .. (SeqMod - 1)
    BY SeqAssumption
  <2> QED
    BY <1>0, <1>1, <2>1 DEF TypeOK, Locations
<1>3. /\ \A s \in Readers \ {r} : slot'[s] = slot[s] /\ pc'[s] = pc[s] /\ mySeq'[s] = mySeq[s]
      /\ slot'[r] = None /\ pc'[r] = "idle"
  BY <1>0, <1>1 DEF TypeOK
<1>4. /\ \A j \in Slots \ {slot[r]} : inUse'[j] = inUse[j]
      /\ ~inUse'[slot[r]]
  BY <1>0, <1>1 DEF TypeOK
<1>5. \A s \in Readers \ {r} : Holds(s) => slot[s] \in Slots \ {slot[r]}
  BY <1>0 DEF IInv, Owned, SlotOwnership, Holds
<1>6. SlotOwnership'
  <2>1. \A s \in Readers : Holds(s)' =>
            slot'[s] \in Slots /\ inUse'[slot'[s]] /\ slotSeq'[slot'[s]] = mySeq'[s]
    BY <1>1, <1>3, <1>4, <1>5, SMTT(30) DEF IInv, Owned, SlotOwnership, Holds
  <2>2. \A j \in Slots : inUse'[j] => \E s \in Readers : Holds(s)' /\ slot'[s] = j
    BY <1>3, <1>4, SMTT(30) DEF IInv, Owned, SlotOwnership, Holds
  <2>3. \A s, t \in Readers : slot'[s] # None /\ slot'[s] = slot'[t] => s = t
    BY <1>3 DEF IInv, Owned, SlotOwnership
  <2> QED
    BY <2>1, <2>2, <2>3 DEF SlotOwnership, Holds
<1>7. IdleHasNone'
  BY <1>3 DEF IInv, Owned, IdleHasNone, Holds
<1>8. SeqsDistinct'
  BY <1>1, <1>4 DEF IInv, Owned, SeqsDistinct
<1>9. RequestsMatch'
  BY <1>1, <1>3 DEF IInv, Owned, RequestsMatch, InFlight, Holds, ThisCall
<1>10. BuffersMatch'
  BY <1>1, <1>3 DEF IInv, BuffersMatch, Holds, ThisCall
<1>11. ReplyMatchesCall'
  BY <1>1 DEF IInv, ReplyMatchesCall, ThisCall
<1>12. NoLostWakeup' /\ CallsCounted'
  BY <1>1, <1>3 DEF IInv, NoLostWakeup, CallsCounted
<1> QED
  BY <1>2, <1>6, <1>7, <1>8, <1>9, <1>10, <1>11, <1>12 DEF IInv, Owned

\* A step of the daemon or of the control that leaves slots and readers alone.
LEMMA LinkIInv ==
    ASSUME NEW u \in Units, IInv, Connect(u) \/ Detach(u) \/ Receive(u) \/ LoseReply(u)
    PROVE  IInv'
<1>0. /\ TypeOK
      /\ UNCHANGED <<seq, slotVars, readerVars>>
  BY DEF IInv, Connect, Detach, Receive, LoseReply
<1>1. /\ link' \in [Units -> {"closed", "open", "closing"}]
      /\ connected' \in BOOLEAN /\ unit' \in Units \union {None}
      /\ queue' \in [Units -> Seq(Request)]
      /\ busy' \in [Units -> Request \union {None}]
      /\ \A q \in Request : InFlight(q)' => InFlight(q)
  <2>1. CASE Connect(u)
    BY <1>0, <2>1 DEF TypeOK, Connect, InFlight
  <2>2. CASE Detach(u)
    <3>1. \A v \in Units : queue'[v] = queue[v] \/ Len(queue'[v]) = 0
      BY <1>0, <2>2 DEF TypeOK, Detach
    <3>2. \A q \in Request : InFlight(q)' => InFlight(q)
      BY <2>2, <3>1 DEF Detach, InFlight
    <3> QED
      BY <1>0, <2>2, <3>2 DEF TypeOK, Detach
  <2>3. CASE Receive(u)
    <3>1. /\ queue[u] \in Seq(Request) /\ queue[u] # << >>
          /\ busy' = [busy EXCEPT ![u] = Head(queue[u])]
          /\ queue' = [queue EXCEPT ![u] = Tail(queue[u])]
          /\ UNCHANGED <<connected, unit, link>>
      BY <1>0, <2>3 DEF TypeOK, Receive
    <3>2. /\ Head(queue[u]) \in Request /\ Tail(queue[u]) \in Seq(Request)
          /\ Head(queue[u]) = queue[u][1] /\ 1 \in 1 .. Len(queue[u])
          /\ \A k \in 1 .. Len(Tail(queue[u])) :
               k + 1 \in 1 .. Len(queue[u]) /\ Tail(queue[u])[k] = queue[u][k + 1]
      BY <3>1
    <3>3. \A v \in Units \ {u} : queue'[v] = queue[v] /\ busy'[v] = busy[v]
      BY <1>0, <3>1 DEF TypeOK
    <3>4. queue'[u] = Tail(queue[u]) /\ busy'[u] = Head(queue[u])
      BY <1>0, <3>1 DEF TypeOK
    <3>5. \A q \in Request : InFlight(q)' => InFlight(q)
      <4> SUFFICES ASSUME NEW q \in Request, NEW v \in Units,
                          \/ busy'[v] = q
                          \/ \E k \in 1 .. Len(queue'[v]) : queue'[v][k] = q
                   PROVE  InFlight(q)
        BY DEF InFlight
      <4>1. CASE v # u
        BY <3>3, <4>1 DEF InFlight
      <4>2. CASE v = u /\ busy'[u] = q
        BY <3>2, <3>4, <4>2 DEF InFlight
      <4>3. CASE v = u /\ \E k \in 1 .. Len(queue'[u]) : queue'[u][k] = q
        <5>1. PICK k \in 1 .. Len(Tail(queue[u])) : Tail(queue[u])[k] = q
          BY <3>4, <4>3
        <5>2. k + 1 \in 1 .. Len(queue[u]) /\ queue[u][k + 1] = q
          BY <3>2, <5>1
        <5> QED
          BY <5>2 DEF InFlight
      <4> QED
        BY <4>1, <4>2, <4>3
    <3> QED
      BY <1>0, <3>1, <3>2, <3>5 DEF TypeOK
  <2>4. CASE LoseReply(u)
    <3>1. \A v \in Units : busy'[v] = busy[v] \/ busy'[v] = None
      BY <1>0, <2>4, SMTT(30) DEF TypeOK, LoseReply
    <3>2. \A q \in Request : InFlight(q)' => InFlight(q)
      BY <2>4, <3>1, NoneAssumption DEF LoseReply, InFlight
    <3> QED
      BY <1>0, <2>4, <3>2 DEF TypeOK, LoseReply
  <2> QED
    BY <2>1, <2>2, <2>3, <2>4
<1>2. Owned'
  <2>1. \A r \in Readers : (Holds(r)' <=> Holds(r)) /\ count'[r] = count[r]
    BY <1>0 DEF Holds, readerVars
  <2>2. UNCHANGED <<inUse, slotSeq, slot, mySeq>>
    BY <1>0 DEF slotVars, readerVars
  <2> QED
    BY <1>1, <2>1, <2>2, OwnedFrame
<1>3. TypeOK'
  BY <1>0, <1>1 DEF TypeOK, slotVars, readerVars
<1>4. BuffersMatch' /\ ReplyMatchesCall' /\ NoLostWakeup' /\ CallsCounted'
  BY <1>0 DEF IInv, BuffersMatch, ReplyMatchesCall, NoLostWakeup, CallsCounted, Holds,
              ThisCall, slotVars, readerVars
<1> QED
  BY <1>2, <1>3, <1>4 DEF IInv

\* Completing a set of slots and waking the readers that sleep on them moves no
\* reader to or from its slot and leaves nobody asleep on a slot that is done.
LEMMA WakeupFacts ==
    ASSUME IInv, NEW S \in SUBSET Slots, Wakeup(S),
           done' = [i \in Slots |-> done[i] \/ i \in S],
           UNCHANGED <<slot, count>>
    PROVE  /\ done' \in [Slots -> BOOLEAN]
           /\ pc' \in [Readers -> Locations]
           /\ \A r \in Readers : Holds(r)' <=> Holds(r)
           /\ NoLostWakeup' /\ CallsCounted'
<1>0. TypeOK
  BY DEF IInv
<1>1. done' \in [Slots -> BOOLEAN]
  BY <1>0 DEF TypeOK
<1>2. \A r \in Readers :
        pc'[r] = IF pc[r] = "asleep" /\ slot[r] \in S THEN "wait" ELSE pc[r]
  BY DEF Wakeup
<1>3. pc' \in [Readers -> Locations]
  BY <1>0 DEF Wakeup, TypeOK, Locations
<1>4. \A r \in Readers : Holds(r)' <=> Holds(r)
  BY <1>2 DEF Holds
<1>5. NoLostWakeup'
  <2> SUFFICES ASSUME NEW r \in Readers, pc'[r] = "asleep" PROVE ~done'[slot[r]]
    BY DEF NoLostWakeup
  <2>1. pc[r] = "asleep" /\ slot[r] \notin S
    BY <1>2
  <2>2. slot[r] \in Slots /\ ~done[slot[r]]
    BY <2>1 DEF IInv, Owned, SlotOwnership, NoLostWakeup
  <2> QED
    BY <2>1, <2>2
<1>6. CallsCounted'
  BY <1>2 DEF IInv, CallsCounted
<1> QED
  BY <1>1, <1>3, <1>4, <1>5, <1>6

\* procfs_ctl_disconnect fails every slot that waits.
LEMMA DisconnectIInv == ASSUME NEW u \in Units, IInv, Disconnect(u) PROVE IInv'
<1> DEFINE S == {i \in Slots : Pending(i)}
<1>0. /\ TypeOK
      /\ link' = [link EXCEPT ![u] = "closing"]
      /\ busy' = [busy EXCEPT ![u] = None]
      /\ connected' = FALSE
      /\ slotErr' = [i \in Slots |-> IF Pending(i) THEN "ENOTCONN" ELSE slotErr[i]]
      /\ UNCHANGED <<unit, seq, inUse, slotSeq, slotBuf, queue, count, slot, mySeq, myUnit,
                     error, answer>>
  BY DEF IInv, Disconnect
<1>1. S \in SUBSET Slots /\ Wakeup(S)
  BY DEF Disconnect
<1>2. done' = [i \in Slots |-> done[i] \/ i \in S]
  BY DEF Disconnect
<1> HIDE DEF S
<1>3. /\ done' \in [Slots -> BOOLEAN]
      /\ pc' \in [Readers -> Locations]
      /\ \A r \in Readers : Holds(r)' <=> Holds(r)
      /\ NoLostWakeup' /\ CallsCounted'
  BY <1>0, <1>1, <1>2, WakeupFacts
<1>4. TypeOK'
  BY <1>0, <1>3 DEF TypeOK, Failures
<1>5. Owned'
  <2>1. \A v \in Units : busy'[v] = busy[v] \/ busy'[v] = None
    BY <1>0 DEF TypeOK
  <2>2. \A q \in Request : InFlight(q)' => InFlight(q)
    BY <1>0, <2>1, NoneAssumption DEF InFlight
  <2> QED
    BY <1>0, <1>3, <2>2, OwnedFrame
<1>6. BuffersMatch' /\ ReplyMatchesCall'
  BY <1>0, <1>3 DEF IInv, BuffersMatch, ReplyMatchesCall, ThisCall
<1> QED
  BY <1>3, <1>4, <1>5, <1>6 DEF IInv

\* procfs_ctl_send: the slot that waits for the number of the reply belongs to the
\* call the reply is for.
LEMMA ReplyIInv ==
    ASSUME NEW u \in Units, NEW err \in {"none", "daemon"}, IInv, Reply(u, err)
    PROVE  IInv'
<1> DEFINE S == FirstWaiter(busy[u].seq)
<1>0. /\ TypeOK
      /\ busy[u] \in Request
      /\ slotBuf' = [i \in Slots |-> IF i \in S THEN busy[u].call ELSE slotBuf[i]]
      /\ slotErr' = [i \in Slots |-> IF i \in S THEN err ELSE slotErr[i]]
      /\ busy' = [busy EXCEPT ![u] = None]
      /\ UNCHANGED <<connected, unit, seq, inUse, slotSeq, link, queue, count, slot, mySeq,
                     myUnit, error, answer>>
  BY DEF IInv, TypeOK, Reply, Send
<1>1. S \in SUBSET Slots /\ Wakeup(S) /\ done' = [i \in Slots |-> done[i] \/ i \in S]
  BY DEF Reply, Send, FirstWaiter
<1>2. \A i \in S : slotSeq[i] = busy[u].seq
  BY DEF FirstWaiter
<1> HIDE DEF S
<1>3. /\ done' \in [Slots -> BOOLEAN]
      /\ pc' \in [Readers -> Locations]
      /\ \A r \in Readers : Holds(r)' <=> Holds(r)
      /\ NoLostWakeup' /\ CallsCounted'
  BY <1>0, <1>1, WakeupFacts
<1>4. TypeOK'
  <2>1. busy[u].call \in Calls
    BY <1>0 DEF Request
  <2>2. slotBuf' \in [Slots -> Calls \union {None}]
    BY <1>0, <2>1 DEF TypeOK
  <2>3. slotErr' \in [Slots -> Failures \union {"none"}]
    BY <1>0 DEF TypeOK, Failures
  <2> QED
    BY <1>0, <1>3, <2>2, <2>3 DEF TypeOK
<1>5. Owned'
  <2>1. \A v \in Units : busy'[v] = busy[v] \/ busy'[v] = None
    BY <1>0 DEF TypeOK
  <2>2. \A q \in Request : InFlight(q)' => InFlight(q)
    BY <1>0, <2>1, NoneAssumption DEF InFlight
  <2> QED
    BY <1>0, <1>3, <2>2, OwnedFrame
<1>6. BuffersMatch'
  <2> SUFFICES ASSUME NEW r \in Readers, Holds(r), slotBuf'[slot[r]] # None
               PROVE  slotBuf'[slot[r]] = ThisCall(r)
    BY <1>0, <1>3 DEF BuffersMatch, ThisCall
  <2>1. slot[r] \in Slots
    BY DEF IInv, Owned, SlotOwnership, Holds
  <2>2. CASE slot[r] \in S
    <3>1. InFlight(busy[u])
      BY DEF InFlight
    <3>2. busy[u].call = ThisCall(r)
      BY <1>0, <1>2, <2>2, <3>1 DEF IInv, Owned, RequestsMatch
    <3> QED
      BY <1>0, <2>1, <2>2, <3>2
  <2>3. CASE slot[r] \notin S
    BY <1>0, <2>1, <2>3 DEF IInv, BuffersMatch
  <2> QED
    BY <2>2, <2>3
<1>7. ReplyMatchesCall'
  BY <1>0 DEF IInv, ReplyMatchesCall, ThisCall
<1> QED
  BY <1>3, <1>4, <1>5, <1>6, <1>7 DEF IInv

\* The invariant holds in every reachable state, for any readers, slots and units.
THEOREM IInvHolds == Spec => []IInv
<1>1. IInv /\ [Next]_vars => IInv'
  <2> SUFFICES ASSUME IInv, [Next]_vars PROVE IInv'
    OBVIOUS
  <2>1. ASSUME NEW r \in Readers, Call(r) \/ CallUnconnected(r) \/ ReaderStep(r) PROVE IInv'
    BY <2>1, MoveIInv, TakeSlotIInv, EnqueueIInv, ReleaseIInv DEF ReaderStep
  <2>2. ASSUME NEW u \in Units, Connect(u) \/ Detach(u) \/ Receive(u) \/ LoseReply(u)
        PROVE  IInv'
    BY <2>2, LinkIInv
  <2>3. ASSUME NEW u \in Units, Disconnect(u) PROVE IInv'
    BY <2>3, DisconnectIInv
  <2>4. ASSUME NEW u \in Units, NEW err \in {"none", "daemon"}, Reply(u, err) PROVE IInv'
    BY <2>4, ReplyIInv
  <2>5. CASE UNCHANGED vars
    <3>1. \A r \in Readers : (Holds(r)' <=> Holds(r)) /\ count'[r] = count[r]
      BY <2>5 DEF vars, readerVars, Holds
    <3>2. \A q \in Request : InFlight(q)' => InFlight(q)
      BY <2>5 DEF vars, daemonVars, InFlight
    <3>3. Owned'
      BY <2>5, <3>1, <3>2, OwnedFrame DEF vars, slotVars, readerVars
    <3>4. TypeOK'
      BY <2>5 DEF IInv, TypeOK, vars, slotVars, daemonVars, readerVars
    <3>5. BuffersMatch' /\ ReplyMatchesCall' /\ NoLostWakeup' /\ CallsCounted'
      BY <2>5, <3>1 DEF IInv, BuffersMatch, ReplyMatchesCall, NoLostWakeup, CallsCounted,
                        ThisCall, vars, slotVars, readerVars
    <3> QED
      BY <3>3, <3>4, <3>5 DEF IInv
  <2> QED
    BY <2>1, <2>2, <2>3, <2>4, <2>5 DEF Next
<1> QED
  BY <1>1, InitIInv, PTL DEF Spec

\* procfs_ctl_send and procfs_ctl_request_impl: an answer a call returns is the
\* answer to that call, for any number of readers, slots, daemons and calls, as
\* long as a number is not reused while a message still carries it.
THEOREM RepliesMatchCalls == Spec => []ReplyMatchesCall
<1>1. IInv => ReplyMatchesCall
  BY DEF IInv
<1> QED
  BY <1>1, IInvHolds, PTL

\* The slots, the queues and the locals of the calls keep their types, on every
\* path of procfs_ctl_request_impl and of the control's callbacks.
THEOREM TypesAreKept == Spec => []TypeOK
<1>1. IInv => TypeOK
  BY DEF IInv
<1> QED
  BY <1>1, IInvHolds, PTL

\* procfs_ctl_request_impl: a slot in use belongs to exactly one running call.
THEOREM SlotsAreOwned == Spec => []SlotOwnership
<1>1. IInv => SlotOwnership
  BY DEF IInv, Owned
<1> QED
  BY <1>1, IInvHolds, PTL

\* procfs_ctl_send and procfs_ctl_disconnect wake whom they complete: no reader
\* sleeps on a slot that is done.
THEOREM NoWakeupIsLost == Spec => []NoLostWakeup
<1>1. IInv => NoLostWakeup
  BY DEF IInv
<1> QED
  BY <1>1, IInvHolds, PTL
=============================================================================

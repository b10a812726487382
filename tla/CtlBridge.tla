------------------------------ MODULE CtlBridge ------------------------------
(***************************************************************************)
(* The kernel-control bridge of kext/procfs_ctl.c: kernel readers send a   *)
(* request to the procfsd daemon through one of a few slots, sleep until   *)
(* the reply, the disconnection or the timeout, and release the slot.      *)
(*                                                                         *)
(* The slots are only touched with g_ctl_lock held, so one critical        *)
(* section is one action.  The daemon (the receive loop of                 *)
(* tools/procfsd.c) answers its requests in order, may stall for any time, *)
(* may lose a reply (the result of send is ignored) and may die and come   *)
(* back; the kernel-control layer itself is external.                      *)
(***************************************************************************)
EXTENDS Naturals, Sequences

CONSTANTS
    Readers,    \* kernel threads that call procfs_ctl_request
    NSlots,     \* PROCFS_CTL_SLOTS
    Units,      \* units of the kernel control: one per connected daemon
    SeqMod,     \* 2^32 in the code: the width of g_ctl_seq
    StartSeqs,  \* values of g_ctl_seq to start from
    QueueMax,   \* bound: requests that fit in the socket of one daemon
    MaxCalls,   \* bound: requests per reader
    None

Slots == 1 .. NSlots

\* A request is named by its reader and the reader's call it belongs to.
Calls == Readers \X (1 .. MaxCalls)

ASSUME SlotsAssumption == NSlots \in Nat
ASSUME SeqAssumption == SeqMod \in Nat /\ SeqMod > 1 /\ StartSeqs \subseteq 0 .. (SeqMod - 1)
ASSUME BoundsAssumption == QueueMax \in Nat /\ MaxCalls \in Nat

\* What travels to the daemon: the number of the request and the call it is for.
Request == [seq : 0 .. (SeqMod - 1), call : Calls]

ASSUME NoneAssumption == None \notin (Units \union Slots \union Calls \union Request)

VARIABLES
    connected, \* g_ctl_connected
    unit,      \* g_ctl_unit
    seq,       \* g_ctl_seq
    inUse,     \* slot: in_use
    done,      \* slot: done
    slotSeq,   \* slot: seq
    slotErr,   \* slot: error
    slotBuf,   \* slot: buf and len: the call whose answer it holds
    link,      \* unit: "closed", "open", "closing"
    queue,     \* unit: the requests in the socket of the daemon
    busy,      \* unit: the request the daemon is working on
    pc,        \* reader: where in procfs_ctl_request_impl it is
    count,     \* reader: its calls so far
    slot,      \* reader: slot
    mySeq,     \* reader: seq
    myUnit,    \* reader: unit
    error,     \* reader: what the last call returned
    answer     \* reader: the call whose answer is in its buffer, or None

slotVars   == <<inUse, done, slotSeq, slotErr, slotBuf>>
daemonVars == <<link, queue, busy>>
readerVars == <<pc, count, slot, mySeq, myUnit, error, answer>>
vars       == <<connected, unit, seq, slotVars, daemonVars, readerVars>>

Failures  == {"ENOTCONN", "EBUSY", "ETIMEDOUT", "enqueue", "daemon"}
Locations == {"idle", "entry", "send", "wait", "asleep", "expired", "release"}

ThisCall(r) == <<r, count[r]>>

Init ==
    /\ connected = FALSE
    /\ unit = None
    /\ seq \in StartSeqs
    /\ inUse = [i \in Slots |-> FALSE]
    /\ done = [i \in Slots |-> FALSE]
    /\ slotSeq = [i \in Slots |-> 0]
    /\ slotErr = [i \in Slots |-> "none"]
    /\ slotBuf = [i \in Slots |-> None]
    /\ link = [u \in Units |-> "closed"]
    /\ queue = [u \in Units |-> << >>]
    /\ busy = [u \in Units |-> None]
    /\ pc = [r \in Readers |-> "idle"]
    /\ count = [r \in Readers |-> 0]
    /\ slot = [r \in Readers |-> None]
    /\ mySeq = [r \in Readers |-> 0]
    /\ myUnit = [r \in Readers |-> None]
    /\ error = [r \in Readers |-> "none"]
    /\ answer = [r \in Readers |-> None]

-----------------------------------------------------------------------------
(* procfs_ctl_request_impl.                                                *)

Goto(r, l) == pc' = [pc EXCEPT ![r] = l]
Returns(r, e, a) ==
    /\ error' = [error EXCEPT ![r] = e]
    /\ answer' = [answer EXCEPT ![r] = a]

\* The test of g_ctl_connected, made before the lock is taken.
Call(r) ==
    /\ pc[r] = "idle"
    /\ count[r] < MaxCalls
    /\ connected
    /\ count' = [count EXCEPT ![r] = @ + 1]
    /\ Goto(r, "entry")
    /\ Returns(r, "none", None)
    /\ UNCHANGED <<connected, unit, seq, slotVars, daemonVars, slot, mySeq, myUnit>>

CallUnconnected(r) ==
    /\ pc[r] = "idle"
    /\ count[r] < MaxCalls
    /\ ~connected
    /\ count' = [count EXCEPT ![r] = @ + 1]
    /\ Returns(r, "ENOTCONN", None)
    /\ UNCHANGED <<connected, unit, seq, slotVars, daemonVars, pc, slot, mySeq, myUnit>>

\* Mutant: the counter is wider than the seq of a slot.
NextSeqWide == seq + 1

\* ++g_ctl_seq, skipping 0.
NextSeq ==
    LET n == (seq + 1) % SeqMod
    IN  IF n = 0 THEN 1 ELSE n

\* The counter does not come round while a message still carries the number:
\* no request stays in flight for 2^32 requests.
SeqFresh(n) ==
    /\ \A i \in Slots : inUse[i] => slotSeq[i] # n
    /\ \A u \in Units : /\ busy[u] # None => busy[u].seq # n
                        /\ \A k \in 1 .. Len(queue[u]) : queue[u][k].seq # n

\* Mutant: in_use is not looked at.
FreeSlotAny(i) == i = 1

\* The first free slot.
FreeSlot(i) == ~inUse[i] /\ \A j \in 1 .. (i - 1) : inUse[j]

TakeSlot(r) ==
    /\ pc[r] = "entry"
    /\ SeqFresh(NextSeq)
    /\ \E i \in Slots :
         /\ FreeSlot(i)
         /\ inUse' = [inUse EXCEPT ![i] = TRUE]
         /\ done' = [done EXCEPT ![i] = FALSE]
         /\ slotSeq' = [slotSeq EXCEPT ![i] = NextSeq]
         /\ slotErr' = [slotErr EXCEPT ![i] = "none"]
         /\ slotBuf' = [slotBuf EXCEPT ![i] = None]
         /\ slot' = [slot EXCEPT ![r] = i]
    /\ seq' = NextSeq
    /\ mySeq' = [mySeq EXCEPT ![r] = NextSeq]
    /\ myUnit' = [myUnit EXCEPT ![r] = unit]
    /\ Goto(r, "send")
    /\ UNCHANGED <<connected, unit, daemonVars, count, error, answer>>

NoSlot(r) ==
    /\ pc[r] = "entry"
    /\ \A i \in Slots : inUse[i]
    /\ Goto(r, "idle")
    /\ Returns(r, "EBUSY", None)
    /\ UNCHANGED <<connected, unit, seq, slotVars, daemonVars, count, slot, mySeq, myUnit>>

\* ctl_enqueuedata: into the socket of the unit sampled under the lock, which
\* may have gone since, or have no room.
EnqueueOk(r) ==
    /\ pc[r] = "send"
    /\ link[myUnit[r]] # "closed"
    /\ Len(queue[myUnit[r]]) < QueueMax
    /\ queue' = [queue EXCEPT ![myUnit[r]] =
                   Append(@, [seq |-> mySeq[r], call |-> ThisCall(r)])]
    /\ Goto(r, "wait")
    /\ UNCHANGED <<connected, unit, seq, slotVars, link, busy, count, slot, mySeq,
                   myUnit, error, answer>>

EnqueueFail(r) ==
    /\ pc[r] = "send"
    /\ Goto(r, "release")
    /\ Returns(r, "enqueue", None)
    /\ UNCHANGED <<connected, unit, seq, slotVars, daemonVars, count, slot, mySeq, myUnit>>

\* Mutant: done is not tested before the sleep.
SleepUntested(r) ==
    /\ pc[r] = "wait"
    /\ Goto(r, "asleep")
    /\ UNCHANGED <<connected, unit, seq, slotVars, daemonVars, count, slot, mySeq,
                   myUnit, error, answer>>

Sleep(r) ==
    /\ pc[r] = "wait"
    /\ ~done[slot[r]]
    /\ Goto(r, "asleep")
    /\ UNCHANGED <<connected, unit, seq, slotVars, daemonVars, count, slot, mySeq,
                   myUnit, error, answer>>

\* Mutant: msleep without a timeout, woken by a signal only when disconnected.
ExpireNever(r) ==
    /\ pc[r] = "asleep"
    /\ ~connected
    /\ Goto(r, "expired")
    /\ UNCHANGED <<connected, unit, seq, slotVars, daemonVars, count, slot, mySeq,
                   myUnit, error, answer>>

\* msleep returns EWOULDBLOCK or the error of a signal; it still has to get
\* the lock back before the slot is looked at again.
Expire(r) ==
    /\ pc[r] = "asleep"
    /\ Goto(r, "expired")
    /\ UNCHANGED <<connected, unit, seq, slotVars, daemonVars, count, slot, mySeq,
                   myUnit, error, answer>>

Collect(r) ==
    /\ pc[r] \in {"wait", "expired"}
    /\ done[slot[r]]
    /\ Goto(r, "release")
    /\ Returns(r, slotErr[slot[r]],
                  IF slotErr[slot[r]] = "none" THEN slotBuf[slot[r]] ELSE None)
    /\ UNCHANGED <<connected, unit, seq, slotVars, daemonVars, count, slot, mySeq, myUnit>>

\* Mutant: an expired wait does not look at done again.
GiveUpUntested(r) ==
    /\ pc[r] = "expired"
    /\ Goto(r, "release")
    /\ Returns(r, "ETIMEDOUT", None)
    /\ UNCHANGED <<connected, unit, seq, slotVars, daemonVars, count, slot, mySeq, myUnit>>

GiveUp(r) ==
    /\ pc[r] = "expired"
    /\ ~done[slot[r]]
    /\ Goto(r, "release")
    /\ Returns(r, "ETIMEDOUT", None)
    /\ UNCHANGED <<connected, unit, seq, slotVars, daemonVars, count, slot, mySeq, myUnit>>

Release(r) ==
    /\ pc[r] = "release"
    /\ inUse' = [inUse EXCEPT ![slot[r]] = FALSE]
    /\ slot' = [slot EXCEPT ![r] = None]
    /\ mySeq' = [mySeq EXCEPT ![r] = 0]
    /\ myUnit' = [myUnit EXCEPT ![r] = None]
    /\ Goto(r, "idle")
    /\ UNCHANGED <<connected, unit, seq, done, slotSeq, slotErr, slotBuf, daemonVars,
                   count, error, answer>>

-----------------------------------------------------------------------------
(* The callbacks of the kernel control.                                    *)

\* wakeup on every slot of the set: a sleeping owner looks at its slot again.
Wakeup(S) ==
    pc' = [r \in Readers |->
             IF pc[r] = "asleep" /\ slot[r] \in S THEN "wait" ELSE pc[r]]

Pending(i) == inUse[i] /\ ~done[i]

\* procfs_ctl_connect.
Connect(u) ==
    /\ link[u] = "closed"
    /\ link' = [link EXCEPT ![u] = "open"]
    /\ unit' = u
    /\ connected' = TRUE
    /\ UNCHANGED <<seq, slotVars, queue, busy, readerVars>>

\* procfs_ctl_disconnect, called when the daemon closes its socket or dies.
\* Every waiter is failed, whichever unit it waits for.
Disconnect(u) ==
    /\ link[u] = "open"
    /\ link' = [link EXCEPT ![u] = "closing"]
    /\ busy' = [busy EXCEPT ![u] = None]
    /\ connected' = FALSE
    /\ slotErr' = [i \in Slots |-> IF Pending(i) THEN "ENOTCONN" ELSE slotErr[i]]
    /\ done' = [i \in Slots |-> done[i] \/ Pending(i)]
    /\ Wakeup({i \in Slots : Pending(i)})
    /\ UNCHANGED <<unit, seq, inUse, slotSeq, slotBuf, queue, count, slot, mySeq,
                   myUnit, error, answer>>

\* The kernel drops the unit after the callback; what was queued is lost.
Detach(u) ==
    /\ link[u] = "closing"
    /\ link' = [link EXCEPT ![u] = "closed"]
    /\ queue' = [queue EXCEPT ![u] = << >>]
    /\ UNCHANGED <<connected, unit, seq, slotVars, busy, readerVars>>

\* Mutant: the reply goes to the first slot that waits.
FirstPending(n) ==
    {i \in Slots : Pending(i) /\ \A j \in 1 .. (i - 1) : ~Pending(j)}

\* procfs_ctl_send: the answer to request q goes to the slot that waits for
\* its number, if there is one.  An answer is whole: the daemon sends the header
\* and len bytes in one call, so nothing shorter than it says comes in.
FirstWaiter(n) ==
    {i \in Slots : /\ Pending(i) /\ slotSeq[i] = n
                   /\ \A j \in 1 .. (i - 1) : ~(Pending(j) /\ slotSeq[j] = n)}

Send(q, err) ==
    LET S == FirstWaiter(q.seq)
    IN  /\ slotBuf' = [i \in Slots |-> IF i \in S THEN q.call ELSE slotBuf[i]]
        /\ slotErr' = [i \in Slots |-> IF i \in S THEN err ELSE slotErr[i]]
        /\ done' = [i \in Slots |-> done[i] \/ i \in S]
        /\ Wakeup(S)

-----------------------------------------------------------------------------
(* The daemon: the receive loop in main of tools/procfsd.c.                *)

Receive(u) ==
    /\ link[u] = "open"
    /\ busy[u] = None
    /\ queue[u] # << >>
    /\ busy' = [busy EXCEPT ![u] = Head(queue[u])]
    /\ queue' = [queue EXCEPT ![u] = Tail(@)]
    /\ UNCHANGED <<connected, unit, seq, slotVars, link, readerVars>>

Reply(u, err) ==
    /\ busy[u] # None
    /\ Send(busy[u], err)
    /\ busy' = [busy EXCEPT ![u] = None]
    /\ UNCHANGED <<connected, unit, seq, inUse, slotSeq, link, queue, count, slot,
                   mySeq, myUnit, error, answer>>

\* send fails and the daemon goes on.
LoseReply(u) ==
    /\ busy[u] # None
    /\ busy' = [busy EXCEPT ![u] = None]
    /\ UNCHANGED <<connected, unit, seq, slotVars, link, queue, readerVars>>

-----------------------------------------------------------------------------
ReaderStep(r) ==
    \/ TakeSlot(r) \/ NoSlot(r) \/ EnqueueOk(r) \/ EnqueueFail(r)
    \/ Sleep(r) \/ Expire(r) \/ Collect(r) \/ GiveUp(r) \/ Release(r)

Next ==
    \/ \E r \in Readers : Call(r) \/ CallUnconnected(r) \/ ReaderStep(r)
    \/ \E u \in Units : \/ Connect(u) \/ Disconnect(u) \/ Detach(u)
                        \/ Receive(u) \/ LoseReply(u)
                        \/ \E err \in {"none", "daemon"} : Reply(u, err)

Spec == Init /\ [][Next]_vars

\* A reader keeps running, and msleep gives up after PROCFS_CTL_TIMEO_S; the
\* daemon owes nothing.
Fairness == \A r \in Readers : WF_vars(ReaderStep(r))

FairSpec == Spec /\ Fairness

-----------------------------------------------------------------------------
(* Properties.                                                             *)

\* Every variable has its type.
TypeOK ==
    /\ connected \in BOOLEAN
    /\ unit \in Units \union {None}
    /\ seq \in 0 .. (SeqMod - 1)
    /\ inUse \in [Slots -> BOOLEAN]
    /\ done \in [Slots -> BOOLEAN]
    /\ slotSeq \in [Slots -> 0 .. (SeqMod - 1)]
    /\ slotErr \in [Slots -> Failures \union {"none"}]
    /\ slotBuf \in [Slots -> Calls \union {None}]
    /\ link \in [Units -> {"closed", "open", "closing"}]
    /\ queue \in [Units -> Seq(Request)]
    /\ busy \in [Units -> Request \union {None}]
    /\ pc \in [Readers -> Locations]
    /\ count \in [Readers -> 0 .. MaxCalls]
    /\ slot \in [Readers -> Slots \union {None}]
    /\ mySeq \in [Readers -> 0 .. (SeqMod - 1)]
    /\ myUnit \in [Readers -> Units \union {None}]
    /\ error \in [Readers -> Failures \union {"none"}]
    /\ answer \in [Readers -> Calls \union {None}]

\* An answer that a call returns is the answer to that call: a reply that
\* comes after the timeout, after a reconnection or after the slot was given
\* to another reader is never taken for another one's (procfs_ctl.c:112-126,
\* 165-174, 205-217).
ReplyMatchesCall ==
    \A r \in Readers : answer[r] # None => answer[r] = ThisCall(r)

\* A slot in use belongs to exactly one running call, which will release it,
\* and still carries that call's number (procfs_ctl.c:153-174, 224-226).
SlotOwnership ==
    /\ \A r \in Readers :
         pc[r] \notin {"idle", "entry"} =>
           slot[r] \in Slots /\ inUse[slot[r]] /\ slotSeq[slot[r]] = mySeq[r]
    /\ \A i \in Slots :
         inUse[i] => \E r \in Readers : /\ pc[r] \notin {"idle", "entry"}
                                        /\ slot[r] = i
    /\ \A r, s \in Readers : slot[r] # None /\ slot[r] = slot[s] => r = s

\* No reader sleeps on a slot that is done: the reply and the disconnection
\* both wake the reader whose slot they complete, even when they come between
\* ctl_enqueuedata and the sleep (procfs_ctl.c:80-86, 119-122, 192-203).
NoLostWakeup ==
    \A r \in Readers : pc[r] = "asleep" => ~done[slot[r]]

\* A reply that reached the slot while the caller was still waiting is
\* returned, also when msleep has already reported the timeout
\* (procfs_ctl.c:198-217).
AcceptedReplyReturned ==
    \A r \in Readers :
      (/\ pc[r] \in {"wait", "expired"}
       /\ done[slot[r]]
       /\ slotErr[slot[r]] = "none") ~> answer[r] = ThisCall(r)

\* Every request returns, whatever the daemon does: a stalled or dead daemon,
\* or one that loses the reply, costs a timeout and no more
\* (procfs_ctl.c:139-229).
RequestReturns ==
    \A r \in Readers : pc[r] = "entry" ~> pc[r] = "idle"
=============================================================================

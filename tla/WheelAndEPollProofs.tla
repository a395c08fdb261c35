------------------------ MODULE WheelAndEPollProofs ------------------------
(***************************************************************************)
(* Two structures that change under a loop that walks over them: the table *)
(* of an EPollLoop, and the lists of the time wheel, whose nodes such a    *)
(* loop deletes in the middle of OnTimeOut.                                *)
(*                                                                         *)
(* The epoll loop, for every set of handlers, every size of the batch and  *)
(* every behaviour of the callbacks: what a pending event names is kept by *)
(* no single variable.  An event is right as long as the slot it carries   *)
(* is still the one its handler has, which in turn rests on slots having   *)
(* one owner.  BatchOwned says the first, TableConsistent the second.      *)
(*                                                                         *)
(* The lists, for any number of connections and slots: they are closed,    *)
(* each belongs to one slot, and what they do is what a wheel of sets of   *)
(* connections would do.                                                   *)
(***************************************************************************)
EXTENDS EPollLoop, TimeWheel, FifoLemmas

(* Every event of the batch carries the slot of a handler on the loop, or  *)
(* was reported for a handler that has been taken off since.               *)
BatchOwned ==
  \A i \in 1 .. Len(batch) :
    /\ batch[i].who \in Handlers
    /\ batch[i].slot \in Slots
    /\ \/ batch[i].who \in gone
       \/ OnLoop(batch[i].who) /\ batch[i].slot = loopIdx[batch[i].who]

(* The event being handled is one of the batch. *)
InBatch ==
  /\ InCallback => pos \in 1 .. Len(batch)
  /\ nullCall => phase = "scan" /\ pos \in 1 .. Len(batch)

IInv ==
  /\ Inv
  /\ BatchOwned
  /\ InBatch
  /\ EventsReachTheirHandler

LEMMA InitInv == Init => IInv
<1> SUFFICES ASSUME Init PROVE IInv
  OBVIOUS
<1>1. TypeOK
  <2>1. events \in [Handlers -> Masks] /\ asked \in [Handlers -> Masks] /\ io \in [Handlers -> Masks]
    BY DEF Init, Masks
  <2>2. loopIdx \in [Handlers -> Nat] /\ data \in [Handlers -> Nat]
    BY DEF Init
  <2>3. /\ handlers \in Seq(Handlers \cup {NoHandler}) /\ idle \in Seq(Nat)
        /\ pos \in Nat \ {0} /\ gone \subseteq Handlers
    BY DEF Init
  <2>4. /\ phase \in {"setup", "wait", "scan", "read", "write"} /\ nullCall \in BOOLEAN
        /\ target \in Handlers \cup {NoHandler} /\ aborted \in Handlers \cup {NoHandler}
    BY DEF Init
  <2> QED
    BY <2>1, <2>2, <2>3, <2>4 DEF TypeOK
<1>2. BatchOwned /\ InBatch
  BY DEF Init, BatchOwned, InBatch, InCallback
<1>3. TableConsistent
  BY DEF Init, TableConsistent, OnLoop
<1>4. InterestAgrees
  BY DEF Init, InterestAgrees, OnLoop
<1> QED
  BY <1>1, <1>2, <1>3, <1>4 DEF Inv, Init, IInv, EventsReachTheirHandler, OnlyBadFdsAbort, InCallback

(* What Add does to the vectors, the slot it returns being nobody's. *)
LEMMA AddedFacts ==
  ASSUME TypeOK, TableConsistent, NEW h \in Handlers, Added(h)
  PROVE  /\ handlers' \in Seq(Handlers \cup {NoHandler})
         /\ idle' \in Seq(Nat)
         /\ NextSlot \in Nat \ {0} /\ NextSlot \in 1 .. Len(handlers')
         /\ Len(handlers') >= Len(handlers)
         /\ handlers'[NextSlot] = h
         /\ \A i \in Slots : i # NextSlot => handlers'[i] = handlers[i]
         /\ \A k \in Handlers : OnLoop(k) => loopIdx[k] # NextSlot
         /\ \A n \in 1 .. Len(idle') : n \in 1 .. Len(idle) /\ idle'[n] = idle[n] /\ idle'[n] # NextSlot
<1>1. CASE idle = << >>
  BY <1>1 DEF Added, NextSlot, TypeOK, TableConsistent, Slots
<1>2. CASE idle # << >>
  <2>1. Len(idle) \in Nat \ {0} /\ Len(idle) \in 1 .. Len(idle)
    BY <1>2 DEF TypeOK
  <2>2. NextSlot = idle[Len(idle)] /\ NextSlot \in Slots /\ handlers[NextSlot] = NoHandler
    BY <1>2, <2>1 DEF NextSlot, TableConsistent
  <2>3. handlers' = [handlers EXCEPT ![NextSlot] = h]
    BY <1>2 DEF Added
  <2>4. /\ handlers' \in Seq(Handlers \cup {NoHandler})
        /\ Len(handlers') = Len(handlers)
        /\ \A i \in Slots : handlers'[i] = IF i = NextSlot THEN h ELSE handlers[i]
    BY <2>2, <2>3 DEF TypeOK, Slots
  <2>5. \A k \in Handlers : OnLoop(k) => loopIdx[k] # NextSlot
    BY <2>2, EPollAssumption DEF TableConsistent
  <2>6. idle' = SubSeq(idle, 1, Len(idle) - 1)
    BY <1>2 DEF Added
  <2>7. /\ idle' \in Seq(Nat)
        /\ Len(idle') = Len(idle) - 1
        /\ \A n \in 1 .. Len(idle) - 1 : idle'[n] = idle[n]
    <3>1. idle \in Seq(Nat)
      BY DEF TypeOK
    <3> QED
      BY <1>2, <2>6, <3>1, PopFacts
  <2>8. \A n \in 1 .. Len(idle') : n \in 1 .. Len(idle) /\ idle'[n] = idle[n] /\ idle'[n] # NextSlot
    <3>1. \A n \in 1 .. Len(idle') : n \in 1 .. Len(idle) /\ n # Len(idle) /\ idle'[n] = idle[n]
      <4> DEFINE L == Len(idle)
                 after == idle'
                 before == idle
      <4>1. L \in Nat \ {0} /\ Len(after) = L - 1 /\ \A n \in 1 .. L - 1 : after[n] = before[n]
        BY <2>1, <2>7
      <4> HIDE DEF L, after, before
      <4>2. \A n \in 1 .. Len(after) : n \in 1 .. L /\ n # L /\ after[n] = before[n]
        BY <4>1
      <4> QED
        BY <4>2 DEF L, after, before
    <3> QED
      BY <2>1, <2>2, <3>1 DEF TableConsistent
  <2>9. /\ Len(handlers) \in Nat /\ Len(handlers') >= Len(handlers)
        /\ NextSlot \in 1 .. Len(handlers') /\ handlers'[NextSlot] = h
    BY <2>2, <2>4 DEF TypeOK, Slots
  <2>10. NextSlot \in Nat \ {0}
    BY <2>2 DEF Slots
  <2> QED
    BY <2>4, <2>5, <2>7, <2>8, <2>9, <2>10
<1> QED
  BY <1>1, <1>2

LEMMA ApplyHandlerInv ==
  ASSUME IInv, NEW h \in Handlers, ApplyHandler(h)
  PROVE  IInv'
<1>0. ~OnLoop(h) /\ Running /\ UNCHANGED <<phase, batch, pos, target, gone, nullCall>>
  BY DEF ApplyHandler, scan
<1>1. CASE h \in BadFd
  <2>1. aborted' = h
        /\ UNCHANGED <<handlers, idle, loopIdx, events, data, asked, io, ready>>
    BY <1>1 DEF ApplyHandler, table, kernel
  <2> QED
    BY <1>0, <1>1, <2>1 DEF IInv, Inv, TypeOK, TableConsistent, InterestAgrees, BatchOwned, InBatch,
         EventsReachTheirHandler, OnlyBadFdsAbort, OnLoop, Slots, InCallback
<1>2. CASE h \notin BadFd
  <2> DEFINE i == NextSlot
  <2>1. /\ Added(h)
        /\ loopIdx' = [loopIdx EXCEPT ![h] = i]
        /\ data' = [data EXCEPT ![h] = i]
        /\ events' = [events EXCEPT ![h] = {EPOLLIN}]
        /\ asked' = [asked EXCEPT ![h] = {EPOLLIN}]
        /\ io' = [io EXCEPT ![h] = {}]
        /\ aborted' = aborted
    BY <1>2 DEF ApplyHandler
  <2>2. /\ handlers' \in Seq(Handlers \cup {NoHandler})
        /\ idle' \in Seq(Nat)
        /\ i \in Nat \ {0} /\ i \in 1 .. Len(handlers')
        /\ Len(handlers') >= Len(handlers)
        /\ handlers'[i] = h
        /\ \A j \in Slots : j # i => handlers'[j] = handlers[j]
        /\ \A k \in Handlers : OnLoop(k) => loopIdx[k] # i
        /\ \A n \in 1 .. Len(idle') : n \in 1 .. Len(idle) /\ idle'[n] = idle[n] /\ idle'[n] # i
    BY <2>1, AddedFacts DEF IInv, Inv
  <2> HIDE DEF i
  <2>3. TypeOK'
    BY <1>0, <2>1, <2>2 DEF IInv, Inv, TypeOK, Masks
  <2>4. \A k \in Handlers : loopIdx'[k] = IF k = h THEN i ELSE loopIdx[k]
    BY <2>1 DEF IInv, Inv, TypeOK
  <2>5. \A j \in Slots : j \in Slots'
    BY <2>2 DEF Slots, IInv, Inv, TypeOK
  <2>6. TableConsistent'
    <3>1. ASSUME NEW k \in Handlers, loopIdx'[k] # 0
          PROVE  loopIdx'[k] \in Slots' /\ handlers'[loopIdx'[k]] = k
      BY <3>1, <2>2, <2>4, <2>5 DEF IInv, Inv, TableConsistent, OnLoop, Slots
    <3>2. ASSUME NEW n \in 1 .. Len(idle')
          PROVE  idle'[n] \in Slots' /\ handlers'[idle'[n]] = NoHandler
      BY <2>2, <2>5 DEF IInv, Inv, TableConsistent
    <3>3. \A n, m \in 1 .. Len(idle') : idle'[n] = idle'[m] => n = m
      BY <2>2 DEF IInv, Inv, TableConsistent
    <3> QED
      BY <3>1, <3>2, <3>3 DEF TableConsistent, OnLoop
  <2>7. InterestAgrees'
    BY <2>1, <2>4 DEF IInv, Inv, TypeOK, InterestAgrees, OnLoop
  <2>8. BatchOwned'
    BY <1>0, <2>2, <2>4, <2>5, ZenonT(30) DEF IInv, BatchOwned, OnLoop
  <2> QED
    BY <1>0, <2>1, <2>3, <2>6, <2>7, <2>8 DEF IInv, Inv, InBatch, EventsReachTheirHandler,
         OnlyBadFdsAbort, InCallback
<1> QED
  BY <1>1, <1>2

(* On a consistent table the assertions of UnRegister and Remove hold. *)
LEMMA RemovalNeverAborts ==
  ASSUME IInv, NEW h \in Handlers, OnLoop(h)
  PROVE  RemoveAsserts(h)
  BY DEF IInv, Inv, TableConsistent, InterestAgrees, RemoveAsserts, OnLoop

LEMMA SetClosingInv ==
  ASSUME IInv, NEW h \in Handlers, SetClosing(h)
  PROVE  IInv'
<1> DEFINE i == loopIdx[h]
<1>0. OnLoop(h) /\ Running /\ UNCHANGED <<events, phase, batch, pos, target, nullCall>>
  BY DEF SetClosing, scan
<1>1. /\ handlers' = [handlers EXCEPT ![i] = NoHandler]
      /\ idle' = Append(idle, i)
      /\ loopIdx' = [loopIdx EXCEPT ![h] = 0]
      /\ data' = [data EXCEPT ![h] = 0]
      /\ asked' = [asked EXCEPT ![h] = {}]
      /\ io' = [io EXCEPT ![h] = {}]
      /\ gone' = gone \cup {h}
      /\ aborted' = aborted
  BY <1>0, RemovalNeverAborts DEF SetClosing
<1>2. i \in Slots /\ handlers[i] = h /\ i \in Nat /\ i # 0
  BY <1>0 DEF IInv, Inv, TypeOK, TableConsistent, OnLoop
<1> HIDE DEF i
<1>3. /\ handlers' \in Seq(Handlers \cup {NoHandler})
      /\ Slots' = Slots
      /\ \A j \in Slots : handlers'[j] = IF j = i THEN NoHandler ELSE handlers[j]
  BY <1>1, <1>2 DEF IInv, Inv, TypeOK, Slots
<1>4. /\ idle' \in Seq(Nat)
      /\ Len(idle') = Len(idle) + 1
      /\ \A n \in 1 .. Len(idle) : idle'[n] = idle[n]
      /\ idle'[Len(idle) + 1] = i
  BY <1>1, <1>2 DEF IInv, Inv, TypeOK
<1>5. \A n \in 1 .. Len(idle') :
        \/ n \in 1 .. Len(idle) /\ idle'[n] = idle[n]
        \/ n = Len(idle) + 1 /\ idle'[n] = i
  <2> DEFINE L == Len(idle)
             after == idle'
             before == idle
  <2>0. idle \in Seq(Nat)
    BY DEF IInv, Inv, TypeOK
  <2>3. L \in Nat
    BY <2>0
  <2>4. Len(after) = L + 1 /\ after[L + 1] = i
    BY ONLY <1>4
  <2>1. /\ L \in Nat /\ Len(after) = L + 1 /\ after[L + 1] = i
        /\ \A n \in 1 .. L : after[n] = before[n]
    BY ONLY <2>3, <2>4, <1>4
  <2> HIDE DEF L, after, before
  <2>2. \A n \in 1 .. Len(after) :
          \/ n \in 1 .. L /\ after[n] = before[n]
          \/ n = L + 1 /\ after[n] = i
    BY <2>1
  <2> QED
    BY <2>2 DEF L, after, before
<1>6. \A k \in Handlers : loopIdx'[k] = IF k = h THEN 0 ELSE loopIdx[k]
  BY <1>1 DEF IInv, Inv, TypeOK
<1>7. TypeOK'
  BY <1>0, <1>1, <1>3, <1>4 DEF IInv, Inv, TypeOK, Masks
<1>8. TableConsistent'
  <2>1. ASSUME NEW k \in Handlers, loopIdx'[k] # 0
        PROVE  loopIdx'[k] \in Slots' /\ handlers'[loopIdx'[k]] = k
    <3>1. k # h /\ loopIdx'[k] = loopIdx[k] /\ loopIdx[k] \in Slots /\ handlers[loopIdx[k]] = k
      BY <2>1, <1>6 DEF IInv, Inv, TableConsistent, OnLoop
    <3> QED
      BY <3>1, <1>2, <1>3
  <2>2. \A n \in 1 .. Len(idle) : idle[n] # i
    BY <1>2, EPollAssumption DEF IInv, Inv, TableConsistent
  <2>3. ASSUME NEW n \in 1 .. Len(idle')
        PROVE  idle'[n] \in Slots' /\ handlers'[idle'[n]] = NoHandler
    BY <1>2, <1>3, <1>5, <2>2, ZenonT(30) DEF IInv, Inv, TableConsistent
  <2>4. ASSUME NEW n \in 1 .. Len(idle'), NEW m \in 1 .. Len(idle'), idle'[n] = idle'[m]
        PROVE  n = m
    BY <2>4, <1>5, <2>2 DEF IInv, Inv, TableConsistent
  <2> QED
    BY <2>1, <2>3, <2>4 DEF TableConsistent, OnLoop
<1>9. InterestAgrees'
  BY <1>0, <1>1, <1>6 DEF IInv, Inv, TypeOK, InterestAgrees, OnLoop
<1>10. BatchOwned'
  BY <1>0, <1>1, <1>3, <1>6 DEF IInv, BatchOwned, OnLoop
<1>11. EventsReachTheirHandler'
  BY <1>0, <1>1 DEF IInv, EventsReachTheirHandler, InCallback
<1> QED
  BY <1>0, <1>1, <1>7, <1>8, <1>9, <1>10, <1>11 DEF IInv, Inv, InBatch, OnlyBadFdsAbort, InCallback

LEMMA EnableWriteInv ==
  ASSUME IInv, NEW h \in Handlers, NEW en \in BOOLEAN, EnableWrite(h, en)
  PROVE  IInv'
<1> DEFINE mask == IF en THEN events[h] \cup {EPOLLOUT} ELSE events[h] \ {EPOLLOUT}
<1>0. /\ events' = [events EXCEPT ![h] = mask] /\ aborted = NoHandler
      /\ UNCHANGED <<handlers, idle, loopIdx, data, io, phase, batch, pos, target, gone, nullCall>>
  BY DEF EnableWrite, table, scan, Running
<1>1. mask \in Masks
  BY DEF IInv, Inv, TypeOK, Masks
<1>2. OnLoop(h) => data[h] # 0
  BY DEF IInv, Inv, InterestAgrees, OnLoop
<1>3. aborted' = NoHandler
  BY <1>2 DEF EnableWrite
<1>4. \/ OnLoop(h) /\ asked' = [asked EXCEPT ![h] = mask]
      \/ ~OnLoop(h) /\ asked' = asked
  BY <1>2 DEF EnableWrite
<1> HIDE DEF mask
<1>5. TypeOK'
  BY <1>0, <1>1, <1>3, <1>4 DEF IInv, Inv, TypeOK
<1>6. InterestAgrees'
  BY <1>0, <1>1, <1>4 DEF IInv, Inv, TypeOK, InterestAgrees, OnLoop
<1> QED
  BY <1>0, <1>3, <1>5, <1>6 DEF IInv, Inv, TableConsistent, BatchOwned, InBatch,
       EventsReachTheirHandler, OnlyBadFdsAbort, OnLoop, Slots, InCallback

LEMMA BecomesReadyInv ==
  ASSUME IInv, NEW h \in Handlers, NEW e \in {EPOLLIN, EPOLLOUT}, BecomesReady(h, e)
  PROVE  IInv'
<1>1. /\ io' = [io EXCEPT ![h] = @ \cup {e}]
      /\ UNCHANGED <<handlers, idle, loopIdx, events, data, asked, phase, batch, pos, target,
                     gone, nullCall, aborted>>
  BY DEF BecomesReady, table, scan
<1>2. TypeOK'
  BY <1>1 DEF IInv, Inv, TypeOK, Masks
<1> QED
  BY <1>1, <1>2 DEF IInv, Inv, TableConsistent, InterestAgrees, BatchOwned, InBatch,
       EventsReachTheirHandler, OnlyBadFdsAbort, OnLoop, Slots, InCallback

LEMMA EPollReturnsInv ==
  ASSUME IInv, NEW n, NEW d \in Deliveries, EPollReturns(n, d)
  PROVE  IInv'
<1>1. /\ batch' = [i \in 1 .. Len(d) |->
                     [slot |-> data[d[i]], ev |-> asked[d[i]] \cap io[d[i]], who |-> d[i]]]
      /\ phase = "wait" /\ phase' = "scan" /\ pos' = 1
      /\ UNCHANGED <<handlers, idle, loopIdx, events, data, asked, io, target, gone, nullCall, aborted>>
  BY DEF EPollReturns, table
<1>2. PICK m \in 0 .. MaxEvs : d \in [1 .. m -> {h \in Handlers : OnLoop(h)}]
  BY DEF Deliveries
<1>3. Len(d) = m /\ m \in Nat
  BY <1>2, EPollAssumption
<1>4. Len(batch') = m
  BY <1>1, <1>3
<1>5. \A i \in 1 .. m : batch'[i].who = d[i] /\ batch'[i].slot = data[d[i]]
  BY <1>1, <1>3
<1>6. \A i \in 1 .. m : d[i] \in Handlers /\ OnLoop(d[i])
  BY <1>2
<1>7. BatchOwned'
  BY <1>1, <1>4, <1>5, <1>6 DEF IInv, Inv, TableConsistent, InterestAgrees, BatchOwned, OnLoop, Slots
<1>8. ~nullCall
  BY <1>1 DEF IInv, InBatch
<1>9. Inv'
  BY <1>1 DEF IInv, Inv, TypeOK, TableConsistent, InterestAgrees, OnlyBadFdsAbort, OnLoop, Slots
<1>10. InBatch' /\ EventsReachTheirHandler'
  BY <1>1, <1>8 DEF InBatch, EventsReachTheirHandler, InCallback
<1> QED
  BY <1>7, <1>9, <1>10 DEF IInv

LEMMA DispatchInv ==
  ASSUME IInv, Dispatch
  PROVE  IInv'
<1> DEFINE e == batch[pos]
           h == handlers[e.slot]
<1>0. /\ phase = "scan" /\ pos \in 1 .. Len(batch)
      /\ UNCHANGED <<handlers, idle, loopIdx, events, data, asked, io, gone, aborted>>
  BY DEF Dispatch, table, kernel
<1>1. e.who \in Handlers /\ (e.who \in gone \/ OnLoop(e.who)) /\ (e.who \in gone \/ e.slot = loopIdx[e.who])
  BY <1>0 DEF IInv, BatchOwned
<1>2. e.who \in gone \/ h = e.who
  BY <1>1 DEF IInv, Inv, TableConsistent
<1>3. CASE h = NoHandler
  <2>1. nullCall' = TRUE /\ UNCHANGED <<phase, batch, pos, target>>
    BY <1>3 DEF Dispatch, scan
  <2>2. e.who \in gone
    BY <1>1, <1>2, <1>3, EPollAssumption
  <2> HIDE DEF h
  <2> QED
    BY <1>0, <2>1, <2>2 DEF IInv, Inv, TypeOK, TableConsistent, InterestAgrees, BatchOwned, InBatch,
         EventsReachTheirHandler, OnlyBadFdsAbort, OnLoop, Slots, InCallback
<1>4. CASE h # NoHandler
  <2>1. target' = h /\ phase' \in {"read", "write"} /\ UNCHANGED <<batch, pos, nullCall>>
    BY <1>4 DEF Dispatch
  <2>2. ~nullCall
    BY DEF Dispatch, Running
  <2>3. target' \in Handlers \cup {NoHandler}
    <3>1. e.slot \in Slots
      BY <1>0 DEF IInv, BatchOwned
    <3> QED
      BY <2>1, <3>1 DEF IInv, Inv, TypeOK, Slots
  <2> HIDE DEF h
  <2> QED
    BY ZenonT(30), <1>0, <1>2, <2>1, <2>2, <2>3 DEF IInv, Inv, TypeOK, TableConsistent, InterestAgrees, BatchOwned,
         InBatch, EventsReachTheirHandler, OnlyBadFdsAbort, OnLoop, Slots, InCallback
<1> QED
  BY <1>3, <1>4

(* Nothing but the loop's own variables changes when a callback returns. *)
LEMMA CallbackReturnsInv ==
  ASSUME IInv, ReadReturns \/ WriteReturns
  PROVE  IInv'
<1>1. /\ InCallback /\ Running
      /\ UNCHANGED <<handlers, idle, loopIdx, events, data, asked, batch, gone, nullCall, aborted>>
  BY DEF ReadReturns, WriteReturns, InCallback, table
<1>2. io' \in [Handlers -> Masks]
  <2>1. \E e : io' \in {io, [io EXCEPT ![target] = @ \ {e}]}
    BY DEF ReadReturns, WriteReturns
  <2> QED
    BY <2>1 DEF IInv, Inv, TypeOK, Masks
<1>3. \/ phase' = "write" /\ UNCHANGED <<pos, target>>
      \/ EndEvent
  BY DEF ReadReturns, WriteReturns
<1>4. /\ phase' \in {"write", "scan"} /\ pos' \in Nat \ {0} /\ target' \in Handlers \cup {NoHandler}
      /\ phase' = "write" => pos' = pos /\ target' = target
  BY <1>3 DEF EndEvent, IInv, Inv, TypeOK
<1>5. TypeOK'
  BY <1>1, <1>2, <1>4 DEF IInv, Inv, TypeOK
<1> QED
  BY <1>1, <1>4, <1>5 DEF IInv, Inv, TableConsistent, InterestAgrees, BatchOwned, InBatch, Running,
       EventsReachTheirHandler, OnlyBadFdsAbort, OnLoop, Slots, InCallback

LEMMA EndPassInv ==
  ASSUME IInv, EndPass
  PROVE  IInv'
<1>1. /\ phase = "scan" /\ pos > Len(batch)
      /\ phase' = "wait" /\ batch' = << >> /\ pos' = 1 /\ gone' = {}
      /\ UNCHANGED <<handlers, idle, loopIdx, events, data, asked, io, target, nullCall, aborted>>
  BY DEF EndPass, table, kernel
<1>2. ~nullCall
  BY <1>1 DEF IInv, Inv, TypeOK, InBatch
<1>3. BatchOwned'
  <2>1. Len(batch') = 0
    BY <1>1
  <2>2. 1 .. Len(batch') = {}
    BY <2>1
  <2> QED
    BY <2>2 DEF BatchOwned
<1>4. Inv'
  BY <1>1 DEF IInv, Inv, TypeOK, TableConsistent, InterestAgrees, OnlyBadFdsAbort, OnLoop, Slots
<1>5. InBatch' /\ EventsReachTheirHandler'
  BY <1>1, <1>2 DEF InBatch, EventsReachTheirHandler, InCallback
<1> QED
  BY <1>1, <1>3, <1>4, <1>5 DEF IInv

LEMMA StepInv == IInv /\ [Next]_vars => IInv'
<1> SUFFICES ASSUME IInv, [Next]_vars PROVE IInv'
  OBVIOUS
<1>1. ASSUME NEW h \in Handlers, ApplyHandler(h) PROVE IInv'
  BY <1>1, ApplyHandlerInv
<1>2. ASSUME NEW h \in Handlers, SetClosing(h) PROVE IInv'
  BY <1>2, SetClosingInv
<1>3. ASSUME NEW h \in Writers, NEW en \in BOOLEAN, EnableWrite(h, en) PROVE IInv'
  BY <1>3, EnableWriteInv, EPollAssumption
<1>4. ASSUME NEW h \in Talkers, BecomesReady(h, EPOLLIN) PROVE IInv'
  BY <1>4, BecomesReadyInv, EPollAssumption
<1>5. ASSUME NEW h \in Writers, BecomesReady(h, EPOLLOUT) PROVE IInv'
  BY <1>5, BecomesReadyInv, EPollAssumption
<1>6. CASE StartLoop
  BY <1>6 DEF StartLoop, table, kernel, IInv, Inv, TypeOK, TableConsistent, InterestAgrees, BatchOwned,
       InBatch, EventsReachTheirHandler, OnlyBadFdsAbort, OnLoop, Slots, InCallback, Running
<1>7. ASSUME NEW n \in 0 .. Len(ready), NEW d \in Deliveries, EPollReturns(n, d) PROVE IInv'
  BY <1>7, EPollReturnsInv
<1>8. CASE Dispatch
  BY <1>8, DispatchInv
<1>9. CASE ReadReturns
  BY <1>9, CallbackReturnsInv
<1>10. CASE WriteReturns
  BY <1>10, CallbackReturnsInv
<1>11. CASE EndPass
  BY <1>11, EndPassInv
<1>12. CASE UNCHANGED vars
  BY <1>12 DEF vars, table, kernel, scan, IInv, Inv, TypeOK, TableConsistent, InterestAgrees,
       BatchOwned, InBatch, EventsReachTheirHandler, OnlyBadFdsAbort, OnLoop, Slots, InCallback
<1> QED
  BY <1>1, <1>2, <1>3, <1>4, <1>5, <1>6, <1>7, <1>8, <1>9, <1>10, <1>11, <1>12 DEF Next, LoopStep

(* The invariant holds in every reachable state. *)
THEOREM Invariance == Spec => []IInv
  BY InitInv, StepInv, PTL DEF Spec

(* Whatever the callbacks do, the table of the loop and the interest list  *)
(* of the kernel agree (EventLoop.cpp:32-55, EPollLoop.cpp:42-65).         *)
THEOREM InterestAlwaysAgrees == Spec => []Inv
<1>1. IInv => Inv
  BY DEF IInv
<1> QED
  BY <1>1, Invariance, PTL

(* An event goes astray only when the handler it was reported for has been *)
(* taken off the loop by an earlier callback of the same batch.            *)
THEOREM EventsAlwaysReach == Spec => []EventsReachTheirHandler
<1>1. IInv => EventsReachTheirHandler
  BY DEF IInv
<1> QED
  BY <1>1, Invariance, PTL

(* No assertion about epoll_ctl(2) or the table fails for a descriptor that exists. *)
THEOREM OnlyBadFdsEverAbort == Spec => []OnlyBadFdsAbort
<1>1. IInv => OnlyBadFdsAbort
  BY DEF IInv, Inv
<1> QED
  BY <1>1, Invariance, PTL

-----------------------------------------------------------------------------
(* The lists of the time wheel *)

(* A new node is a list of its own and disturbs no other. *)
LEMMA NewNodeLinked ==
  ASSUME NEW m \in Memory, NEW live \in SUBSET Nodes, NEW n \in Nodes, n \notin live,
         WellLinked(m, live)
  PROVE  /\ NewNode(m, n) \in Memory
         /\ WellLinked(NewNode(m, n), live \cup {n})
BY DEF Memory, NewNode, WellLinked

(* AddTail puts a node that is no longer in a list at the tail of one. *)
LEMMA AddTailLinked ==
  ASSUME NEW m \in Memory, NEW live \in SUBSET Nodes, NEW n \in Nodes, n \notin live,
         NEW head \in live, WellLinked(m, live)
  PROVE  /\ AddTail(m, n, head) \in Memory
         /\ WellLinked(AddTail(m, n, head), live \cup {n})
<1> DEFINE r == AddTail(m, n, head)
<1> DEFINE last == m.prev[head]
<1>1. last \in live /\ m.next[last] = head /\ last # n /\ head # n
  BY DEF WellLinked
<1>2. r = [ prev |-> [[m.prev EXCEPT ![head] = n] EXCEPT ![n] = last],
            next |-> [[m.next EXCEPT ![n] = head] EXCEPT ![last] = n] ]
  BY DEF AddTail, AddBetween
<1>3. r \in Memory
  BY <1>1, <1>2 DEF Memory
<1>4. /\ r.prev[n] = last /\ r.next[n] = head
      /\ r.prev[head] = n /\ r.next[last] = n
      /\ \A x \in live \ {head} : r.prev[x] = m.prev[x]
      /\ \A x \in live \ {last} : r.next[x] = m.next[x]
  BY <1>1, <1>2 DEF Memory
<1>5. ASSUME NEW x \in live \cup {n}
      PROVE  /\ r.next[x] \in live \cup {n} /\ r.prev[r.next[x]] = x
             /\ r.prev[x] \in live \cup {n} /\ r.next[r.prev[x]] = x
  <2> HIDE DEF r, last
  <2>1. CASE x = n
    BY <1>1, <1>4, <2>1
  <2>2. CASE x # n
    <3>1. /\ m.next[x] \in live /\ m.prev[m.next[x]] = x
          /\ m.prev[x] \in live /\ m.next[m.prev[x]] = x
      BY <2>2 DEF WellLinked
    <3>2. x # last => m.next[x] # head
      BY <3>1 DEF last
    <3>3. x # head => m.prev[x] # last
      BY <1>1, <3>1
    <3> QED
      BY <1>1, <1>4, <2>2, <3>1, <3>2, <3>3
  <2> QED
    BY <2>1, <2>2
<1> QED
  BY <1>3, <1>5 DEF WellLinked

(* Delete takes a node out of its list: no other node of a list points at it. *)
LEMMA DeleteLinked ==
  ASSUME NEW m \in Memory, NEW live \in SUBSET Nodes, NEW n \in live, WellLinked(m, live)
  PROVE  /\ Delete(m, n) \in Memory
         /\ WellLinked(Delete(m, n), live \ {n})
<1> DEFINE r == Delete(m, n)
<1> DEFINE a == m.prev[n]
<1> DEFINE b == m.next[n]
<1>1. a \in live /\ b \in live /\ m.next[a] = n /\ m.prev[b] = n
  BY DEF WellLinked
<1>2. r = [ prev |-> [m.prev EXCEPT ![b] = a], next |-> [m.next EXCEPT ![a] = b] ]
  BY DEF Delete
<1>3. r \in Memory
  BY <1>1, <1>2 DEF Memory
<1>4. /\ r.prev[b] = a /\ r.next[a] = b
      /\ \A x \in live \ {b} : r.prev[x] = m.prev[x]
      /\ \A x \in live \ {a} : r.next[x] = m.next[x]
  BY <1>1, <1>2 DEF Memory
<1>5. ASSUME NEW x \in live \ {n}
      PROVE  /\ r.next[x] \in live \ {n} /\ r.prev[r.next[x]] = x
             /\ r.prev[x] \in live \ {n} /\ r.next[r.prev[x]] = x
  <2>1. /\ m.next[x] \in live /\ m.prev[m.next[x]] = x
        /\ m.prev[x] \in live /\ m.next[m.prev[x]] = x
    BY DEF WellLinked
  <2>2. (x # a => m.next[x] # n) /\ m.next[x] # b
    BY <1>1, <2>1
  <2>3. (x # b => m.prev[x] # n) /\ m.prev[x] # a
    BY <1>1, <2>1
  <2>4. (x = a => b # n) /\ (x = b => a # n)
    BY <1>1, <2>1
  <2> HIDE DEF r, a, b
  <2> QED
    BY <1>1, <1>4, <2>1, <2>2, <2>3, <2>4
<1> QED
  BY <1>3, <1>5 DEF WellLinked

-----------------------------------------------------------------------------
(* The order of the lists *)

(* Ranks that grow along every list: no list of connections goes round     *)
(* without a head.                                                         *)
Ranked(m, live, rank) ==
  \A n \in live : m.next[n] \notin Heads => rank[n] < rank[m.next[n]]

(* The nodes of live are in closed lists, each with one head: own gives    *)
(* the head of the list a node is in.                                      *)
InOrder(m, live, own) ==
  /\ m \in Memory
  /\ WellLinked(m, live)
  /\ own \in [Nodes -> Heads]
  /\ \A h \in Heads : own[h] = h
  /\ \A n \in live : own[m.next[n]] = own[n]
  /\ \E rank \in [Nodes -> Nat] : Ranked(m, live, rank)

(* A node that is not in the lists may be initialised. *)
LEMMA NewNodeInOrder ==
  ASSUME NEW m, NEW live \in SUBSET Nodes, NEW own, InOrder(m, live, own),
         NEW c \in Nodes, c \notin live
  PROVE  InOrder(NewNode(m, c), live, own)
<1> DEFINE r == NewNode(m, c)
<1>1. m \in Memory /\ WellLinked(m, live)
  BY DEF InOrder
<1>2. r \in Memory /\ WellLinked(r, live) /\ \A n \in live : r.next[n] = m.next[n]
  BY <1>1 DEF Memory, NewNode, WellLinked
<1> HIDE DEF r
<1>3. PICK rank \in [Nodes -> Nat] : Ranked(m, live, rank)
  BY DEF InOrder
<1>4. Ranked(r, live, rank)
  BY <1>2, <1>3 DEF Ranked
<1>5. \A n \in live : own[r.next[n]] = own[n]
  BY <1>2 DEF InOrder
<1>6. own \in [Nodes -> Heads] /\ \A h \in Heads : own[h] = h
  BY DEF InOrder
<1>7. InOrder(r, live, own)
  BY <1>2, <1>3, <1>4, <1>5, <1>6 DEF InOrder
<1> QED
  BY <1>7 DEF r

(* A node put at the tail of a list belongs to its head. *)
LEMMA AddTailInOrder ==
  ASSUME NEW m, NEW live \in SUBSET Nodes, NEW own, InOrder(m, live, own),
         NEW c \in Nodes, c \notin live, c \notin Heads, NEW head \in live, head \in Heads
  PROVE  InOrder(AddTail(m, c, head), live \cup {c}, [own EXCEPT ![c] = head])
<1> DEFINE r == AddTail(m, c, head)
           last == m.prev[head]
           own2 == [own EXCEPT ![c] = head]
<1>1. m \in Memory /\ WellLinked(m, live)
  BY DEF InOrder
<1>2. r \in Memory /\ WellLinked(r, live \cup {c})
  BY <1>1, AddTailLinked
<1>3. last \in live /\ m.next[last] = head /\ \A n \in live : m.next[n] \in live
  BY <1>1 DEF WellLinked
<1>4. r.next[c] = head /\ r.next[last] = c /\ \A n \in live \ {last} : r.next[n] = m.next[n]
  <2>1. r.next = [[m.next EXCEPT ![c] = head] EXCEPT ![last] = c]
    BY DEF AddTail, AddBetween
  <2>2. m.next \in [Nodes -> Nodes] /\ last # c
    BY <1>1, <1>3 DEF Memory
  <2> HIDE DEF r, last
  <2> QED
    BY <1>3, <2>1, <2>2
<1>5. PICK rank \in [Nodes -> Nat] : Ranked(m, live, rank)
  BY DEF InOrder
<1>6. /\ own \in [Nodes -> Heads] /\ own[head] = head
      /\ \A h \in Heads : own[h] = h
      /\ \A n \in live : own[m.next[n]] = own[n]
  BY DEF InOrder
<1>7. own2 \in [Nodes -> Heads] /\ own2[c] = head /\ \A n \in Nodes \ {c} : own2[n] = own[n]
  BY <1>6
<1> DEFINE rank2 == [rank EXCEPT ![c] = rank[last] + 1]
<1>8. /\ rank2 \in [Nodes -> Nat] /\ rank2[c] = rank[last] + 1 /\ rank[last] \in Nat
      /\ \A n \in Nodes \ {c} : rank2[n] = rank[n]
  <2>1. rank[last] \in Nat
    BY <1>3, <1>5
  <2> HIDE DEF last
  <2> QED
    BY <1>5, <2>1
<1>9. live \subseteq Nodes \ {c}
  OBVIOUS
<1>10. Heads \subseteq Nodes \ {c}
  BY NodesAssumption
<1> HIDE DEF r, last, own2, rank2
<1>11. ASSUME NEW n \in live \cup {c}
       PROVE  own2[r.next[n]] = own2[n] /\ (r.next[n] \notin Heads => rank2[n] < rank2[r.next[n]])
  <2>1. CASE n = c
    BY <1>4, <1>6, <1>7, <1>9, <2>1
  <2>2. CASE n = last
    <3>1. own2[n] = own[last] /\ own[last] = head
      BY <1>3, <1>6, <1>7, <1>9, <2>2
    <3>2. rank2[n] = rank[last]
      BY <1>3, <1>8, <1>9, <2>2
    <3> QED
      BY <1>4, <1>7, <1>8, <2>2, <3>1, <3>2
  <2>3. CASE n \in live \ {last}
    <3>1. r.next[n] = m.next[n] /\ m.next[n] \in live
      BY <1>3, <1>4, <2>3
    <3>2. own2[r.next[n]] = own[m.next[n]] /\ own2[n] = own[n] /\ own[m.next[n]] = own[n]
      BY <1>6, <1>7, <1>9, <2>3, <3>1
    <3>3. rank2[r.next[n]] = rank[m.next[n]] /\ rank2[n] = rank[n]
      BY <1>8, <1>9, <2>3, <3>1
    <3>4. m.next[n] \notin Heads => rank[n] < rank[m.next[n]]
      BY <1>5, <2>3 DEF Ranked
    <3> QED
      BY <3>1, <3>2, <3>3, <3>4
  <2> QED
    BY <2>1, <2>2, <2>3
<1>12. \A h \in Heads : own2[h] = h
  BY <1>6, <1>7, <1>10
<1>13. Ranked(r, live \cup {c}, rank2)
  BY <1>11 DEF Ranked
<1>14. InOrder(r, live \cup {c}, own2)
  BY <1>2, <1>7, <1>8, <1>11, <1>12, <1>13 DEF InOrder
<1> QED
  BY <1>14 DEF r, own2

(* Taking a connection out of its list leaves the others in order. *)
LEMMA DeleteInOrder ==
  ASSUME NEW m, NEW live \in SUBSET Nodes, NEW own, InOrder(m, live, own),
         NEW c \in live, c \notin Heads
  PROVE  InOrder(Delete(m, c), live \ {c}, own)
<1> DEFINE r == Delete(m, c)
           before == m.prev[c]
           after == m.next[c]
<1>1. m \in Memory /\ WellLinked(m, live)
  BY DEF InOrder
<1>2. r \in Memory /\ WellLinked(r, live \ {c})
  BY <1>1, DeleteLinked
<1>3. before \in live /\ m.next[before] = c /\ after \in live
  BY <1>1 DEF WellLinked
<1>4. r.next[before] = after /\ \A n \in live \ {before} : r.next[n] = m.next[n]
  BY <1>1, <1>3 DEF Delete, Memory
<1>5. PICK rank \in [Nodes -> Nat] : Ranked(m, live, rank)
  BY DEF InOrder
<1>6. own \in [Nodes -> Heads] /\ (\A h \in Heads : own[h] = h) /\ \A n \in live : own[m.next[n]] = own[n]
  BY DEF InOrder
<1>7. own[after] = own[c] /\ own[c] = own[before]
  BY <1>3, <1>6
<1>8. after \notin Heads => rank[before] < rank[after]
  <2>1. rank[before] < rank[c] /\ (after \notin Heads => rank[c] < rank[after])
    BY <1>3, <1>5 DEF Ranked
  <2>2. rank[before] \in Nat /\ rank[c] \in Nat /\ rank[after] \in Nat
    BY <1>3, <1>5
  <2> HIDE DEF before, after
  <2> QED
    BY <2>1, <2>2
<1> HIDE DEF r, before, after
<1>9. \A n \in live \ {c} : own[r.next[n]] = own[n]
  BY <1>3, <1>4, <1>6, <1>7
<1>10. Ranked(r, live \ {c}, rank)
  BY <1>4, <1>5, <1>8 DEF Ranked
<1>11. InOrder(r, live \ {c}, own)
  BY <1>2, <1>5, <1>6, <1>9, <1>10 DEF InOrder
<1> QED
  BY <1>11 DEF r

(* Delete, then AddTail, as OnMessage does. *)
LEMMA MovedInOrder ==
  ASSUME NEW m, NEW live \in SUBSET Nodes, NEW own, InOrder(m, live, own),
         NEW c \in live, c \notin Heads, NEW head \in live, head \in Heads
  PROVE  InOrder(AddTail(Delete(m, c), c, head), live, [own EXCEPT ![c] = head])
<1> DEFINE cut == Delete(m, c)
           others == live \ {c}
<1>1. InOrder(cut, others, own)
  BY DeleteInOrder
<1>2. others \in SUBSET Nodes /\ c \in Nodes /\ c \notin others /\ head \in others /\ others \cup {c} = live
  OBVIOUS
<1> HIDE DEF cut, others
<1>3. InOrder(AddTail(cut, c, head), others \cup {c}, [own EXCEPT ![c] = head])
  BY <1>1, <1>2, AddTailInOrder
<1> QED
  BY <1>2, <1>3 DEF cut

(* A node deleted twice is deleted: its pointers have stayed. *)
LEMMA DeletedTwice ==
  ASSUME NEW m \in Memory, NEW live \in SUBSET Nodes, WellLinked(m, live), NEW c \in live
  PROVE  Delete(Delete(m, c), c) = Delete(m, c)
<1> DEFINE r == Delete(m, c)
           a == m.prev[c]
           b == m.next[c]
<1>1. a \in Nodes /\ b \in Nodes /\ m.next[a] = c /\ m.prev[b] = c
  BY DEF WellLinked
<1>2. r.prev = [m.prev EXCEPT ![b] = a] /\ r.next = [m.next EXCEPT ![a] = b]
  BY DEF Delete
<1>3. m.prev \in [Nodes -> Nodes] /\ m.next \in [Nodes -> Nodes]
  BY DEF Memory
<1>4. r.prev[c] = a /\ r.next[c] = b
  BY <1>1, <1>2, <1>3
<1> HIDE DEF a, b
<1>5. [r.prev EXCEPT ![b] = a] = r.prev /\ [r.next EXCEPT ![a] = b] = r.next
  BY <1>1, <1>2, <1>3
<1>6. Delete(r, c) = [prev |-> r.prev, next |-> r.next]
  BY <1>4, <1>5 DEF Delete
<1> QED
  BY <1>6 DEF Delete

-----------------------------------------------------------------------------
(* What a traversal finds *)

(* A traversal has visited at most one node a step, all of the list of     *)
(* head and with ranks that grow, and left out none it passed.             *)
OnList(m, L, own, rank, head, k, w) ==
  /\ w.at \in L \cup Heads /\ own[w.at] = head
  /\ w.seen \subseteq {c \in L : own[c] = head}
  /\ \A n \in w.seen : w.at # head => rank[n] < rank[w.at]
  /\ \A n \in w.seen \cup {head} : m.next[n] \in w.seen \cup {w.at}
  /\ IsFiniteSet(w.seen)
  /\ w.at # head => Cardinality(w.seen) = k

(* A step of the traversal goes on with the next node, or has come back to *)
(* the head.                                                               *)
Onward(m, head, w) ==
  IF w.at = head THEN w ELSE [at |-> m.next[w.at], seen |-> w.seen \cup {w.at}]

LEMMA OnwardFacts ==
  ASSUME NEW m, NEW L \in SUBSET Conns, NEW own, InOrder(m, L \cup Heads, own),
         NEW rank \in [Nodes -> Nat], Ranked(m, L \cup Heads, rank),
         NEW head \in Heads, NEW k \in Nat, NEW w, OnList(m, L, own, rank, head, k, w)
  PROVE  OnList(m, L, own, rank, head, k + 1, Onward(m, head, w))
<1>1. CASE w.at = head
  BY <1>1 DEF Onward, OnList
<1>2. CASE w.at # head
  <2> DEFINE x == w.at
             S == w.seen
             y == m.next[x]
  <2>1. /\ x \in L \cup Heads /\ own[x] = head
        /\ S \subseteq {c \in L : own[c] = head}
        /\ \A n \in S : rank[n] < rank[x]
        /\ \A n \in S \cup {head} : m.next[n] \in S \cup {x}
        /\ IsFiniteSet(S) /\ Cardinality(S) = k
    BY <1>2 DEF OnList
  <2>2. /\ \A h \in Heads : own[h] = h
        /\ \A n \in L \cup Heads : own[m.next[n]] = own[n] /\ m.next[n] \in L \cup Heads
    BY DEF InOrder, WellLinked
  <2>3. x \in L /\ x \in Nodes /\ S \subseteq Nodes
    BY <1>2, <2>1, <2>2, NodesAssumption
  <2>4. y \in L \cup Heads /\ own[y] = head /\ y \in Nodes
    BY <2>1, <2>2, NodesAssumption
  <2>5. y # head => rank[x] < rank[y]
    <3>1. y \in Heads => y = head
      BY <2>2, <2>4
    <3> QED
      BY <2>3, <3>1 DEF Ranked
  <2>6. x \notin S
    <3>1. rank[x] \in Nat
      BY <2>3
    <3> QED
      BY <2>1, <3>1
  <2>7. Onward(m, head, w) = [at |-> y, seen |-> S \cup {x}]
    BY <1>2 DEF Onward
  <2> HIDE DEF x, S
  <2>8. IsFiniteSet(S \cup {x}) /\ Cardinality(S \cup {x}) = k + 1
    BY <2>1, <2>6, FS_AddElement
  <2>9. \A n \in S \cup {x} : y # head => rank[n] < rank[y]
    <3> SUFFICES ASSUME NEW n \in S \cup {x}, y # head PROVE rank[n] < rank[y]
      OBVIOUS
    <3>1. rank[n] \in Nat /\ rank[x] \in Nat /\ rank[y] \in Nat
      BY <2>3, <2>4
    <3>2. rank[n] <= rank[x]
      BY <2>1, <3>1
    <3> QED
      BY <2>5, <3>1, <3>2
  <2>10. \A n \in (S \cup {x}) \cup {head} : m.next[n] \in (S \cup {x}) \cup {y}
    BY <2>1
  <2>11. S \cup {x} \subseteq {c \in L : own[c] = head}
    BY <2>1, <2>3
  <2> HIDE DEF y
  <2> QED
    BY <2>4, <2>7, <2>8, <2>9, <2>10, <2>11 DEF OnList
<1> QED
  BY <1>1, <1>2

(* What Visited computes, as a chain of steps. *)
LEMMA VisitedByOnward ==
  ASSUME NEW m \in Memory, NEW head \in Nodes, NEW fuel \in Nat
  PROVE  \E f : /\ f[0] = [at |-> m.next[head], seen |-> {}]
                /\ \A k \in 1 .. fuel : f[k] = Onward(m, head, f[k - 1])
                /\ Visited(m, head, fuel) = f[fuel].seen
<1> DEFINE S == [at : Nodes, seen : SUBSET Nodes]
           step == [w \in S |-> Onward(m, head, w)]
           first == [at |-> m.next[head], seen |-> {}]
           Walk(f) == f = [k \in 0 .. fuel |->
             IF k = 0 THEN [at |-> m.next[head], seen |-> {}]
             ELSE LET w == f[k - 1] IN
                  IF w.at = head THEN w ELSE [at |-> m.next[w.at], seen |-> w.seen \cup {w.at}]]
<1>1. first \in S
  BY DEF Memory
<1>2. step \in [S -> S]
  <2>1. \A w \in S : Onward(m, head, w) \in S
    BY DEF Onward, Memory
  <2> QED
    BY <2>1
<1>3. \E f \in [0 .. fuel -> S] : f[0] = first /\ \A k \in 1 .. fuel : f[k] = step[f[k - 1]]
  <2> HIDE DEF S, step, first
  <2>1. PICK f : IsChain(f, S, first, step, fuel)
    BY <1>1, <1>2, Iterates
  <2> QED
    BY <2>1 DEF IsChain
<1>4. \E f : Walk(f)
  <2>1. PICK f \in [0 .. fuel -> S] : f[0] = first /\ \A k \in 1 .. fuel : f[k] = step[f[k - 1]]
    BY <1>3
  <2>2. \A k \in 0 .. fuel : k # 0 => k \in 1 .. fuel /\ f[k - 1] \in S
    <3> HIDE DEF S
    <3> QED
      BY <2>1
  <2>3. \A k \in 0 .. fuel :
          f[k] = IF k = 0 THEN [at |-> m.next[head], seen |-> {}]
                 ELSE LET w == f[k - 1] IN
                      IF w.at = head THEN w ELSE [at |-> m.next[w.at], seen |-> w.seen \cup {w.at}]
    <3> SUFFICES ASSUME NEW k \in 0 .. fuel, k # 0
                 PROVE  f[k] = Onward(m, head, f[k - 1])
      BY <2>1 DEF Onward
    <3> HIDE DEF S
    <3> QED
      BY <2>1, <2>2
  <2>4. f = [k \in 0 .. fuel |-> f[k]]
    BY <2>1
  <2>5. Walk(f)
    BY <2>3, <2>4
  <2> QED
    BY <2>5
<1>5. Walk(CHOOSE f : Walk(f))
  <2> HIDE DEF Walk
  <2> QED
    BY <1>4, Zenon
<1>6. PICK f : f = CHOOSE g : Walk(g)
  OBVIOUS
<1>7. Visited(m, head, fuel) = f[fuel].seen
  BY <1>6 DEF Visited
<1>8. f[0] = [at |-> m.next[head], seen |-> {}] /\ \A k \in 1 .. fuel : f[k] = Onward(m, head, f[k - 1])
  <2>1. Walk(f)
    <3> HIDE DEF Walk
    <3> QED
      BY <1>5, <1>6
  <2>2. \A k \in 0 .. fuel :
          f[k] = IF k = 0 THEN [at |-> m.next[head], seen |-> {}]
                 ELSE LET w == f[k - 1] IN
                      IF w.at = head THEN w ELSE [at |-> m.next[w.at], seen |-> w.seen \cup {w.at}]
    BY <2>1, Zenon
  <2>3. 0 \in 0 .. fuel /\ \A k \in 1 .. fuel : k \in 0 .. fuel /\ k # 0
    OBVIOUS
  <2> QED
    BY <2>2, <2>3 DEF Onward
<1> QED
  BY <1>7, <1>8

(* A traversal from the head of a list meets exactly the connections that  *)
(* belong to it, before its fuel has run out.                              *)
LEMMA VisitedIsList ==
  ASSUME NEW m, NEW L \in SUBSET Conns, NEW own, InOrder(m, L \cup Heads, own), NEW head \in Heads
  PROVE  Visited(m, head, Cardinality(Nodes)) = {c \in L : own[c] = head}
<1> DEFINE fuel == Cardinality(Nodes)
<1>1. PICK rank \in [Nodes -> Nat] : Ranked(m, L \cup Heads, rank)
  BY DEF InOrder
<1>2. fuel \in Nat /\ IsFiniteSet(Nodes) /\ head \in Nodes /\ L \subseteq Nodes /\ head \notin L
  BY NodesAssumption, FS_CardinalityType
<1>3. PICK f : /\ f[0] = [at |-> m.next[head], seen |-> {}]
               /\ \A k \in 1 .. fuel : f[k] = Onward(m, head, f[k - 1])
               /\ Visited(m, head, fuel) = f[fuel].seen
  <2>1. m \in Memory
    BY DEF InOrder
  <2> HIDE DEF fuel
  <2> QED
    BY <1>2, <2>1, VisitedByOnward
<1> DEFINE On(k) == OnList(m, L, own, rank, head, k, f[k])
<1>4. On(0)
  <2>1. m.next[head] \in L \cup Heads /\ own[m.next[head]] = head
    BY DEF InOrder, WellLinked
  <2>2. IsFiniteSet({}) /\ Cardinality({}) = 0
    BY FS_EmptySet
  <2> QED
    BY <1>3, <2>1, <2>2 DEF OnList
<1>5. ASSUME NEW k \in 1 .. fuel, On(k - 1) PROVE On(k)
  <2>1. k - 1 \in Nat /\ (k - 1) + 1 = k
    BY <1>2
  <2>2. OnList(m, L, own, rank, head, (k - 1) + 1, Onward(m, head, f[k - 1]))
    BY <1>1, <1>5, <2>1, OnwardFacts
  <2> QED
    BY <1>3, <2>1, <2>2
<1>6. On(fuel)
  <2> DEFINE T == {k \in 0 .. fuel : ~On(k)}
  <2>1. ASSUME T # {} PROVE FALSE
    <3>1. T \in SUBSET Nat
      BY <1>2
    <3>2. PICK k \in T : \A j \in T : k <= j
      <4> HIDE DEF T
      <4> QED
        BY <2>1, <3>1, HasLeast
    <3> HIDE DEF On, fuel
    <3>3. k \in 1 .. fuel /\ k - 1 \in 0 .. fuel
      BY <1>2, <1>4, <3>2
    <3>4. k - 1 \notin T
      <4> HIDE DEF T
      <4> QED
        BY <3>2, <3>3
    <3> QED
      BY <1>5, <3>2, <3>3, <3>4
  <2> HIDE DEF On, fuel
  <2> QED
    BY <1>2, <2>1
<1> DEFINE S == f[fuel].seen
           x == f[fuel].at
<1>7. /\ own[x] = head
      /\ S \subseteq {c \in L : own[c] = head}
      /\ \A n \in S \cup {head} : m.next[n] \in S \cup {x}
      /\ x # head => Cardinality(S) = fuel
  BY <1>6 DEF OnList
<1>8. x = head
  <2>1. S \in SUBSET Nodes /\ head \in Nodes /\ head \notin S
    BY <1>2, <1>7
  <2> HIDE DEF S, x
  <2>2. Cardinality(S) = Cardinality(Nodes) => Nodes = S
    BY <1>2, <2>1, FS_Subset
  <2> QED
    BY <1>7, <2>1, <2>2
<1>9. ASSUME NEW c \in L, own[c] = head, c \notin S PROVE FALSE
  <2> DEFINE T == {rank[d] : d \in {e \in L : own[e] = head /\ e \notin S}}
  <2>1. T \in SUBSET Nat /\ T # {}
    BY <1>1, <1>2, <1>9
  <2>2. PICK r \in T : \A j \in T : r <= j
    <3> HIDE DEF T
    <3> QED
      BY <2>1, HasLeast
  <2>3. PICK d \in L : own[d] = head /\ d \notin S /\ r = rank[d]
    BY <2>2
  <2> DEFINE before == m.prev[d]
  <2>4. before \in L \cup Heads /\ m.next[before] = d
    BY DEF InOrder, WellLinked
  <2>5. own[before] = head /\ d \notin Heads /\ \A h \in Heads : own[h] = h
    BY <2>3, <2>4, NodesAssumption DEF InOrder
  <2> HIDE DEF S, x, before
  <2>6. before \notin S \cup {head}
    BY <1>7, <1>8, <1>2, <2>3, <2>4
  <2>7. before \in L
    BY <2>4, <2>5, <2>6
  <2>8. rank[before] < rank[d]
    BY <1>1, <2>4, <2>5 DEF Ranked
  <2>9. rank[before] \in T
    BY <2>5, <2>6, <2>7
  <2>10. rank[before] \in Nat /\ rank[d] \in Nat
    BY <1>1, <1>2, <2>7
  <2> HIDE DEF T
  <2>11. rank[d] <= rank[before]
    BY <2>2, <2>3, <2>9
  <2> QED
    BY <2>8, <2>10, <2>11
<1> HIDE DEF S
<1>10. S = {c \in L : own[c] = head}
  BY <1>7, <1>9
<1> QED
  BY <1>3, <1>10 DEF S

-----------------------------------------------------------------------------
(* The invariant *)

(* OnTimeOut is at a node of the front list, and has asked to close those  *)
(* before it; on an EPollLoop it has deleted them.                         *)
AtFrontList(own) ==
  it # NoNode =>
    /\ it \in linked \cup Heads
    /\ own[it] = Front
    /\ \E done \in SUBSET (linked \cap closing) :
         \A n \in done \cup {Front} : mem.next[n] \in done \cup {it}

WheelIInv ==
  /\ wheel \in [1 .. NSlots -> Heads]
  /\ \A i, j \in 1 .. NSlots : wheel[i] = wheel[j] => i = j
  /\ linked \subseteq Conns
  /\ it \in Nodes \cup {NoNode}
  /\ atOnce => closing = {}
  /\ IF dangling
       THEN atOnce /\ it = NoNode
       ELSE \E own : InOrder(mem, linked \cup Heads, own) /\ AtFrontList(own)

LEMMA SlotCount == NSlots \in Nat /\ NSlots > 1 /\ IsFiniteSet(Heads)
<1>1. IsFiniteSet(Heads)
  BY NodesAssumption, FS_Subset
<1> QED
  BY <1>1, NodesAssumption, FS_CardinalityType DEF NSlots

LEMMA EndsAreHeads == WheelIInv => Front \in Heads /\ Back \in Heads
BY SlotCount DEF WheelIInv, Front, Back

(* Every head is in the wheel. *)
LEMMA HeadsAreSlots == WheelIInv => \A h \in Heads : \E i \in 1 .. NSlots : wheel[i] = h
<1> SUFFICES ASSUME WheelIInv PROVE \A h \in Heads : \E i \in 1 .. NSlots : wheel[i] = h
  OBVIOUS
<1>1. wheel \in Injection(1 .. NSlots, Heads)
  BY DEF WheelIInv, Injection, IsInjective
<1>2. Cardinality(1 .. NSlots) = NSlots
  BY SlotCount, FS_Interval
<1>3. wheel \in Surjection(1 .. NSlots, Heads)
  BY <1>1, <1>2, SlotCount, FS_Injection DEF NSlots
<1> QED
  BY <1>3 DEF Surjection

LEMMA WheelInitInv == WheelInit => WheelIInv
<1> SUFFICES ASSUME WheelInit PROVE WheelIInv
  OBVIOUS
<1>1. mem \in Memory
  BY DEF WheelInit, Memory
<1>2. wheel \in [1 .. NSlots -> Heads] /\ \A i, j \in 1 .. NSlots : wheel[i] = wheel[j] => i = j
  BY DEF WheelInit
<1>3. WellLinked(mem, linked \cup Heads)
  BY NodesAssumption DEF WheelInit, WellLinked
<1>4. PICK own : own = [n \in Nodes |-> IF n \in Heads THEN n ELSE Front]
  OBVIOUS
<1>5. own \in [Nodes -> Heads] /\ \A h \in Heads : own[h] = h
  <2>1. Front \in Heads
    BY <1>2, SlotCount DEF Front
  <2> QED
    BY <1>4, <2>1, NodesAssumption
<1>6. \A n \in linked \cup Heads : own[mem.next[n]] = own[n] /\ mem.next[n] \in Heads
  BY NodesAssumption DEF WheelInit
<1>7. \E rank \in [Nodes -> Nat] : Ranked(mem, linked \cup Heads, rank)
  <2>1. [n \in Nodes |-> 0] \in [Nodes -> Nat]
    OBVIOUS
  <2>2. Ranked(mem, linked \cup Heads, [n \in Nodes |-> 0])
    BY <1>6 DEF Ranked
  <2> QED
    BY <2>1, <2>2
<1>8. InOrder(mem, linked \cup Heads, own)
  BY <1>1, <1>3, <1>5, <1>6, <1>7 DEF InOrder
<1>9. AtFrontList(own)
  BY DEF WheelInit, AtFrontList
<1> QED
  BY <1>2, <1>8, <1>9 DEF WheelInit, WheelIInv

-----------------------------------------------------------------------------
(* What the actions do to the lists, with own as it is before the step *)

LEMMA NewConnectionOrder ==
  ASSUME WheelIInv, NEW own, InOrder(mem, linked \cup Heads, own),
         NEW c \in Conns, NewConnection(c)
  PROVE  InOrder(mem', linked' \cup Heads, [own EXCEPT ![c] = Back])
<1> DEFINE live == linked \cup Heads
           fresh == NewNode(mem, c)
<1>1. live \in SUBSET Nodes /\ c \in Nodes /\ c \notin live /\ c \notin Heads /\ Back \in live /\ Back \in Heads
  BY NodesAssumption, EndsAreHeads DEF WheelIInv, NewConnection
<1>2. mem' = AddTail(fresh, c, Back) /\ linked' \cup Heads = live \cup {c}
  BY DEF NewConnection
<1>3. InOrder(mem, live, own)
  OBVIOUS
<1> HIDE DEF live
<1>4. InOrder(fresh, live, own)
  BY <1>1, <1>3, NewNodeInOrder
<1> HIDE DEF fresh
<1>5. InOrder(AddTail(fresh, c, Back), live \cup {c}, [own EXCEPT ![c] = Back])
  BY <1>1, <1>4, AddTailInOrder
<1> QED
  BY <1>2, <1>5

LEMMA OnMessageOrder ==
  ASSUME WheelIInv, NEW own, InOrder(mem, linked \cup Heads, own), NEW c \in linked
  PROVE  InOrder(AddTail(Delete(mem, c), c, Back), linked \cup Heads, [own EXCEPT ![c] = Back])
<1> DEFINE live == linked \cup Heads
<1>1. live \in SUBSET Nodes /\ c \in live /\ c \notin Heads /\ Back \in live /\ Back \in Heads
  BY NodesAssumption, EndsAreHeads DEF WheelIInv
<1>2. InOrder(mem, live, own)
  OBVIOUS
<1> HIDE DEF live
<1>3. InOrder(AddTail(Delete(mem, c), c, Back), live, [own EXCEPT ![c] = Back])
  BY <1>1, <1>2, MovedInOrder
<1> QED
  BY <1>3 DEF live

LEMMA RemovedOrder ==
  ASSUME WheelIInv, NEW own, InOrder(mem, linked \cup Heads, own), NEW c \in linked, Removed(c)
  PROVE  InOrder(mem', linked' \cup Heads, own)
<1> DEFINE live == linked \cup Heads
<1>1. live \in SUBSET Nodes /\ c \in live /\ c \notin Heads
  BY NodesAssumption DEF WheelIInv
<1>2. mem' = Delete(mem, c) /\ linked' \cup Heads = live \ {c}
  BY <1>1 DEF Removed
<1>3. InOrder(mem, live, own)
  OBVIOUS
<1> HIDE DEF live
<1>4. InOrder(Delete(mem, c), live \ {c}, own)
  BY <1>1, <1>3, DeleteInOrder
<1> QED
  BY <1>2, <1>4

(* SetClosing, on a PollLoop or on an EPollLoop. *)
LEMMA AskCloseOrder ==
  ASSUME WheelIInv, NEW own, InOrder(mem, linked \cup Heads, own), NEW c \in linked, AskClose(c)
  PROVE  InOrder(mem', linked' \cup Heads, own) /\ linked' \subseteq linked
<1>1. CASE atOnce /\ Removed(c)
  BY <1>1, RemovedOrder DEF Removed
<1>2. CASE UNCHANGED <<mem, linked>>
  BY <1>2
<1> QED
  BY <1>1, <1>2 DEF AskClose

(* A message callback that closes its connection at once has its node      *)
(* deleted twice and put back: the lists are those of an OnMessage.        *)
LEMMA DanglingOrder ==
  ASSUME WheelIInv, NEW own, InOrder(mem, linked \cup Heads, own), NEW c \in linked
  PROVE  AddTail(Delete(Delete(mem, c), c), c, Back) = AddTail(Delete(mem, c), c, Back)
<1> DEFINE live == linked \cup Heads
<1>1. live \in SUBSET Nodes /\ c \in live /\ mem \in Memory /\ WellLinked(mem, live)
  BY NodesAssumption DEF WheelIInv, InOrder
<1> HIDE DEF live
<1>2. Delete(Delete(mem, c), c) = Delete(mem, c)
  BY <1>1, DeletedTwice
<1> QED
  BY <1>2

LEMMA IdleOrder ==
  ASSUME WheelIInv, Idle
  PROVE  \E own : InOrder(mem, linked \cup Heads, own)
BY DEF WheelIInv, Idle

LEMMA NewConnectionInv ==
  ASSUME WheelIInv, NEW c \in Conns, NewConnection(c)
  PROVE  WheelIInv'
<1>1. PICK own : InOrder(mem, linked \cup Heads, own)
  BY IdleOrder DEF NewConnection
<1>2. InOrder(mem', linked' \cup Heads, [own EXCEPT ![c] = Back])
  BY <1>1, NewConnectionOrder
<1>3. it' = NoNode /\ \A f : AtFrontList(f)'
  BY DEF NewConnection, Idle, AtFrontList
<1> QED
  BY <1>2, <1>3 DEF WheelIInv, NewConnection, Idle

LEMMA OnMessageInv ==
  ASSUME WheelIInv, NEW c \in Conns, OnMessage(c)
  PROVE  WheelIInv'
<1>1. PICK own : InOrder(mem, linked \cup Heads, own)
  BY IdleOrder DEF OnMessage
<1>2. InOrder(mem', linked' \cup Heads, [own EXCEPT ![c] = Back])
  BY <1>1, OnMessageOrder DEF OnMessage
<1>3. it' = NoNode /\ \A f : AtFrontList(f)'
  BY DEF OnMessage, Idle, AtFrontList
<1> QED
  BY <1>2, <1>3 DEF WheelIInv, OnMessage, Idle

LEMMA OnMessageClosesInv ==
  ASSUME WheelIInv, NEW c \in Conns, OnMessageCloses(c)
  PROVE  WheelIInv'
<1>1. /\ Idle /\ c \in linked /\ atOnce' = atOnce /\ wheel' = wheel /\ it' = it /\ it = NoNode
      /\ linked' \subseteq linked
  BY DEF OnMessageCloses, Idle
<1>2. CASE atOnce
  <2>1. dangling' = TRUE /\ closing' = closing
    BY <1>2 DEF OnMessageCloses
  <2> QED
    BY <1>1, <1>2, <2>1 DEF WheelIInv
<1>3. CASE ~atOnce
  <2>1. /\ linked' = linked /\ dangling' = dangling /\ ~dangling
        /\ mem' = AddTail(Delete(mem, c), c, Back)
    BY <1>1, <1>3 DEF OnMessageCloses, Idle
  <2>2. PICK own : InOrder(mem, linked \cup Heads, own)
    BY <1>1, IdleOrder
  <2>3. InOrder(mem', linked' \cup Heads, [own EXCEPT ![c] = Back])
    BY <1>1, <2>1, <2>2, OnMessageOrder
  <2>4. \A f : AtFrontList(f)'
    BY <1>1 DEF AtFrontList
  <2> QED
    BY <1>1, <1>3, <2>1, <2>3, <2>4 DEF WheelIInv
<1> QED
  BY <1>2, <1>3

LEMMA CloseInv ==
  ASSUME WheelIInv, NEW c \in Conns, Close(c)
  PROVE  WheelIInv'
<1>1. Idle /\ c \in linked /\ AskClose(c) /\ UNCHANGED <<atOnce, wheel, it, dangling>>
  BY DEF Close
<1>2. PICK own : InOrder(mem, linked \cup Heads, own)
  BY <1>1, IdleOrder
<1>3. InOrder(mem', linked' \cup Heads, own) /\ linked' \subseteq linked
  BY <1>1, <1>2, AskCloseOrder
<1>4. AtFrontList(own)'
  BY <1>1 DEF Idle, AtFrontList
<1>5. atOnce' => closing' = {}
  BY <1>1 DEF WheelIInv, AskClose
<1> QED
  BY <1>1, <1>3, <1>4, <1>5 DEF WheelIInv, Idle

LEMMA OnCloseConnectionInv ==
  ASSUME WheelIInv, NEW c \in Conns, OnCloseConnection(c)
  PROVE  WheelIInv'
<1>1. /\ Idle /\ c \in linked /\ Removed(c) /\ closing' = closing \ {c}
      /\ UNCHANGED <<atOnce, wheel, it, dangling>>
  BY DEF OnCloseConnection
<1>2. PICK own : InOrder(mem, linked \cup Heads, own)
  BY <1>1, IdleOrder
<1>3. InOrder(mem', linked' \cup Heads, own) /\ linked' \subseteq linked
  BY <1>1, <1>2, RemovedOrder DEF Removed
<1>4. AtFrontList(own)'
  BY <1>1 DEF Idle, AtFrontList
<1> QED
  BY <1>1, <1>3, <1>4 DEF WheelIInv, Idle

LEMMA TimeOutInv ==
  ASSUME WheelIInv, TimeOut
  PROVE  WheelIInv'
<1>1. /\ Idle /\ it' = mem.next[Front]
      /\ UNCHANGED <<atOnce, mem, wheel, linked, closing, dangling>>
  BY DEF TimeOut
<1>2. PICK own : InOrder(mem, linked \cup Heads, own)
  BY <1>1, IdleOrder
<1>3. Front \in Heads /\ Front' = Front
  BY <1>1, EndsAreHeads DEF Front
<1>4. it' \in linked \cup Heads /\ own[it'] = Front
  BY <1>1, <1>2, <1>3 DEF InOrder, WellLinked
<1>5. AtFrontList(own)'
  <2>1. \A n \in {} \cup {Front} : mem.next[n] \in {} \cup {it'}
    BY <1>1
  <2>2. {} \in SUBSET (linked \cap closing)
    OBVIOUS
  <2>3. \E done \in SUBSET (linked \cap closing) :
          \A n \in done \cup {Front} : mem.next[n] \in done \cup {it'}
    BY <2>1, <2>2
  <2> QED
    BY <1>1, <1>3, <1>4, <2>3 DEF AtFrontList
<1>6. it' \in Nodes
  BY <1>4, NodesAssumption DEF WheelIInv
<1> QED
  BY <1>1, <1>2, <1>5, <1>6 DEF WheelIInv, Idle

LEMMA CloseNextInv ==
  ASSUME WheelIInv, CloseNext
  PROVE  WheelIInv'
<1>1. /\ it # NoNode /\ it # Front /\ AskClose(it) /\ it' = mem'.next[it]
      /\ UNCHANGED <<atOnce, wheel, dangling>>
  BY DEF CloseNext
<1>2. ~dangling
  BY <1>1 DEF WheelIInv
<1>3. PICK own : InOrder(mem, linked \cup Heads, own) /\ AtFrontList(own)
  BY <1>2 DEF WheelIInv
<1>4. PICK done \in SUBSET (linked \cap closing) :
        \A n \in done \cup {Front} : mem.next[n] \in done \cup {it}
  BY <1>1, <1>3 DEF AtFrontList
<1>5. it \in linked /\ own[it] = Front /\ Front \in Heads /\ Front' = Front
  BY <1>1, <1>3, EndsAreHeads DEF AtFrontList, InOrder, Front
<1>6. InOrder(mem', linked' \cup Heads, own) /\ linked' \subseteq linked
  BY <1>1, <1>3, <1>5, AskCloseOrder
<1>7. mem.next[it] \in linked \cup Heads /\ mem.prev[mem.next[it]] = it /\ own[mem.next[it]] = Front
  BY <1>3, <1>5 DEF InOrder, WellLinked
<1>8. CASE ~atOnce
  <2>1. mem' = mem /\ linked' = linked /\ closing' = closing \cup {it}
    BY <1>1, <1>8 DEF AskClose
  <2>2. done \cup {it} \in SUBSET (linked' \cap closing')
    BY <1>5, <2>1
  <2>3. \A n \in (done \cup {it}) \cup {Front} : mem'.next[n] \in (done \cup {it}) \cup {it'}
    BY <1>1, <1>4, <2>1
  <2>4. AtFrontList(own)'
    BY <1>1, <1>5, <1>7, <2>1, <2>2, <2>3 DEF AtFrontList
  <2>5. it' \in Nodes
    BY <1>1, <1>7, <2>1, NodesAssumption DEF WheelIInv
  <2> QED
    BY <1>1, <1>2, <1>6, <1>8, <2>1, <2>4, <2>5 DEF WheelIInv
<1>9. CASE atOnce
  <2>1. closing = {} /\ done = {}
    BY <1>9 DEF WheelIInv
  <2>2. mem' = Delete(mem, it) /\ linked' = linked \ {it} /\ closing' = closing
    BY <1>1, <1>9 DEF AskClose, Removed
  <2>3. mem.next[Front] = it /\ mem.prev[it] = Front
    BY <1>3, <1>4, <1>5, <2>1 DEF InOrder, WellLinked
  <2>4. mem.next[it] # it
    BY <1>1, <1>7, <2>3
  <2>5. mem'.next[it] = mem.next[it] /\ mem'.next[Front] = mem.next[it]
    <3>1. mem \in Memory /\ Front \in Nodes
      BY <1>3, <1>5, NodesAssumption DEF InOrder
    <3> QED
      BY <1>1, <2>2, <2>3, <3>1 DEF Delete, Memory
  <2>6. it' \in linked' \cup Heads /\ own[it'] = Front
    BY <1>1, <1>7, <2>2, <2>4, <2>5
  <2>7. {} \in SUBSET (linked' \cap closing') /\ \A n \in {} \cup {Front} : mem'.next[n] \in {} \cup {it'}
    BY <1>1, <2>5
  <2>8. AtFrontList(own)'
    BY <1>5, <2>6, <2>7 DEF AtFrontList
  <2>9. it' \in Nodes
    BY <2>2, <2>6, NodesAssumption DEF WheelIInv
  <2> QED
    BY <1>1, <1>2, <1>6, <2>1, <2>2, <2>8, <2>9 DEF WheelIInv
<1> QED
  BY <1>8, <1>9

(* Turning the wheel keeps its heads apart. *)
LEMMA RotatedFacts ==
  ASSUME WheelIInv
  PROVE  /\ Rotated \in [1 .. NSlots -> Heads]
         /\ \A i, j \in 1 .. NSlots : Rotated[i] = Rotated[j] => i = j
<1> DEFINE at(i) == IF i < NSlots THEN i + 1 ELSE 1
<1>1. \A i \in 1 .. NSlots : at(i) \in 1 .. NSlots /\ Rotated[i] = wheel[at(i)]
  BY SlotCount DEF Rotated, Front
<1>2. \A i, j \in 1 .. NSlots : at(i) = at(j) => i = j
  BY SlotCount
<1>3. wheel \in [1 .. NSlots -> Heads] /\ \A i, j \in 1 .. NSlots : wheel[i] = wheel[j] => i = j
  BY DEF WheelIInv
<1> HIDE DEF at
<1>4. Rotated \in [1 .. NSlots -> Heads]
  <2>1. \A i \in 1 .. NSlots : Rotated[i] \in Heads
    BY <1>1, <1>3
  <2>2. Rotated = [i \in 1 .. NSlots |-> Rotated[i]]
    BY DEF Rotated
  <2> QED
    BY <2>1, <2>2
<1> QED
  BY <1>1, <1>2, <1>3, <1>4

LEMMA TurnWheelInv ==
  ASSUME WheelIInv, TurnWheel
  PROVE  WheelIInv'
<1>1. it = Front /\ it' = NoNode /\ wheel' = Rotated
      /\ UNCHANGED <<atOnce, mem, linked, closing, dangling>>
  BY DEF TurnWheel
<1>2. ~dangling
  BY <1>1, EndsAreHeads, NodesAssumption DEF WheelIInv
<1>3. PICK own : InOrder(mem, linked \cup Heads, own)
  BY <1>2 DEF WheelIInv
<1>4. AtFrontList(own)'
  BY <1>1 DEF AtFrontList
<1>5. /\ wheel' \in [1 .. NSlots -> Heads]
      /\ \A i, j \in 1 .. NSlots : wheel'[i] = wheel'[j] => i = j
  BY <1>1, RotatedFacts
<1> QED
  BY <1>1, <1>2, <1>3, <1>4, <1>5 DEF WheelIInv

LEMMA WheelStepInv == WheelIInv /\ [WheelNext]_wheelVars => WheelIInv'
<1> SUFFICES ASSUME WheelIInv, [WheelNext]_wheelVars PROVE WheelIInv'
  OBVIOUS
<1>1. CASE \E c \in Conns : NewConnection(c)
  BY <1>1, NewConnectionInv
<1>2. CASE \E c \in Conns : OnMessage(c)
  BY <1>2, OnMessageInv
<1>3. CASE \E c \in Conns : OnMessageCloses(c)
  BY <1>3, OnMessageClosesInv
<1>4. CASE \E c \in Conns : Close(c)
  BY <1>4, CloseInv
<1>5. CASE \E c \in Conns : OnCloseConnection(c)
  BY <1>5, OnCloseConnectionInv
<1>6. CASE TimeOut
  BY <1>6, TimeOutInv
<1>7. CASE CloseNext
  BY <1>7, CloseNextInv
<1>8. CASE TurnWheel
  BY <1>8, TurnWheelInv
<1>9. CASE UNCHANGED wheelVars
  <2>1. \A own : AtFrontList(own) <=> AtFrontList(own)'
    BY <1>9 DEF wheelVars, AtFrontList, Front
  <2> QED
    BY <1>9, <2>1 DEF wheelVars, WheelIInv
<1> QED
  BY <1>1, <1>2, <1>3, <1>4, <1>5, <1>6, <1>7, <1>8, <1>9 DEF WheelNext

THEOREM WheelInvariance == WheelSpec => []WheelIInv
BY WheelInitInv, WheelStepInv, PTL DEF WheelSpec

-----------------------------------------------------------------------------
(* The lists implement the wheel of sets *)

(* What is in a slot before and after a step. *)
LEMMA SlotFacts ==
  ASSUME WheelIInv, NEW own, InOrder(mem, linked \cup Heads, own)
  PROVE  /\ SlotSets = [i \in 1 .. NSlots |-> SlotSets[i]]
         /\ \A i \in 1 .. NSlots : \A c : c \in SlotSets[i] <=> c \in linked /\ own[c] = wheel[i]
         /\ Abstract!Members = linked
<1>1. linked \in SUBSET Conns /\ wheel \in [1 .. NSlots -> Heads]
  BY DEF WheelIInv
<1>2. SlotSets = [i \in 1 .. NSlots |-> Visited(mem, wheel[i], Cardinality(Nodes))]
  BY DEF SlotSets
<1>3. \A i \in 1 .. NSlots : \A c : c \in SlotSets[i] <=> c \in linked /\ own[c] = wheel[i]
  <2> SUFFICES ASSUME NEW i \in 1 .. NSlots
               PROVE  \A c : c \in SlotSets[i] <=> c \in linked /\ own[c] = wheel[i]
    OBVIOUS
  <2>1. wheel[i] \in Heads
    BY <1>1
  <2>2. Visited(mem, wheel[i], Cardinality(Nodes)) = {c \in linked : own[c] = wheel[i]}
    BY <1>1, <2>1, VisitedIsList
  <2> QED
    BY <1>2, <2>2
<1>4. \A c \in linked : \E i \in 1 .. NSlots : own[c] = wheel[i]
  BY <1>1, HeadsAreSlots, NodesAssumption DEF InOrder
<1>5. Abstract!Members = UNION {SlotSets[i] : i \in 1 .. NSlots}
  BY DEF Abstract!Members
<1>6. Abstract!Members = linked
  <2>1. \A c : c \in Abstract!Members <=> \E i \in 1 .. NSlots : c \in SlotSets[i]
    BY <1>5
  <2> QED
    BY <1>3, <1>4, <2>1
<1> QED
  BY <1>2, <1>3, <1>6

(* What is in the slots of lists that are in order. *)
SlotsOf(m, w) == [i \in 1 .. NSlots |-> Visited(m, w[i], Cardinality(Nodes))]

LEMMA SlotsAfter == SlotSets' = SlotsOf(mem', wheel')
BY DEF SlotSets, SlotsOf

(* Lists where c has moved to the back of the wheel. *)
LEMMA MovedSlots ==
  ASSUME WheelIInv, NEW own, InOrder(mem, linked \cup Heads, own), NEW c \in Conns,
         NEW m, InOrder(m, (linked \cup {c}) \cup Heads, [own EXCEPT ![c] = Back])
  PROVE  SlotsOf(m, wheel) =
           [i \in 1 .. NSlots |-> IF i = NSlots THEN SlotSets[i] \cup {c} ELSE SlotSets[i] \ {c}]
<1>1. /\ own \in [Nodes -> Heads] /\ linked \subseteq Nodes /\ c \in Nodes
      /\ NSlots \in 1 .. NSlots /\ Back = wheel[NSlots]
      /\ \A i, j \in 1 .. NSlots : wheel[i] = wheel[j] => i = j
      /\ linked \cup {c} \in SUBSET Conns /\ wheel \in [1 .. NSlots -> Heads]
  BY SMTT(30), NodesAssumption, SlotCount DEF InOrder, WheelIInv, Back
<1>2. PICK own2 : own2 = [own EXCEPT ![c] = Back]
  OBVIOUS
<1>3. own2[c] = Back /\ \A d \in Nodes \ {c} : own2[d] = own[d]
  BY <1>1, <1>2
<1>4. PICK L : L = linked \cup {c}
  OBVIOUS
<1>5. PICK s : s = SlotsOf(m, wheel)
  OBVIOUS
<1>6. InOrder(m, L \cup Heads, own2) /\ L \in SUBSET Conns
  BY <1>1, <1>2, <1>4
<1>7. /\ s = [i \in 1 .. NSlots |-> s[i]]
      /\ \A i \in 1 .. NSlots : \A d : d \in s[i] <=> d \in L /\ own2[d] = wheel[i]
  <2>1. ASSUME NEW i \in 1 .. NSlots
        PROVE  \A d : d \in s[i] <=> d \in L /\ own2[d] = wheel[i]
    <3>1. wheel[i] \in Heads
      BY <1>1, <1>5, <1>6
    <3>2. Visited(m, wheel[i], Cardinality(Nodes)) = {d \in L : own2[d] = wheel[i]}
      BY <1>1, <1>5, <1>6, <3>1, VisitedIsList
    <3> QED
      BY <1>1, <1>5, <1>6, <3>2 DEF SlotsOf
  <2>2. s = [i \in 1 .. NSlots |-> s[i]]
    BY <1>5 DEF SlotsOf
  <2> QED
    BY <2>1, <2>2
<1>8. \A i \in 1 .. NSlots : \A d : d \in SlotSets[i] <=> d \in linked /\ own[d] = wheel[i]
  BY SlotFacts
<1>9. ASSUME NEW i \in 1 .. NSlots
      PROVE  s[i] = IF i = NSlots THEN SlotSets[i] \cup {c} ELSE SlotSets[i] \ {c}
  <2>1. wheel[i] = Back <=> i = NSlots
    BY <1>1
  <2>2. c \in s[i] <=> i = NSlots
    BY <1>3, <1>4, <1>7, <2>1
  <2>3. \A d : d # c => (d \in s[i] <=> d \in SlotSets[i])
    BY <1>1, <1>3, <1>4, <1>7, <1>8
  <2> QED
    BY <2>2, <2>3
<1> QED
  BY <1>5, <1>7, <1>9

LEMMA NewConnectionJoins ==
  ASSUME WheelIInv, NEW c \in Conns, NewConnection(c)
  PROVE  Abstract!Join(c)
<1>1. PICK own : InOrder(mem, linked \cup Heads, own)
  BY IdleOrder DEF NewConnection
<1>2. c \notin linked /\ linked' = linked \cup {c} /\ closing' = closing /\ wheel' = wheel
  BY DEF NewConnection
<1>3. InOrder(mem', (linked \cup {c}) \cup Heads, [own EXCEPT ![c] = Back])
  <2>1. InOrder(mem', linked' \cup Heads, [own EXCEPT ![c] = Back])
    BY <1>1, NewConnectionOrder
  <2> QED
    BY <1>2, <2>1
<1>4. PICK m : m = mem'
  OBVIOUS
<1>5. SlotsOf(m, wheel) =
        [i \in 1 .. NSlots |-> IF i = NSlots THEN SlotSets[i] \cup {c} ELSE SlotSets[i] \ {c}]
  BY <1>1, <1>3, <1>4, MovedSlots
<1>6. SlotSets' = SlotsOf(m, wheel)
  BY <1>2, <1>4, SlotsAfter
<1>7. /\ SlotSets = [i \in 1 .. NSlots |-> SlotSets[i]]
      /\ \A i \in 1 .. NSlots : SlotSets[i] \ {c} = SlotSets[i]
      /\ Abstract!Members = linked
  <2>1. /\ SlotSets = [i \in 1 .. NSlots |-> SlotSets[i]]
        /\ \A i \in 1 .. NSlots : \A d : d \in SlotSets[i] <=> d \in linked /\ own[d] = wheel[i]
        /\ Abstract!Members = linked
    BY <1>1, SlotFacts
  <2> QED
    BY <1>2, <2>1
<1>8. SlotSets' = [SlotSets EXCEPT ![NSlots] = @ \cup {c}]
  BY <1>5, <1>6, <1>7
<1> QED
  BY <1>2, <1>7, <1>8 DEF Abstract!Join

LEMMA MessageHears ==
  ASSUME WheelIInv, NEW c \in linked, Idle,
         mem' = AddTail(Delete(mem, c), c, Back), wheel' = wheel,
         closing' \in {closing, closing \cup {c}}
  PROVE  Abstract!Hear(c)
<1>1. PICK own : InOrder(mem, linked \cup Heads, own)
  BY IdleOrder
<1>2. c \in Conns /\ linked \cup {c} = linked
  BY DEF WheelIInv
<1>4. PICK m : m = AddTail(Delete(mem, c), c, Back)
  OBVIOUS
<1>3. InOrder(m, (linked \cup {c}) \cup Heads, [own EXCEPT ![c] = Back])
  BY <1>1, <1>2, <1>4, OnMessageOrder
<1>5. SlotsOf(m, wheel) =
        [i \in 1 .. NSlots |-> IF i = NSlots THEN SlotSets[i] \cup {c} ELSE SlotSets[i] \ {c}]
  BY <1>1, <1>2, <1>3, MovedSlots
<1>6. SlotSets' = SlotsOf(m, wheel)
  BY <1>4, SlotsAfter
<1>7. Abstract!Members = linked
  BY <1>1, SlotFacts
<1>8. SlotSets' = [i \in 1 .. NSlots |-> IF i = NSlots THEN SlotSets[i] \cup {c} ELSE SlotSets[i] \ {c}]
  BY <1>5, <1>6
<1> QED
  BY <1>7, <1>8 DEF Abstract!Hear

LEMMA RemovedLeaves ==
  ASSUME WheelIInv, NEW own, InOrder(mem, linked \cup Heads, own),
         NEW c \in linked, Removed(c), wheel' = wheel, closing' = closing \ {c}
  PROVE  Abstract!Leave(c)
<1>1. linked \ {c} \in SUBSET Conns /\ linked' = linked \ {c} /\ wheel \in [1 .. NSlots -> Heads]
  BY DEF Removed, WheelIInv
<1>2. PICK m : m = mem'
  OBVIOUS
<1>3. PICK L : L = linked \ {c}
  OBVIOUS
<1>4. PICK s : s = SlotsOf(m, wheel)
  OBVIOUS
<1>5. InOrder(m, L \cup Heads, own) /\ L \in SUBSET Conns
  <2>1. InOrder(mem', linked' \cup Heads, own)
    BY RemovedOrder
  <2> QED
    BY <1>1, <1>2, <1>3, <2>1
<1>6. /\ s = [i \in 1 .. NSlots |-> s[i]]
      /\ \A i \in 1 .. NSlots : \A d : d \in s[i] <=> d \in L /\ own[d] = wheel[i]
  <2>1. ASSUME NEW i \in 1 .. NSlots
        PROVE  \A d : d \in s[i] <=> d \in L /\ own[d] = wheel[i]
    <3>1. wheel[i] \in Heads
      BY <1>1, <1>4, <1>5
    <3>2. Visited(m, wheel[i], Cardinality(Nodes)) = {d \in L : own[d] = wheel[i]}
      BY <1>1, <1>4, <1>5, <3>1, VisitedIsList
    <3> QED
      BY <1>1, <1>4, <1>5, <3>2 DEF SlotsOf
  <2>2. s = [i \in 1 .. NSlots |-> s[i]]
    BY <1>4 DEF SlotsOf
  <2> QED
    BY <2>1, <2>2
<1>7. /\ Abstract!Members = linked
      /\ \A i \in 1 .. NSlots : \A d : d \in SlotSets[i] <=> d \in linked /\ own[d] = wheel[i]
  BY SlotFacts
<1>8. \A i \in 1 .. NSlots : s[i] = SlotSets[i] \ {c}
  BY <1>3, <1>6, <1>7
<1>9. SlotSets' = s
  BY <1>2, <1>4, SlotsAfter
<1>10. SlotSets' = [i \in 1 .. NSlots |-> SlotSets[i] \ {c}]
  BY <1>6, <1>8, <1>9
<1> QED
  BY <1>7, <1>10 DEF Abstract!Leave

(* SetClosing asks for the close, or makes the connection leave. *)
LEMMA AskCloseMaps ==
  ASSUME WheelIInv, NEW own, InOrder(mem, linked \cup Heads, own),
         NEW c \in linked, AskClose(c), wheel' = wheel
  PROVE  Abstract!Ask(c) \/ Abstract!Leave(c)
<1>1. CASE atOnce /\ Removed(c) /\ closing' = closing
  <2>1. closing = {}
    BY <1>1 DEF WheelIInv
  <2> QED
    BY <1>1, <2>1, RemovedLeaves
<1>2. CASE closing' = closing \cup {c} /\ mem' = mem
  <2>1. SlotSets' = SlotSets
    BY <1>2 DEF SlotSets
  <2>2. Abstract!Members = linked
    BY SlotFacts
  <2> QED
    BY <1>2, <2>1, <2>2 DEF Abstract!Ask
<1> QED
  BY <1>1, <1>2 DEF AskClose

(* OnTimeOut has come round: it has asked to close the whole front list. *)
LEMMA FrontListClosed ==
  ASSUME WheelIInv, NEW own, InOrder(mem, linked \cup Heads, own), it = Front, AtFrontList(own)
  PROVE  SlotSets[1] \subseteq closing
<1>1. 1 \in 1 .. NSlots /\ Front = wheel[1] /\ Front \in Heads /\ Front # NoNode
  BY SlotCount, EndsAreHeads, NodesAssumption DEF Front
<1>2. PICK done \in SUBSET (linked \cap closing) :
        \A n \in done \cup {Front} : mem.next[n] \in done \cup {Front}
  BY <1>1 DEF AtFrontList
<1>3. \A c : c \in SlotSets[1] <=> c \in linked /\ own[c] = Front
  <2>1. \A i \in 1 .. NSlots : \A c : c \in SlotSets[i] <=> c \in linked /\ own[c] = wheel[i]
    BY SlotFacts
  <2>2. \A c : c \in SlotSets[1] <=> c \in linked /\ own[c] = wheel[1]
    BY <1>1, <2>1
  <2> QED
    BY <1>1, <2>2
<1>4. PICK rank \in [Nodes -> Nat] : Ranked(mem, linked \cup Heads, rank)
  BY DEF InOrder
<1>5. \A d \in linked :
        own[d] = Front /\ d \notin done =>
          \E e \in linked : own[e] = Front /\ e \notin done /\ rank[e] < rank[d]
  <2> SUFFICES ASSUME NEW d \in linked, own[d] = Front, d \notin done
               PROVE  \E e \in linked : own[e] = Front /\ e \notin done /\ rank[e] < rank[d]
    OBVIOUS
  <2> DEFINE before == mem.prev[d]
  <2>1. before \in linked \cup Heads /\ mem.next[before] = d /\ own[before] = Front
    BY DEF InOrder, WellLinked
  <2>2. d \notin Heads /\ \A h \in Heads : own[h] = h
    BY NodesAssumption DEF InOrder, WheelIInv
  <2> HIDE DEF before
  <2>3. before \notin done \cup {Front}
    BY <1>1, <1>2, <2>1, <2>2
  <2>4. before \in linked
    BY <2>1, <2>2, <2>3
  <2>5. rank[before] < rank[d]
    BY <1>4, <2>1, <2>2 DEF Ranked
  <2> QED
    BY <2>1, <2>3, <2>4, <2>5
<1>6. linked \subseteq Nodes
  BY NodesAssumption DEF WheelIInv
<1>7. ASSUME NEW c \in linked, own[c] = Front, c \notin done PROVE FALSE
  <2> DEFINE T == {rank[d] : d \in {e \in linked : own[e] = Front /\ e \notin done}}
  <2>1. T \in SUBSET Nat /\ T # {}
    BY <1>4, <1>6, <1>7
  <2>2. PICK r \in T : \A j \in T : r <= j
    <3> HIDE DEF T
    <3> QED
      BY <2>1, HasLeast
  <2>3. PICK d \in linked : own[d] = Front /\ d \notin done /\ r = rank[d]
    BY <2>2
  <2>4. PICK e \in linked : own[e] = Front /\ e \notin done /\ rank[e] < rank[d]
    BY <1>5, <2>3
  <2>5. rank[e] \in T
    BY <2>4
  <2>6. rank[e] \in Nat /\ rank[d] \in Nat
    BY <1>4, <1>6
  <2> HIDE DEF T
  <2> QED
    BY <2>2, <2>3, <2>4, <2>5, <2>6
<1> QED
  BY <1>2, <1>3, <1>7

LEMMA TurnWheelTicks ==
  ASSUME WheelIInv, TurnWheel
  PROVE  Abstract!Tick
<1>1. it = Front /\ wheel' = Rotated /\ mem' = mem /\ linked' = linked /\ closing' = closing
  BY DEF TurnWheel
<1>2. ~dangling /\ it # NoNode
  BY <1>1, EndsAreHeads, NodesAssumption DEF WheelIInv
<1>3. PICK own : InOrder(mem, linked \cup Heads, own) /\ AtFrontList(own)
  BY <1>2 DEF WheelIInv
<1>4. \A i \in 1 .. NSlots : \A c : c \in SlotSets[i] <=> c \in linked /\ own[c] = wheel[i]
  BY <1>3, SlotFacts
<1>5. PICK w : w = Rotated
  OBVIOUS
<1>6. w \in [1 .. NSlots -> Heads] /\ linked \in SUBSET Conns
  BY <1>5, RotatedFacts DEF WheelIInv
<1>7. PICK s : s = SlotsOf(mem, w)
  OBVIOUS
<1>8. /\ s = [i \in 1 .. NSlots |-> s[i]]
      /\ \A i \in 1 .. NSlots : \A c : c \in s[i] <=> c \in linked /\ own[c] = w[i]
  <2>1. ASSUME NEW i \in 1 .. NSlots
        PROVE  \A c : c \in s[i] <=> c \in linked /\ own[c] = w[i]
    <3>1. w[i] \in Heads
      BY <1>3, <1>6, <1>7
    <3>2. Visited(mem, w[i], Cardinality(Nodes)) = {d \in linked : own[d] = w[i]}
      BY <1>3, <1>6, <1>7, <3>1, VisitedIsList
    <3> QED
      BY <1>3, <1>6, <1>7, <3>2 DEF SlotsOf
  <2>2. s = [i \in 1 .. NSlots |-> s[i]]
    BY <1>7 DEF SlotsOf
  <2> QED
    BY <2>1, <2>2
<1>9. ASSUME NEW i \in 1 .. NSlots
      PROVE  s[i] = IF i < NSlots THEN SlotSets[i + 1] ELSE SlotSets[1]
  <2>1. PICK j \in 1 .. NSlots : j = IF i < NSlots THEN i + 1 ELSE 1
    BY SlotCount
  <2>2. w[i] = wheel[j]
    BY <1>5, <2>1 DEF Rotated, Front
  <2>3. \A c : c \in s[i] <=> c \in SlotSets[j]
    BY <1>4, <1>8, <2>2
  <2> QED
    BY <2>1, <2>3
<1>10. SlotSets' = s
  BY <1>1, <1>5, <1>7, SlotsAfter
<1>11. SlotSets' = [i \in 1 .. NSlots |-> IF i < NSlots THEN SlotSets[i + 1] ELSE SlotSets[1]]
  BY <1>8, <1>9, <1>10
<1>12. closing' = closing \cup SlotSets[1]
  BY <1>1, <1>3, FrontListClosed
<1> QED
  BY <1>11, <1>12 DEF Abstract!Tick

(* Every step of the lists is a step of the wheel of sets, or none. *)
LEMMA ListStepIsWheelStep ==
  ASSUME WheelIInv, [WheelNext]_wheelVars
  PROVE  [Abstract!Next]_(Abstract!vars)
<1>1. ASSUME NEW c \in Conns, NewConnection(c) PROVE Abstract!Next
  BY <1>1, NewConnectionJoins DEF Abstract!Next
<1>2. ASSUME NEW c \in Conns, OnMessage(c) PROVE Abstract!Next
  <2>1. /\ c \in linked /\ Idle /\ wheel' = wheel /\ closing' = closing
        /\ mem' = AddTail(Delete(mem, c), c, Back)
    BY <1>2 DEF OnMessage
  <2>2. Abstract!Hear(c)
    BY <2>1, MessageHears
  <2> QED
    BY <2>2 DEF Abstract!Next
<1>3. ASSUME NEW c \in Conns, OnMessageCloses(c) PROVE Abstract!Next
  <2>1. /\ c \in linked /\ Idle /\ wheel' = wheel /\ closing' \in {closing, closing \cup {c}}
        /\ \/ mem' = AddTail(Delete(mem, c), c, Back)
           \/ mem' = AddTail(Delete(Delete(mem, c), c), c, Back)
    BY <1>3 DEF OnMessageCloses
  <2>2. mem' = AddTail(Delete(mem, c), c, Back)
    BY <2>1, IdleOrder, DanglingOrder
  <2>3. Abstract!Hear(c)
    BY <2>1, <2>2, MessageHears
  <2> QED
    BY <2>3 DEF Abstract!Next
<1>4. ASSUME NEW c \in Conns, Close(c) PROVE Abstract!Next
  <2>1. c \in linked /\ Idle /\ AskClose(c) /\ wheel' = wheel
    BY <1>4 DEF Close
  <2>2. Abstract!Ask(c) \/ Abstract!Leave(c)
    BY <2>1, IdleOrder, AskCloseMaps
  <2> QED
    BY <2>2 DEF Abstract!Next
<1>5. ASSUME NEW c \in Conns, OnCloseConnection(c) PROVE Abstract!Next
  <2>1. c \in linked /\ Idle /\ Removed(c) /\ wheel' = wheel /\ closing' = closing \ {c}
    BY <1>5 DEF OnCloseConnection
  <2>2. Abstract!Leave(c)
    BY <2>1, IdleOrder, RemovedLeaves
  <2> QED
    BY <2>2 DEF Abstract!Next
<1>6. CASE TimeOut
  BY <1>6 DEF TimeOut, Abstract!vars, SlotSets
<1>7. CASE CloseNext
  <2>1. ~dangling /\ it # NoNode /\ it # Front /\ AskClose(it) /\ wheel' = wheel
    BY <1>7 DEF CloseNext, WheelIInv
  <2>2. PICK own : InOrder(mem, linked \cup Heads, own) /\ AtFrontList(own)
    BY <2>1 DEF WheelIInv
  <2>3. it \in linked /\ it \in Conns
    BY <2>1, <2>2 DEF AtFrontList, InOrder, WheelIInv
  <2>4. Abstract!Ask(it) \/ Abstract!Leave(it)
    BY <2>1, <2>2, <2>3, AskCloseMaps
  <2>5. Abstract!Next
    BY <2>3, <2>4 DEF Abstract!Next
  <2> QED
    BY <2>5
<1>8. CASE TurnWheel
  BY <1>8, TurnWheelTicks DEF Abstract!Next
<1>9. CASE UNCHANGED wheelVars
  BY <1>9 DEF wheelVars, Abstract!vars, SlotSets
<1> QED
  BY <1>1, <1>2, <1>3, <1>4, <1>5, <1>6, <1>7, <1>8, <1>9 DEF WheelNext

LEMMA WheelInitMaps == WheelInit => Abstract!Init
<1> SUFFICES ASSUME WheelInit PROVE Abstract!Init
  OBVIOUS
<1>1. WheelIInv /\ ~dangling /\ linked = {} /\ closing = {}
  BY WheelInitInv DEF WheelInit
<1>2. PICK own : InOrder(mem, linked \cup Heads, own)
  BY <1>1 DEF WheelIInv
<1>3. /\ SlotSets = [i \in 1 .. NSlots |-> SlotSets[i]]
      /\ \A i \in 1 .. NSlots : \A c : c \in SlotSets[i] <=> c \in linked /\ own[c] = wheel[i]
  BY <1>1, <1>2, SlotFacts
<1>5. \A i \in 1 .. NSlots : SlotSets[i] = {}
  BY <1>1, <1>3
<1>4. SlotSets = [i \in 1 .. NSlots |-> {}]
  BY <1>3, <1>5
<1> QED
  BY <1>1, <1>4 DEF Abstract!Init

(* The pointer lists implement the wheel of sets, for any connections and  *)
(* any number of slots, whether SetClosing leaves the close to the next    *)
(* HandleEvents or deletes the node under the traversal of OnTimeOut or    *)
(* under OnMessage (TcpServer.cpp:36-44 and 84-92): a traversal ends,      *)
(* meets every connection of the front slot and no other, and the wheel    *)
(* turns only then.                                                        *)
THEOREM ListsImplementWheel == WheelSpec => ImplementsWheel
<1>1. WheelIInv /\ [WheelNext]_wheelVars => [Abstract!Next]_(Abstract!vars)
  BY ListStepIsWheelStep
<1> QED
  BY <1>1, WheelInitMaps, WheelInvariance, PTL DEF WheelSpec, ImplementsWheel, Abstract!Spec

(* The lists of the wheel stay closed and linked both ways, and no live    *)
(* node points at a deleted one, on a PollLoop and on an EPollLoop, where  *)
(* OnTimeOut deletes the nodes it walks over: connections may come, talk,  *)
(* close and time out in any order, for any number of connections and      *)
(* slots.  The one exception is a message callback that closes its         *)
(* connection on an EPollLoop.                                             *)
THEOREM ListsAlwaysClosed == WheelSpec => []ListsAreClosed
<1>1. WheelIInv => ListsAreClosed
  BY DEF WheelIInv, ListsAreClosed, InOrder
<1> QED
  BY <1>1, WheelInvariance, PTL

(* OnTimeOut never calls Close through a head, whose conn is null, nor     *)
(* through a deleted node.                                                 *)
THEOREM TraversalMeetsConnections == WheelSpec => [](it \notin {NoNode, Front} => it \in linked)
<1>1. WheelIInv => (it \notin {NoNode, Front} => it \in linked)
  <2> SUFFICES ASSUME WheelIInv, it \notin {NoNode, Front} PROVE it \in linked
    OBVIOUS
  <2>1. ~dangling
    BY DEF WheelIInv
  <2>2. PICK own : InOrder(mem, linked \cup Heads, own) /\ AtFrontList(own)
    BY <2>1 DEF WheelIInv
  <2> QED
    BY <2>2 DEF InOrder, AtFrontList
<1> QED
  BY <1>1, WheelInvariance, PTL

=============================================================================

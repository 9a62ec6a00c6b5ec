------------------------- MODULE PtyDataPlane_proofs -------------------------
(***************************************************************************)
(* Proofs about PtyDataPlane: for every size of the queue and every pool   *)
(* with two buffers more, the pool never blocks anyone, a buffer has one   *)
(* owner, and staged bytes have a timer.                                   *)
(*                                                                         *)
(* The argument counts buffers: those in the pool, in the queue and in the *)
(* two hands are all there are. What sits in the queue is data, but for an *)
(* EXIT at its end.                                                        *)
(***************************************************************************)
EXTENDS PtyDataPlane, SequenceTheorems, TLAPS

(* Which hand holds a buffer, and when.                                     *)
HandsInv ==
  /\ held # NoBuffer <=> reader \in {"Read", "Send", "Restitute"}
  /\ working # NoBuffer <=> dispatcher \in {"FlushData", "Return"}
  /\ dispatcher = "FlushStaged" => Status_state = "PACING"

(* An EXIT is the last order of the queue and of the dispatcher.            *)
ExitInv ==
  /\ dispatcher \in {"FlushLast", "Finish", "Exited"} => reader = "Done" /\ QueueChannel = <<>>
  /\ ExitQueued => Len(QueueChannel) > 0
  /\ \A i \in 1 .. Len(QueueChannel) :
       QueueChannel[i] = EXIT <=> ExitQueued /\ i = Len(QueueChannel)

(* No buffer is lost.                                                       *)
One(condition) == IF condition THEN 1 ELSE 0
CountInv ==
  Len(PoolChannel) + Len(QueueChannel) + One(held # NoBuffer) + One(working # NoBuffer)
    = SIZE_POOL_BUFFER + One(ExitQueued)

IInv == TypeOK /\ HandsInv /\ ExitInv /\ CountInv /\ OneOwner /\ StagedHasTimer

-----------------------------------------------------------------------------
(* Lemmas about the two channels.                                          *)

(* What a receive leaves.                                                   *)
LEMMA TailFacts ==
  ASSUME NEW S, NEW s \in Seq(S), s # <<>>
  PROVE  /\ Len(s) \in Nat /\ Len(s) >= 1
         /\ Head(s) = s[1] /\ Head(s) \in S
         /\ Tail(s) \in Seq(S) /\ Len(Tail(s)) = Len(s) - 1
         /\ \A i \in 1 .. Len(s) - 1 : Tail(s)[i] = s[i + 1]
  OBVIOUS

(* What a send adds.                                                        *)
LEMMA AppendFacts ==
  ASSUME NEW S, NEW s \in Seq(S), NEW e \in S
  PROVE  /\ Len(s) \in Nat
         /\ Append(s, e) \in Seq(S) /\ Len(Append(s, e)) = Len(s) + 1
         /\ \A i \in 1 .. Len(s) : Append(s, e)[i] = s[i]
         /\ Append(s, e)[Len(s) + 1] = e
  OBVIOUS

LEMMA Initially == Init => IInv
  <1> SUFFICES ASSUME Init PROVE IInv
    OBVIOUS
  <1> USE QueueAssumption, PoolAssumption, ReadsAssumption DEF Init
  <1>1. PoolChannel \in Seq(Buffers) /\ Len(PoolChannel) = SIZE_POOL_BUFFER
    BY DEF Buffers
  <1>2. ChannelTypeOK
    BY <1>1 DEF ChannelTypeOK
  <1>3. StreamTypeOK
    BY DEF StreamTypeOK
  <1>4. WorkerTypeOK
    BY DEF WorkerTypeOK
  <1>5. HandsInv
    BY DEF HandsInv
  <1>6. ExitInv
    BY DEF ExitInv, ExitQueued
  <1>7. CountInv
    BY <1>1 DEF CountInv, One, ExitQueued
  <1>8. OneOwner
    BY <1>1 DEF OneOwner, FreeOnce, QueuedOnce, FreeOrQueued, InNoHand, Buffers, NoBuffer
  <1>9. StagedHasTimer
    BY DEF StagedHasTimer
  <1> QED
    BY <1>2, <1>3, <1>4, <1>5, <1>6, <1>7, <1>8, <1>9 DEF IInv, TypeOK

-----------------------------------------------------------------------------
(* One lemma per action: first what the step does to the channel it uses,  *)
(* then what it does to the rest, then the parts of the invariant.         *)

LEMMA TakeBufferPreserves == IInv /\ TakeBuffer => IInv'
  <1> SUFFICES ASSUME IInv, TakeBuffer PROVE IInv'
    OBVIOUS
  <1> USE QueueAssumption, PoolAssumption, ReadsAssumption DEF IInv
  <1>1. /\ Len(PoolChannel) \in Nat /\ Len(PoolChannel) >= 1
        /\ Head(PoolChannel) = PoolChannel[1] /\ Head(PoolChannel) \in Buffers
        /\ PoolChannel' \in Seq(Buffers) /\ Len(PoolChannel') = Len(PoolChannel) - 1
        /\ \A i \in 1 .. Len(PoolChannel) - 1 : PoolChannel'[i] = PoolChannel[i + 1]
    BY TailFacts DEF TypeOK, ChannelTypeOK, TakeBuffer
  <1>2. /\ reader = "Take"
        /\ held' = Head(PoolChannel)
        /\ reader' = "Read"
        /\ UNCHANGED <<QueueChannel, dispatcher, working, Status_state, timer,
                     finished>>
    BY DEF TakeBuffer, readerVars, dispatcherVars
  <1>3. /\ Len(PoolChannel) \in Nat /\ Len(QueueChannel) \in Nat
        /\ Len(QueueChannel) <= SIZE_QUEUE_BUFFER
        /\ \A i \in 1 .. Len(PoolChannel) : PoolChannel[i] # EXIT
    BY DEF TypeOK, ChannelTypeOK, Buffers, EXIT
  <1>4. ChannelTypeOK'
    BY <1>1, <1>2, <1>3 DEF TypeOK, ChannelTypeOK
  <1>5. StreamTypeOK'
    BY DEF TypeOK, StreamTypeOK, WorkerTypeOK, HandsInv, TakeBuffer, readerVars, dispatcherVars, NoBuffer, EXIT
  <1>6. WorkerTypeOK'
    BY <1>1, <1>2 DEF TypeOK, WorkerTypeOK, NoBuffer, EXIT
  <1>7. HandsInv'
    BY <1>1, <1>2 DEF TypeOK, WorkerTypeOK, HandsInv, NoBuffer, EXIT, Buffers
  <1>8. ExitInv'
    BY <1>1, <1>2, <1>3 DEF ExitInv, ExitQueued, HandsInv, NoBuffer, EXIT
  <1>c. /\ One(held # NoBuffer) = 0 /\ One(held # NoBuffer)' = 1
        /\ One(ExitQueued)' = One(ExitQueued)
        /\ Len(PoolChannel') = Len(PoolChannel) - 1
    BY <1>1, <1>2 DEF One, Buffers, NoBuffer, EXIT, HandsInv, ExitQueued
  <1>9. CountInv'
    BY <1>c, <1>2, <1>3 DEF CountInv
  <1>10. OneOwner'
    <2> USE <1>1, <1>2, <1>3 DEF OneOwner
    <2>1. FreeOnce'
      BY DEF FreeOnce, InNoHand, HandsInv, NoBuffer
    <2>2. QueuedOnce'
      BY DEF QueuedOnce, InNoHand, HandsInv, ExitInv, ExitQueued, NoBuffer, EXIT
    <2>3. FreeOrQueued'
      BY DEF FreeOrQueued, InNoHand, HandsInv, NoBuffer, EXIT, TypeOK, ChannelTypeOK, Buffers
    <2>4. InNoHand(PoolChannel)'
      BY DEF InNoHand, FreeOnce, FreeOrQueued
    <2>5. InNoHand(QueueChannel)'
      BY DEF InNoHand, QueuedOnce, FreeOrQueued, NoBuffer, EXIT
    <2>6. (held = working => held = NoBuffer)'
      BY DEF InNoHand, HandsInv, NoBuffer, TypeOK, ChannelTypeOK, Buffers
    <2> QED
      BY <2>1, <2>2, <2>3, <2>4, <2>5, <2>6
  <1>11. StagedHasTimer'
    BY <1>2 DEF StagedHasTimer, HandsInv, TypeOK, WorkerTypeOK, TakeBuffer, readerVars, dispatcherVars
  <1> QED
    BY <1>4, <1>5, <1>6, <1>7, <1>8, <1>9, <1>10, <1>11 DEF TypeOK

LEMMA ReadChunkPreserves == IInv /\ ReadChunk => IInv'
  <1> SUFFICES ASSUME IInv, ReadChunk PROVE IInv'
    OBVIOUS
  <1> USE QueueAssumption, PoolAssumption, ReadsAssumption DEF IInv
  <1>2. /\ reader = "Read"
        /\ reads < MaxReads
        /\ reader' = "Send"
        /\ UNCHANGED <<PoolChannel, QueueChannel, held, dispatcher, working,
                     Status_state, timer, finished>>
    BY DEF ReadChunk, readerVars, dispatcherVars
  <1>3. /\ Len(PoolChannel) \in Nat /\ Len(QueueChannel) \in Nat
        /\ Len(QueueChannel) <= SIZE_QUEUE_BUFFER
        /\ \A i \in 1 .. Len(PoolChannel) : PoolChannel[i] # EXIT
    BY DEF TypeOK, ChannelTypeOK, Buffers, EXIT
  <1>4. ChannelTypeOK'
    BY <1>2, <1>3 DEF TypeOK, ChannelTypeOK
  <1>5. StreamTypeOK'
    BY DEF TypeOK, StreamTypeOK, WorkerTypeOK, HandsInv, ReadChunk, readerVars, dispatcherVars, NoBuffer, EXIT
  <1>6. WorkerTypeOK'
    BY <1>2 DEF TypeOK, WorkerTypeOK, NoBuffer, EXIT
  <1>7. HandsInv'
    BY <1>2 DEF TypeOK, WorkerTypeOK, HandsInv, NoBuffer, EXIT, Buffers
  <1>8. ExitInv'
    BY <1>2, <1>3 DEF ExitInv, ExitQueued, HandsInv, NoBuffer, EXIT
  <1>9. CountInv'
    BY <1>2, <1>3 DEF CountInv, One, ExitQueued, ExitInv, HandsInv, NoBuffer, EXIT, Buffers
  <1>10. OneOwner'
    <2> USE <1>2, <1>3 DEF OneOwner
    <2>1. FreeOnce'
      BY DEF FreeOnce, InNoHand, HandsInv, NoBuffer
    <2>2. QueuedOnce'
      BY DEF QueuedOnce, InNoHand, HandsInv, ExitInv, ExitQueued, NoBuffer, EXIT
    <2>3. FreeOrQueued'
      BY DEF FreeOrQueued, InNoHand, HandsInv, NoBuffer, EXIT, TypeOK, ChannelTypeOK, Buffers
    <2>4. InNoHand(PoolChannel)'
      BY DEF InNoHand, FreeOnce, FreeOrQueued
    <2>5. InNoHand(QueueChannel)'
      BY DEF InNoHand, QueuedOnce, FreeOrQueued, NoBuffer, EXIT
    <2>6. (held = working => held = NoBuffer)'
      BY DEF InNoHand, HandsInv, NoBuffer, TypeOK, ChannelTypeOK, Buffers
    <2> QED
      BY <2>1, <2>2, <2>3, <2>4, <2>5, <2>6
  <1>11. StagedHasTimer'
    BY <1>2 DEF StagedHasTimer, HandsInv, TypeOK, WorkerTypeOK, ReadChunk, readerVars, dispatcherVars
  <1> QED
    BY <1>4, <1>5, <1>6, <1>7, <1>8, <1>9, <1>10, <1>11 DEF TypeOK

LEMMA ReadErrorPreserves == IInv /\ ReadError => IInv'
  <1> SUFFICES ASSUME IInv, ReadError PROVE IInv'
    OBVIOUS
  <1> USE QueueAssumption, PoolAssumption, ReadsAssumption DEF IInv
  <1>2. /\ reader = "Read"
        /\ reader' = "Restitute"
        /\ UNCHANGED <<PoolChannel, QueueChannel, held, dispatcher, working,
                     Status_state, timer, finished>>
    BY DEF ReadError, readerVars, dispatcherVars
  <1>3. /\ Len(PoolChannel) \in Nat /\ Len(QueueChannel) \in Nat
        /\ Len(QueueChannel) <= SIZE_QUEUE_BUFFER
        /\ \A i \in 1 .. Len(PoolChannel) : PoolChannel[i] # EXIT
    BY DEF TypeOK, ChannelTypeOK, Buffers, EXIT
  <1>4. ChannelTypeOK'
    BY <1>2, <1>3 DEF TypeOK, ChannelTypeOK
  <1>5. StreamTypeOK'
    BY DEF TypeOK, StreamTypeOK, WorkerTypeOK, HandsInv, ReadError, readerVars, dispatcherVars, NoBuffer, EXIT
  <1>6. WorkerTypeOK'
    BY <1>2 DEF TypeOK, WorkerTypeOK, NoBuffer, EXIT
  <1>7. HandsInv'
    BY <1>2 DEF TypeOK, WorkerTypeOK, HandsInv, NoBuffer, EXIT, Buffers
  <1>8. ExitInv'
    BY <1>2, <1>3 DEF ExitInv, ExitQueued, HandsInv, NoBuffer, EXIT
  <1>9. CountInv'
    BY <1>2, <1>3 DEF CountInv, One, ExitQueued, ExitInv, HandsInv, NoBuffer, EXIT, Buffers
  <1>10. OneOwner'
    <2> USE <1>2, <1>3 DEF OneOwner
    <2>1. FreeOnce'
      BY DEF FreeOnce, InNoHand, HandsInv, NoBuffer
    <2>2. QueuedOnce'
      BY DEF QueuedOnce, InNoHand, HandsInv, ExitInv, ExitQueued, NoBuffer, EXIT
    <2>3. FreeOrQueued'
      BY DEF FreeOrQueued, InNoHand, HandsInv, NoBuffer, EXIT, TypeOK, ChannelTypeOK, Buffers
    <2>4. InNoHand(PoolChannel)'
      BY DEF InNoHand, FreeOnce, FreeOrQueued
    <2>5. InNoHand(QueueChannel)'
      BY DEF InNoHand, QueuedOnce, FreeOrQueued, NoBuffer, EXIT
    <2>6. (held = working => held = NoBuffer)'
      BY DEF InNoHand, HandsInv, NoBuffer, TypeOK, ChannelTypeOK, Buffers
    <2> QED
      BY <2>1, <2>2, <2>3, <2>4, <2>5, <2>6
  <1>11. StagedHasTimer'
    BY <1>2 DEF StagedHasTimer, HandsInv, TypeOK, WorkerTypeOK, ReadError, readerVars, dispatcherVars
  <1> QED
    BY <1>4, <1>5, <1>6, <1>7, <1>8, <1>9, <1>10, <1>11 DEF TypeOK

LEMMA SendDataPreserves == IInv /\ SendData => IInv'
  <1> SUFFICES ASSUME IInv, SendData PROVE IInv'
    OBVIOUS
  <1> USE QueueAssumption, PoolAssumption, ReadsAssumption DEF IInv
  <1>h. held \in Buffers \cup {EXIT}
    BY DEF TypeOK, WorkerTypeOK, HandsInv, NoBuffer, EXIT, SendData
  <1>1. /\ Len(QueueChannel) \in Nat /\ Len(QueueChannel) < SIZE_QUEUE_BUFFER
        /\ QueueChannel' \in Seq(Buffers \cup {EXIT}) /\ Len(QueueChannel') = Len(QueueChannel) + 1
        /\ \A i \in 1 .. Len(QueueChannel') :
             \/ i \in 1 .. Len(QueueChannel) /\ QueueChannel'[i] = QueueChannel[i]
             \/ i = Len(QueueChannel) + 1 /\ QueueChannel'[i] = held
    BY <1>h, AppendFacts DEF TypeOK, ChannelTypeOK, SendData
  <1>2. /\ reader = "Send"
        /\ held' = NoBuffer
        /\ reader' = "Take"
        /\ UNCHANGED <<PoolChannel, dispatcher, working, Status_state, timer,
                     finished>>
    BY DEF SendData, readerVars, dispatcherVars
  <1>3. /\ Len(PoolChannel) \in Nat /\ Len(QueueChannel) \in Nat
        /\ Len(QueueChannel) <= SIZE_QUEUE_BUFFER
        /\ \A i \in 1 .. Len(PoolChannel) : PoolChannel[i] # EXIT
    BY DEF TypeOK, ChannelTypeOK, Buffers, EXIT
  <1>4. ChannelTypeOK'
    BY <1>1, <1>2, <1>3 DEF TypeOK, ChannelTypeOK
  <1>5. StreamTypeOK'
    BY DEF TypeOK, StreamTypeOK, WorkerTypeOK, HandsInv, SendData, readerVars, dispatcherVars, NoBuffer, EXIT
  <1>6. WorkerTypeOK'
    BY <1>1, <1>2 DEF TypeOK, WorkerTypeOK, NoBuffer, EXIT
  <1>7. HandsInv'
    BY <1>1, <1>2 DEF TypeOK, WorkerTypeOK, HandsInv, NoBuffer, EXIT, Buffers
  <1>8. ExitInv'
    BY <1>1, <1>2, <1>3 DEF ExitInv, ExitQueued, HandsInv, NoBuffer, EXIT
  <1>9. CountInv'
    BY <1>1, <1>2, <1>3 DEF CountInv, One, ExitQueued, ExitInv, HandsInv, NoBuffer, EXIT, Buffers
  <1>10. OneOwner'
    <2> USE <1>1, <1>2, <1>3 DEF OneOwner
    <2>1. FreeOnce'
      BY DEF FreeOnce, InNoHand, HandsInv, NoBuffer
    <2>2. QueuedOnce'
      BY DEF QueuedOnce, InNoHand, HandsInv, ExitInv, ExitQueued, NoBuffer, EXIT
    <2>3. FreeOrQueued'
      BY DEF FreeOrQueued, InNoHand, HandsInv, NoBuffer, EXIT, TypeOK, ChannelTypeOK, Buffers
    <2>4. InNoHand(PoolChannel)'
      BY DEF InNoHand, FreeOnce, FreeOrQueued
    <2>5. InNoHand(QueueChannel)'
      BY DEF InNoHand, QueuedOnce, FreeOrQueued, NoBuffer, EXIT
    <2>6. (held = working => held = NoBuffer)'
      BY DEF InNoHand, HandsInv, NoBuffer, TypeOK, ChannelTypeOK, Buffers
    <2> QED
      BY <2>1, <2>2, <2>3, <2>4, <2>5, <2>6
  <1>11. StagedHasTimer'
    BY <1>2 DEF StagedHasTimer, HandsInv, TypeOK, WorkerTypeOK, SendData, readerVars, dispatcherVars
  <1> QED
    BY <1>4, <1>5, <1>6, <1>7, <1>8, <1>9, <1>10, <1>11 DEF TypeOK

LEMMA RestitutePreserves == IInv /\ Restitute => IInv'
  <1> SUFFICES ASSUME IInv, Restitute PROVE IInv'
    OBVIOUS
  <1> USE QueueAssumption, PoolAssumption, ReadsAssumption DEF IInv
  <1>h. held \in Buffers
    BY DEF TypeOK, WorkerTypeOK, HandsInv, NoBuffer, EXIT, Restitute
  <1>1. /\ Len(PoolChannel) \in Nat /\ Len(PoolChannel) < SIZE_POOL_BUFFER
        /\ PoolChannel' \in Seq(Buffers) /\ Len(PoolChannel') = Len(PoolChannel) + 1
        /\ \A i \in 1 .. Len(PoolChannel') :
             \/ i \in 1 .. Len(PoolChannel) /\ PoolChannel'[i] = PoolChannel[i]
             \/ i = Len(PoolChannel) + 1 /\ PoolChannel'[i] = held
    BY <1>h, AppendFacts DEF TypeOK, ChannelTypeOK, Restitute
  <1>2. /\ reader = "Restitute"
        /\ held' = NoBuffer
        /\ reader' = "SendExit"
        /\ UNCHANGED <<QueueChannel, dispatcher, working, Status_state, timer,
                     finished>>
    BY DEF Restitute, readerVars, dispatcherVars
  <1>3. /\ Len(PoolChannel) \in Nat /\ Len(QueueChannel) \in Nat
        /\ Len(QueueChannel) <= SIZE_QUEUE_BUFFER
        /\ \A i \in 1 .. Len(PoolChannel) : PoolChannel[i] # EXIT
    BY DEF TypeOK, ChannelTypeOK, Buffers, EXIT
  <1>4. ChannelTypeOK'
    BY <1>1, <1>2, <1>3 DEF TypeOK, ChannelTypeOK
  <1>5. StreamTypeOK'
    BY DEF TypeOK, StreamTypeOK, WorkerTypeOK, HandsInv, Restitute, readerVars, dispatcherVars, NoBuffer, EXIT
  <1>6. WorkerTypeOK'
    BY <1>1, <1>2 DEF TypeOK, WorkerTypeOK, NoBuffer, EXIT
  <1>7. HandsInv'
    BY <1>1, <1>2 DEF TypeOK, WorkerTypeOK, HandsInv, NoBuffer, EXIT, Buffers
  <1>8. ExitInv'
    BY <1>1, <1>2, <1>3 DEF ExitInv, ExitQueued, HandsInv, NoBuffer, EXIT
  <1>9. CountInv'
    BY <1>1, <1>2, <1>3 DEF CountInv, One, ExitQueued, ExitInv, HandsInv, NoBuffer, EXIT, Buffers
  <1>10. OneOwner'
    <2> USE <1>1, <1>2, <1>3 DEF OneOwner
    <2>1. FreeOnce'
      BY DEF FreeOnce, InNoHand, HandsInv, NoBuffer
    <2>2. QueuedOnce'
      BY DEF QueuedOnce, InNoHand, HandsInv, ExitInv, ExitQueued, NoBuffer, EXIT
    <2>3. FreeOrQueued'
      BY DEF FreeOrQueued, InNoHand, HandsInv, NoBuffer, EXIT, TypeOK, ChannelTypeOK, Buffers
    <2>4. InNoHand(PoolChannel)'
      BY DEF InNoHand, FreeOnce, FreeOrQueued
    <2>5. InNoHand(QueueChannel)'
      BY DEF InNoHand, QueuedOnce, FreeOrQueued, NoBuffer, EXIT
    <2>6. (held = working => held = NoBuffer)'
      BY DEF InNoHand, HandsInv, NoBuffer, TypeOK, ChannelTypeOK, Buffers
    <2> QED
      BY <2>1, <2>2, <2>3, <2>4, <2>5, <2>6
  <1>11. StagedHasTimer'
    BY <1>2 DEF StagedHasTimer, HandsInv, TypeOK, WorkerTypeOK, Restitute, readerVars, dispatcherVars
  <1> QED
    BY <1>4, <1>5, <1>6, <1>7, <1>8, <1>9, <1>10, <1>11 DEF TypeOK

LEMMA SendExitPreserves == IInv /\ SendExit => IInv'
  <1> SUFFICES ASSUME IInv, SendExit PROVE IInv'
    OBVIOUS
  <1> USE QueueAssumption, PoolAssumption, ReadsAssumption DEF IInv
  <1>h. EXIT \in Buffers \cup {EXIT}
    BY DEF TypeOK, WorkerTypeOK, HandsInv, NoBuffer, EXIT, SendExit
  <1>1. /\ Len(QueueChannel) \in Nat /\ Len(QueueChannel) < SIZE_QUEUE_BUFFER
        /\ QueueChannel' \in Seq(Buffers \cup {EXIT}) /\ Len(QueueChannel') = Len(QueueChannel) + 1
        /\ \A i \in 1 .. Len(QueueChannel') :
             \/ i \in 1 .. Len(QueueChannel) /\ QueueChannel'[i] = QueueChannel[i]
             \/ i = Len(QueueChannel) + 1 /\ QueueChannel'[i] = EXIT
    BY <1>h, AppendFacts DEF TypeOK, ChannelTypeOK, SendExit
  <1>2. /\ reader = "SendExit"
        /\ reader' = "Done"
        /\ UNCHANGED <<PoolChannel, held, dispatcher, working, Status_state,
                     timer, finished>>
    BY DEF SendExit, readerVars, dispatcherVars
  <1>3. /\ Len(PoolChannel) \in Nat /\ Len(QueueChannel) \in Nat
        /\ Len(QueueChannel) <= SIZE_QUEUE_BUFFER
        /\ \A i \in 1 .. Len(PoolChannel) : PoolChannel[i] # EXIT
    BY DEF TypeOK, ChannelTypeOK, Buffers, EXIT
  <1>4. ChannelTypeOK'
    BY <1>1, <1>2, <1>3 DEF TypeOK, ChannelTypeOK
  <1>5. StreamTypeOK'
    BY DEF TypeOK, StreamTypeOK, WorkerTypeOK, HandsInv, SendExit, readerVars, dispatcherVars, NoBuffer, EXIT
  <1>6. WorkerTypeOK'
    BY <1>1, <1>2 DEF TypeOK, WorkerTypeOK, NoBuffer, EXIT
  <1>7. HandsInv'
    BY <1>1, <1>2 DEF TypeOK, WorkerTypeOK, HandsInv, NoBuffer, EXIT, Buffers
  <1>8. ExitInv'
    BY <1>1, <1>2, <1>3 DEF ExitInv, ExitQueued, HandsInv, NoBuffer, EXIT
  <1>9. CountInv'
    BY <1>1, <1>2, <1>3 DEF CountInv, One, ExitQueued, ExitInv, HandsInv, NoBuffer, EXIT, Buffers
  <1>10. OneOwner'
    <2> USE <1>1, <1>2, <1>3 DEF OneOwner
    <2>1. FreeOnce'
      BY DEF FreeOnce, InNoHand, HandsInv, NoBuffer
    <2>2. QueuedOnce'
      BY DEF QueuedOnce, InNoHand, HandsInv, ExitInv, ExitQueued, NoBuffer, EXIT
    <2>3. FreeOrQueued'
      BY DEF FreeOrQueued, InNoHand, HandsInv, NoBuffer, EXIT, TypeOK, ChannelTypeOK, Buffers
    <2>4. InNoHand(PoolChannel)'
      BY DEF InNoHand, FreeOnce, FreeOrQueued
    <2>5. InNoHand(QueueChannel)'
      BY DEF InNoHand, QueuedOnce, FreeOrQueued, NoBuffer, EXIT
    <2>6. (held = working => held = NoBuffer)'
      BY DEF InNoHand, HandsInv, NoBuffer, TypeOK, ChannelTypeOK, Buffers
    <2> QED
      BY <2>1, <2>2, <2>3, <2>4, <2>5, <2>6
  <1>11. StagedHasTimer'
    BY <1>2 DEF StagedHasTimer, HandsInv, TypeOK, WorkerTypeOK, SendExit, readerVars, dispatcherVars
  <1> QED
    BY <1>4, <1>5, <1>6, <1>7, <1>8, <1>9, <1>10, <1>11 DEF TypeOK

LEMMA DataIdlePreserves == IInv /\ DataIdle => IInv'
  <1> SUFFICES ASSUME IInv, DataIdle PROVE IInv'
    OBVIOUS
  <1> USE QueueAssumption, PoolAssumption, ReadsAssumption DEF IInv
  <1>1. /\ Len(QueueChannel) \in Nat /\ Len(QueueChannel) >= 1
        /\ Head(QueueChannel) = QueueChannel[1] /\ Head(QueueChannel) \in Buffers \cup {EXIT}
        /\ QueueChannel' \in Seq(Buffers \cup {EXIT}) /\ Len(QueueChannel') = Len(QueueChannel) - 1
        /\ \A i \in 1 .. Len(QueueChannel) - 1 : QueueChannel'[i] = QueueChannel[i + 1]
    BY TailFacts DEF TypeOK, ChannelTypeOK, DataIdle
  <1>2. /\ dispatcher = "Select"
        /\ Status_state = "IDLE"
        /\ working' = Head(QueueChannel)
        /\ dispatcher' = "FlushData"
        /\ Head(QueueChannel) # EXIT
        /\ UNCHANGED <<PoolChannel, reader, held, Status_state, timer,
                     finished>>
    BY DEF DataIdle, readerVars, dispatcherVars
  <1>3. /\ Len(PoolChannel) \in Nat /\ Len(QueueChannel) \in Nat
        /\ Len(QueueChannel) <= SIZE_QUEUE_BUFFER
        /\ \A i \in 1 .. Len(PoolChannel) : PoolChannel[i] # EXIT
    BY DEF TypeOK, ChannelTypeOK, Buffers, EXIT
  <1>4. ChannelTypeOK'
    BY <1>1, <1>2, <1>3 DEF TypeOK, ChannelTypeOK
  <1>5. StreamTypeOK'
    BY <1>1 DEF TypeOK, StreamTypeOK, WorkerTypeOK, HandsInv, DataIdle, readerVars, dispatcherVars, NoBuffer, EXIT
  <1>6. WorkerTypeOK'
    BY <1>1, <1>2 DEF TypeOK, WorkerTypeOK, NoBuffer, EXIT
  <1>7. HandsInv'
    BY <1>1, <1>2 DEF TypeOK, WorkerTypeOK, HandsInv, NoBuffer, EXIT, Buffers
  <1>8. ExitInv'
    BY <1>1, <1>2, <1>3 DEF ExitInv, ExitQueued, HandsInv, NoBuffer, EXIT
  <1>c. /\ One(working # NoBuffer) = 0 /\ One(working # NoBuffer)' = 1
        /\ One(ExitQueued)' = One(ExitQueued)
        /\ Len(QueueChannel') = Len(QueueChannel) - 1
    BY <1>1, <1>2 DEF One, Buffers, NoBuffer, EXIT, HandsInv, ExitQueued
  <1>9. CountInv'
    BY <1>c, <1>2, <1>3 DEF CountInv
  <1>10. OneOwner'
    <2> USE <1>1, <1>2, <1>3 DEF OneOwner
    <2>1. FreeOnce'
      BY DEF FreeOnce, InNoHand, HandsInv, NoBuffer
    <2>2. QueuedOnce'
      BY DEF QueuedOnce, InNoHand, HandsInv, ExitInv, ExitQueued, NoBuffer, EXIT
    <2>3. FreeOrQueued'
      BY DEF FreeOrQueued, InNoHand, HandsInv, NoBuffer, EXIT, TypeOK, ChannelTypeOK, Buffers
    <2>4. InNoHand(PoolChannel)'
      BY DEF InNoHand, FreeOnce, FreeOrQueued
    <2>5. InNoHand(QueueChannel)'
      BY DEF InNoHand, QueuedOnce, FreeOrQueued, NoBuffer, EXIT
    <2>6. (held = working => held = NoBuffer)'
      BY DEF InNoHand, HandsInv, NoBuffer, TypeOK, ChannelTypeOK, Buffers
    <2> QED
      BY <2>1, <2>2, <2>3, <2>4, <2>5, <2>6
  <1>11. StagedHasTimer'
    BY <1>2 DEF StagedHasTimer, HandsInv, TypeOK, WorkerTypeOK, DataIdle, readerVars, dispatcherVars
  <1> QED
    BY <1>4, <1>5, <1>6, <1>7, <1>8, <1>9, <1>10, <1>11 DEF TypeOK

LEMMA FlushDataPreserves == IInv /\ FlushData => IInv'
  <1> SUFFICES ASSUME IInv, FlushData PROVE IInv'
    OBVIOUS
  <1> USE QueueAssumption, PoolAssumption, ReadsAssumption DEF IInv
  <1>2. /\ dispatcher = "FlushData"
        /\ timer' = "armed"
        /\ Status_state' = "PACING"
        /\ dispatcher' = "Return"
        /\ UNCHANGED <<PoolChannel, QueueChannel, reader, held, working,
                     finished>>
    BY DEF FlushData, readerVars, dispatcherVars
  <1>3. /\ Len(PoolChannel) \in Nat /\ Len(QueueChannel) \in Nat
        /\ Len(QueueChannel) <= SIZE_QUEUE_BUFFER
        /\ \A i \in 1 .. Len(PoolChannel) : PoolChannel[i] # EXIT
    BY DEF TypeOK, ChannelTypeOK, Buffers, EXIT
  <1>4. ChannelTypeOK'
    BY <1>2, <1>3 DEF TypeOK, ChannelTypeOK
  <1>5. StreamTypeOK'
    BY DEF TypeOK, StreamTypeOK, WorkerTypeOK, HandsInv, FlushData, readerVars, dispatcherVars, NoBuffer, EXIT
  <1>6. WorkerTypeOK'
    BY <1>2 DEF TypeOK, WorkerTypeOK, NoBuffer, EXIT
  <1>7. HandsInv'
    BY <1>2 DEF TypeOK, WorkerTypeOK, HandsInv, NoBuffer, EXIT, Buffers
  <1>8. ExitInv'
    BY <1>2, <1>3 DEF ExitInv, ExitQueued, HandsInv, NoBuffer, EXIT
  <1>9. CountInv'
    BY <1>2, <1>3 DEF CountInv, One, ExitQueued, ExitInv, HandsInv, NoBuffer, EXIT, Buffers
  <1>10. OneOwner'
    <2> USE <1>2, <1>3 DEF OneOwner
    <2>1. FreeOnce'
      BY DEF FreeOnce, InNoHand, HandsInv, NoBuffer
    <2>2. QueuedOnce'
      BY DEF QueuedOnce, InNoHand, HandsInv, ExitInv, ExitQueued, NoBuffer, EXIT
    <2>3. FreeOrQueued'
      BY DEF FreeOrQueued, InNoHand, HandsInv, NoBuffer, EXIT, TypeOK, ChannelTypeOK, Buffers
    <2>4. InNoHand(PoolChannel)'
      BY DEF InNoHand, FreeOnce, FreeOrQueued
    <2>5. InNoHand(QueueChannel)'
      BY DEF InNoHand, QueuedOnce, FreeOrQueued, NoBuffer, EXIT
    <2>6. (held = working => held = NoBuffer)'
      BY DEF InNoHand, HandsInv, NoBuffer, TypeOK, ChannelTypeOK, Buffers
    <2> QED
      BY <2>1, <2>2, <2>3, <2>4, <2>5, <2>6
  <1>11. StagedHasTimer'
    BY <1>2 DEF StagedHasTimer, HandsInv, TypeOK, WorkerTypeOK, FlushData, readerVars, dispatcherVars
  <1> QED
    BY <1>4, <1>5, <1>6, <1>7, <1>8, <1>9, <1>10, <1>11 DEF TypeOK

LEMMA DataPacingPreserves == IInv /\ DataPacing => IInv'
  <1> SUFFICES ASSUME IInv, DataPacing PROVE IInv'
    OBVIOUS
  <1> USE QueueAssumption, PoolAssumption, ReadsAssumption DEF IInv
  <1>1. /\ Len(QueueChannel) \in Nat /\ Len(QueueChannel) >= 1
        /\ Head(QueueChannel) = QueueChannel[1] /\ Head(QueueChannel) \in Buffers \cup {EXIT}
        /\ QueueChannel' \in Seq(Buffers \cup {EXIT}) /\ Len(QueueChannel') = Len(QueueChannel) - 1
        /\ \A i \in 1 .. Len(QueueChannel) - 1 : QueueChannel'[i] = QueueChannel[i + 1]
    BY TailFacts DEF TypeOK, ChannelTypeOK, DataPacing
  <1>2. /\ dispatcher = "Select"
        /\ Status_state = "PACING"
        /\ working' = Head(QueueChannel)
        /\ dispatcher' = "Return"
        /\ Head(QueueChannel) # EXIT
        /\ UNCHANGED <<PoolChannel, reader, held, Status_state, timer,
                     finished>>
    BY DEF DataPacing, readerVars, dispatcherVars
  <1>3. /\ Len(PoolChannel) \in Nat /\ Len(QueueChannel) \in Nat
        /\ Len(QueueChannel) <= SIZE_QUEUE_BUFFER
        /\ \A i \in 1 .. Len(PoolChannel) : PoolChannel[i] # EXIT
    BY DEF TypeOK, ChannelTypeOK, Buffers, EXIT
  <1>4. ChannelTypeOK'
    BY <1>1, <1>2, <1>3 DEF TypeOK, ChannelTypeOK
  <1>5. StreamTypeOK'
    BY <1>1 DEF TypeOK, StreamTypeOK, WorkerTypeOK, HandsInv, DataPacing, readerVars, dispatcherVars, NoBuffer, EXIT
  <1>6. WorkerTypeOK'
    BY <1>1, <1>2 DEF TypeOK, WorkerTypeOK, NoBuffer, EXIT
  <1>7. HandsInv'
    BY <1>1, <1>2 DEF TypeOK, WorkerTypeOK, HandsInv, NoBuffer, EXIT, Buffers
  <1>8. ExitInv'
    BY <1>1, <1>2, <1>3 DEF ExitInv, ExitQueued, HandsInv, NoBuffer, EXIT
  <1>c. /\ One(working # NoBuffer) = 0 /\ One(working # NoBuffer)' = 1
        /\ One(ExitQueued)' = One(ExitQueued)
        /\ Len(QueueChannel') = Len(QueueChannel) - 1
    BY <1>1, <1>2 DEF One, Buffers, NoBuffer, EXIT, HandsInv, ExitQueued
  <1>9. CountInv'
    BY <1>c, <1>2, <1>3 DEF CountInv
  <1>10. OneOwner'
    <2> USE <1>1, <1>2, <1>3 DEF OneOwner
    <2>1. FreeOnce'
      BY DEF FreeOnce, InNoHand, HandsInv, NoBuffer
    <2>2. QueuedOnce'
      BY DEF QueuedOnce, InNoHand, HandsInv, ExitInv, ExitQueued, NoBuffer, EXIT
    <2>3. FreeOrQueued'
      BY DEF FreeOrQueued, InNoHand, HandsInv, NoBuffer, EXIT, TypeOK, ChannelTypeOK, Buffers
    <2>4. InNoHand(PoolChannel)'
      BY DEF InNoHand, FreeOnce, FreeOrQueued
    <2>5. InNoHand(QueueChannel)'
      BY DEF InNoHand, QueuedOnce, FreeOrQueued, NoBuffer, EXIT
    <2>6. (held = working => held = NoBuffer)'
      BY DEF InNoHand, HandsInv, NoBuffer, TypeOK, ChannelTypeOK, Buffers
    <2> QED
      BY <2>1, <2>2, <2>3, <2>4, <2>5, <2>6
  <1>11. StagedHasTimer'
    BY <1>2 DEF StagedHasTimer, HandsInv, TypeOK, WorkerTypeOK, DataPacing, readerVars, dispatcherVars
  <1> QED
    BY <1>4, <1>5, <1>6, <1>7, <1>8, <1>9, <1>10, <1>11 DEF TypeOK

LEMMA ReturnBufferPreserves == IInv /\ ReturnBuffer => IInv'
  <1> SUFFICES ASSUME IInv, ReturnBuffer PROVE IInv'
    OBVIOUS
  <1> USE QueueAssumption, PoolAssumption, ReadsAssumption DEF IInv
  <1>h. working \in Buffers
    BY DEF TypeOK, WorkerTypeOK, HandsInv, NoBuffer, EXIT, ReturnBuffer
  <1>1. /\ Len(PoolChannel) \in Nat /\ Len(PoolChannel) < SIZE_POOL_BUFFER
        /\ PoolChannel' \in Seq(Buffers) /\ Len(PoolChannel') = Len(PoolChannel) + 1
        /\ \A i \in 1 .. Len(PoolChannel') :
             \/ i \in 1 .. Len(PoolChannel) /\ PoolChannel'[i] = PoolChannel[i]
             \/ i = Len(PoolChannel) + 1 /\ PoolChannel'[i] = working
    BY <1>h, AppendFacts DEF TypeOK, ChannelTypeOK, ReturnBuffer
  <1>2. /\ dispatcher = "Return"
        /\ working' = NoBuffer
        /\ dispatcher' = "Select"
        /\ UNCHANGED <<QueueChannel, reader, held, Status_state, timer,
                     finished>>
    BY DEF ReturnBuffer, readerVars, dispatcherVars
  <1>3. /\ Len(PoolChannel) \in Nat /\ Len(QueueChannel) \in Nat
        /\ Len(QueueChannel) <= SIZE_QUEUE_BUFFER
        /\ \A i \in 1 .. Len(PoolChannel) : PoolChannel[i] # EXIT
    BY DEF TypeOK, ChannelTypeOK, Buffers, EXIT
  <1>4. ChannelTypeOK'
    BY <1>1, <1>2, <1>3 DEF TypeOK, ChannelTypeOK
  <1>5. StreamTypeOK'
    BY DEF TypeOK, StreamTypeOK, WorkerTypeOK, HandsInv, ReturnBuffer, readerVars, dispatcherVars, NoBuffer, EXIT
  <1>6. WorkerTypeOK'
    BY <1>1, <1>2 DEF TypeOK, WorkerTypeOK, NoBuffer, EXIT
  <1>7. HandsInv'
    BY <1>1, <1>2 DEF TypeOK, WorkerTypeOK, HandsInv, NoBuffer, EXIT, Buffers
  <1>8. ExitInv'
    BY <1>1, <1>2, <1>3 DEF ExitInv, ExitQueued, HandsInv, NoBuffer, EXIT
  <1>9. CountInv'
    BY <1>1, <1>2, <1>3 DEF CountInv, One, ExitQueued, ExitInv, HandsInv, NoBuffer, EXIT, Buffers
  <1>10. OneOwner'
    <2> USE <1>1, <1>2, <1>3 DEF OneOwner
    <2>1. FreeOnce'
      BY DEF FreeOnce, InNoHand, HandsInv, NoBuffer
    <2>2. QueuedOnce'
      BY DEF QueuedOnce, InNoHand, HandsInv, ExitInv, ExitQueued, NoBuffer, EXIT
    <2>3. FreeOrQueued'
      BY DEF FreeOrQueued, InNoHand, HandsInv, NoBuffer, EXIT, TypeOK, ChannelTypeOK, Buffers
    <2>4. InNoHand(PoolChannel)'
      BY DEF InNoHand, FreeOnce, FreeOrQueued
    <2>5. InNoHand(QueueChannel)'
      BY DEF InNoHand, QueuedOnce, FreeOrQueued, NoBuffer, EXIT
    <2>6. (held = working => held = NoBuffer)'
      BY DEF InNoHand, HandsInv, NoBuffer, TypeOK, ChannelTypeOK, Buffers
    <2> QED
      BY <2>1, <2>2, <2>3, <2>4, <2>5, <2>6
  <1>11. StagedHasTimer'
    BY <1>2 DEF StagedHasTimer, HandsInv, TypeOK, WorkerTypeOK, ReturnBuffer, readerVars, dispatcherVars
  <1> QED
    BY <1>4, <1>5, <1>6, <1>7, <1>8, <1>9, <1>10, <1>11 DEF TypeOK

LEMMA TickPreserves == IInv /\ Tick => IInv'
  <1> SUFFICES ASSUME IInv, Tick PROVE IInv'
    OBVIOUS
  <1> USE QueueAssumption, PoolAssumption, ReadsAssumption DEF IInv
  <1>2. /\ dispatcher = "Select"
        /\ timer = "armed"
        /\ timer' = "stopped"
        /\ IF StagingBuffer # <<>>
           THEN dispatcher' = "FlushStaged" /\ UNCHANGED Status_state
           ELSE Status_state' = "IDLE" /\ UNCHANGED dispatcher
        /\ UNCHANGED <<PoolChannel, QueueChannel, reader, held, working,
                     finished>>
    BY DEF Tick, readerVars, dispatcherVars
  <1>3. /\ Len(PoolChannel) \in Nat /\ Len(QueueChannel) \in Nat
        /\ Len(QueueChannel) <= SIZE_QUEUE_BUFFER
        /\ \A i \in 1 .. Len(PoolChannel) : PoolChannel[i] # EXIT
    BY DEF TypeOK, ChannelTypeOK, Buffers, EXIT
  <1>4. ChannelTypeOK'
    BY <1>2, <1>3 DEF TypeOK, ChannelTypeOK
  <1>5. StreamTypeOK'
    BY DEF TypeOK, StreamTypeOK, WorkerTypeOK, HandsInv, Tick, readerVars, dispatcherVars, NoBuffer, EXIT
  <1>6. WorkerTypeOK'
    BY <1>2 DEF TypeOK, WorkerTypeOK, NoBuffer, EXIT
  <1>7. HandsInv'
    BY <1>2 DEF TypeOK, WorkerTypeOK, HandsInv, NoBuffer, EXIT, Buffers, StagedHasTimer
  <1>8. ExitInv'
    BY <1>2, <1>3 DEF ExitInv, ExitQueued, HandsInv, NoBuffer, EXIT
  <1>9. CountInv'
    BY <1>2, <1>3 DEF CountInv, One, ExitQueued, ExitInv, HandsInv, NoBuffer, EXIT, Buffers
  <1>10. OneOwner'
    <2> USE <1>2, <1>3 DEF OneOwner
    <2>1. FreeOnce'
      BY DEF FreeOnce, InNoHand, HandsInv, NoBuffer
    <2>2. QueuedOnce'
      BY DEF QueuedOnce, InNoHand, HandsInv, ExitInv, ExitQueued, NoBuffer, EXIT
    <2>3. FreeOrQueued'
      BY DEF FreeOrQueued, InNoHand, HandsInv, NoBuffer, EXIT, TypeOK, ChannelTypeOK, Buffers
    <2>4. InNoHand(PoolChannel)'
      BY DEF InNoHand, FreeOnce, FreeOrQueued
    <2>5. InNoHand(QueueChannel)'
      BY DEF InNoHand, QueuedOnce, FreeOrQueued, NoBuffer, EXIT
    <2>6. (held = working => held = NoBuffer)'
      BY DEF InNoHand, HandsInv, NoBuffer, TypeOK, ChannelTypeOK, Buffers
    <2> QED
      BY <2>1, <2>2, <2>3, <2>4, <2>5, <2>6
  <1>11. StagedHasTimer'
    BY <1>2 DEF StagedHasTimer, HandsInv, TypeOK, WorkerTypeOK, Tick, readerVars, dispatcherVars
  <1> QED
    BY <1>4, <1>5, <1>6, <1>7, <1>8, <1>9, <1>10, <1>11 DEF TypeOK

LEMMA FlushStagedPreserves == IInv /\ FlushStaged => IInv'
  <1> SUFFICES ASSUME IInv, FlushStaged PROVE IInv'
    OBVIOUS
  <1> USE QueueAssumption, PoolAssumption, ReadsAssumption DEF IInv
  <1>2. /\ dispatcher = "FlushStaged"
        /\ timer' = "armed"
        /\ dispatcher' = "Select"
        /\ UNCHANGED <<PoolChannel, QueueChannel, reader, held, working,
                     Status_state, finished>>
    BY DEF FlushStaged, readerVars, dispatcherVars
  <1>3. /\ Len(PoolChannel) \in Nat /\ Len(QueueChannel) \in Nat
        /\ Len(QueueChannel) <= SIZE_QUEUE_BUFFER
        /\ \A i \in 1 .. Len(PoolChannel) : PoolChannel[i] # EXIT
    BY DEF TypeOK, ChannelTypeOK, Buffers, EXIT
  <1>4. ChannelTypeOK'
    BY <1>2, <1>3 DEF TypeOK, ChannelTypeOK
  <1>5. StreamTypeOK'
    BY DEF TypeOK, StreamTypeOK, WorkerTypeOK, HandsInv, FlushStaged, readerVars, dispatcherVars, NoBuffer, EXIT
  <1>6. WorkerTypeOK'
    BY <1>2 DEF TypeOK, WorkerTypeOK, NoBuffer, EXIT
  <1>7. HandsInv'
    BY <1>2 DEF TypeOK, WorkerTypeOK, HandsInv, NoBuffer, EXIT, Buffers
  <1>8. ExitInv'
    BY <1>2, <1>3 DEF ExitInv, ExitQueued, HandsInv, NoBuffer, EXIT
  <1>9. CountInv'
    BY <1>2, <1>3 DEF CountInv, One, ExitQueued, ExitInv, HandsInv, NoBuffer, EXIT, Buffers
  <1>10. OneOwner'
    <2> USE <1>2, <1>3 DEF OneOwner
    <2>1. FreeOnce'
      BY DEF FreeOnce, InNoHand, HandsInv, NoBuffer
    <2>2. QueuedOnce'
      BY DEF QueuedOnce, InNoHand, HandsInv, ExitInv, ExitQueued, NoBuffer, EXIT
    <2>3. FreeOrQueued'
      BY DEF FreeOrQueued, InNoHand, HandsInv, NoBuffer, EXIT, TypeOK, ChannelTypeOK, Buffers
    <2>4. InNoHand(PoolChannel)'
      BY DEF InNoHand, FreeOnce, FreeOrQueued
    <2>5. InNoHand(QueueChannel)'
      BY DEF InNoHand, QueuedOnce, FreeOrQueued, NoBuffer, EXIT
    <2>6. (held = working => held = NoBuffer)'
      BY DEF InNoHand, HandsInv, NoBuffer, TypeOK, ChannelTypeOK, Buffers
    <2> QED
      BY <2>1, <2>2, <2>3, <2>4, <2>5, <2>6
  <1>11. StagedHasTimer'
    BY <1>2 DEF StagedHasTimer, HandsInv, TypeOK, WorkerTypeOK, FlushStaged, readerVars, dispatcherVars
  <1> QED
    BY <1>4, <1>5, <1>6, <1>7, <1>8, <1>9, <1>10, <1>11 DEF TypeOK

LEMMA ExitSignalPreserves == IInv /\ ExitSignal => IInv'
  <1> SUFFICES ASSUME IInv, ExitSignal PROVE IInv'
    OBVIOUS
  <1> USE QueueAssumption, PoolAssumption, ReadsAssumption DEF IInv
  <1>1. /\ Len(QueueChannel) \in Nat /\ Len(QueueChannel) >= 1
        /\ Head(QueueChannel) = QueueChannel[1] /\ Head(QueueChannel) \in Buffers \cup {EXIT}
        /\ QueueChannel' \in Seq(Buffers \cup {EXIT}) /\ Len(QueueChannel') = Len(QueueChannel) - 1
        /\ \A i \in 1 .. Len(QueueChannel) - 1 : QueueChannel'[i] = QueueChannel[i + 1]
    BY TailFacts DEF TypeOK, ChannelTypeOK, ExitSignal
  <1>2. /\ dispatcher = "Select"
        /\ timer' = "stopped"
        /\ dispatcher' = IF StagingBuffer # <<>> THEN "FlushLast" ELSE "Finish"
        /\ Head(QueueChannel) = EXIT
        /\ UNCHANGED <<PoolChannel, reader, held, working, Status_state,
                     finished>>
    BY DEF ExitSignal, readerVars, dispatcherVars
  <1>3. /\ Len(PoolChannel) \in Nat /\ Len(QueueChannel) \in Nat
        /\ Len(QueueChannel) <= SIZE_QUEUE_BUFFER
        /\ \A i \in 1 .. Len(PoolChannel) : PoolChannel[i] # EXIT
    BY DEF TypeOK, ChannelTypeOK, Buffers, EXIT
  <1>4. ChannelTypeOK'
    BY <1>1, <1>2, <1>3 DEF TypeOK, ChannelTypeOK
  <1>5. StreamTypeOK'
    BY <1>1 DEF TypeOK, StreamTypeOK, WorkerTypeOK, HandsInv, ExitSignal, readerVars, dispatcherVars, NoBuffer, EXIT
  <1>6. WorkerTypeOK'
    BY <1>1, <1>2 DEF TypeOK, WorkerTypeOK, NoBuffer, EXIT
  <1>7. HandsInv'
    BY <1>1, <1>2 DEF TypeOK, WorkerTypeOK, HandsInv, NoBuffer, EXIT, Buffers
  <1>8. ExitInv'
    BY <1>1, <1>2, <1>3 DEF ExitInv, ExitQueued, HandsInv, NoBuffer, EXIT
  <1>9. CountInv'
    BY <1>1, <1>2, <1>3 DEF CountInv, One, ExitQueued, ExitInv, HandsInv, NoBuffer, EXIT, Buffers
  <1>10. OneOwner'
    <2> USE <1>1, <1>2, <1>3 DEF OneOwner
    <2>1. FreeOnce'
      BY DEF FreeOnce, InNoHand, HandsInv, NoBuffer
    <2>2. QueuedOnce'
      BY DEF QueuedOnce, InNoHand, HandsInv, ExitInv, ExitQueued, NoBuffer, EXIT
    <2>3. FreeOrQueued'
      BY DEF FreeOrQueued, InNoHand, HandsInv, NoBuffer, EXIT, TypeOK, ChannelTypeOK, Buffers
    <2>4. InNoHand(PoolChannel)'
      BY DEF InNoHand, FreeOnce, FreeOrQueued
    <2>5. InNoHand(QueueChannel)'
      BY DEF InNoHand, QueuedOnce, FreeOrQueued, NoBuffer, EXIT
    <2>6. (held = working => held = NoBuffer)'
      BY DEF InNoHand, HandsInv, NoBuffer, TypeOK, ChannelTypeOK, Buffers
    <2> QED
      BY <2>1, <2>2, <2>3, <2>4, <2>5, <2>6
  <1>11. StagedHasTimer'
    BY <1>2 DEF StagedHasTimer, HandsInv, TypeOK, WorkerTypeOK, ExitSignal, readerVars, dispatcherVars
  <1> QED
    BY <1>4, <1>5, <1>6, <1>7, <1>8, <1>9, <1>10, <1>11 DEF TypeOK

LEMMA FlushLastPreserves == IInv /\ FlushLast => IInv'
  <1> SUFFICES ASSUME IInv, FlushLast PROVE IInv'
    OBVIOUS
  <1> USE QueueAssumption, PoolAssumption, ReadsAssumption DEF IInv
  <1>2. /\ dispatcher = "FlushLast"
        /\ dispatcher' = "Finish"
        /\ UNCHANGED <<PoolChannel, QueueChannel, reader, held, working,
                     Status_state, timer, finished>>
    BY DEF FlushLast, readerVars, dispatcherVars
  <1>3. /\ Len(PoolChannel) \in Nat /\ Len(QueueChannel) \in Nat
        /\ Len(QueueChannel) <= SIZE_QUEUE_BUFFER
        /\ \A i \in 1 .. Len(PoolChannel) : PoolChannel[i] # EXIT
    BY DEF TypeOK, ChannelTypeOK, Buffers, EXIT
  <1>4. ChannelTypeOK'
    BY <1>2, <1>3 DEF TypeOK, ChannelTypeOK
  <1>5. StreamTypeOK'
    BY DEF TypeOK, StreamTypeOK, WorkerTypeOK, HandsInv, FlushLast, readerVars, dispatcherVars, NoBuffer, EXIT
  <1>6. WorkerTypeOK'
    BY <1>2 DEF TypeOK, WorkerTypeOK, NoBuffer, EXIT
  <1>7. HandsInv'
    BY <1>2 DEF TypeOK, WorkerTypeOK, HandsInv, NoBuffer, EXIT, Buffers
  <1>8. ExitInv'
    BY <1>2, <1>3 DEF ExitInv, ExitQueued, HandsInv, NoBuffer, EXIT
  <1>9. CountInv'
    BY <1>2, <1>3 DEF CountInv, One, ExitQueued, ExitInv, HandsInv, NoBuffer, EXIT, Buffers
  <1>10. OneOwner'
    <2> USE <1>2, <1>3 DEF OneOwner
    <2>1. FreeOnce'
      BY DEF FreeOnce, InNoHand, HandsInv, NoBuffer
    <2>2. QueuedOnce'
      BY DEF QueuedOnce, InNoHand, HandsInv, ExitInv, ExitQueued, NoBuffer, EXIT
    <2>3. FreeOrQueued'
      BY DEF FreeOrQueued, InNoHand, HandsInv, NoBuffer, EXIT, TypeOK, ChannelTypeOK, Buffers
    <2>4. InNoHand(PoolChannel)'
      BY DEF InNoHand, FreeOnce, FreeOrQueued
    <2>5. InNoHand(QueueChannel)'
      BY DEF InNoHand, QueuedOnce, FreeOrQueued, NoBuffer, EXIT
    <2>6. (held = working => held = NoBuffer)'
      BY DEF InNoHand, HandsInv, NoBuffer, TypeOK, ChannelTypeOK, Buffers
    <2> QED
      BY <2>1, <2>2, <2>3, <2>4, <2>5, <2>6
  <1>11. StagedHasTimer'
    BY <1>2 DEF StagedHasTimer, HandsInv, TypeOK, WorkerTypeOK, FlushLast, readerVars, dispatcherVars
  <1> QED
    BY <1>4, <1>5, <1>6, <1>7, <1>8, <1>9, <1>10, <1>11 DEF TypeOK

LEMMA FinishPreserves == IInv /\ Finish => IInv'
  <1> SUFFICES ASSUME IInv, Finish PROVE IInv'
    OBVIOUS
  <1> USE QueueAssumption, PoolAssumption, ReadsAssumption DEF IInv
  <1>2. /\ dispatcher = "Finish"
        /\ finished' = TRUE
        /\ dispatcher' = "Exited"
        /\ UNCHANGED <<PoolChannel, QueueChannel, reader, held, working,
                     Status_state, timer>>
    BY DEF Finish, readerVars, dispatcherVars
  <1>3. /\ Len(PoolChannel) \in Nat /\ Len(QueueChannel) \in Nat
        /\ Len(QueueChannel) <= SIZE_QUEUE_BUFFER
        /\ \A i \in 1 .. Len(PoolChannel) : PoolChannel[i] # EXIT
    BY DEF TypeOK, ChannelTypeOK, Buffers, EXIT
  <1>4. ChannelTypeOK'
    BY <1>2, <1>3 DEF TypeOK, ChannelTypeOK
  <1>5. StreamTypeOK'
    BY DEF TypeOK, StreamTypeOK, WorkerTypeOK, HandsInv, Finish, readerVars, dispatcherVars, NoBuffer, EXIT
  <1>6. WorkerTypeOK'
    BY <1>2 DEF TypeOK, WorkerTypeOK, NoBuffer, EXIT
  <1>7. HandsInv'
    BY <1>2 DEF TypeOK, WorkerTypeOK, HandsInv, NoBuffer, EXIT, Buffers
  <1>8. ExitInv'
    BY <1>2, <1>3 DEF ExitInv, ExitQueued, HandsInv, NoBuffer, EXIT
  <1>9. CountInv'
    BY <1>2, <1>3 DEF CountInv, One, ExitQueued, ExitInv, HandsInv, NoBuffer, EXIT, Buffers
  <1>10. OneOwner'
    <2> USE <1>2, <1>3 DEF OneOwner
    <2>1. FreeOnce'
      BY DEF FreeOnce, InNoHand, HandsInv, NoBuffer
    <2>2. QueuedOnce'
      BY DEF QueuedOnce, InNoHand, HandsInv, ExitInv, ExitQueued, NoBuffer, EXIT
    <2>3. FreeOrQueued'
      BY DEF FreeOrQueued, InNoHand, HandsInv, NoBuffer, EXIT, TypeOK, ChannelTypeOK, Buffers
    <2>4. InNoHand(PoolChannel)'
      BY DEF InNoHand, FreeOnce, FreeOrQueued
    <2>5. InNoHand(QueueChannel)'
      BY DEF InNoHand, QueuedOnce, FreeOrQueued, NoBuffer, EXIT
    <2>6. (held = working => held = NoBuffer)'
      BY DEF InNoHand, HandsInv, NoBuffer, TypeOK, ChannelTypeOK, Buffers
    <2> QED
      BY <2>1, <2>2, <2>3, <2>4, <2>5, <2>6
  <1>11. StagedHasTimer'
    BY <1>2 DEF StagedHasTimer, HandsInv, TypeOK, WorkerTypeOK, Finish, readerVars, dispatcherVars
  <1> QED
    BY <1>4, <1>5, <1>6, <1>7, <1>8, <1>9, <1>10, <1>11 DEF TypeOK

LEMMA NextPreserves == IInv /\ [Next]_vars => IInv'
  <1> SUFFICES ASSUME IInv, [Next]_vars PROVE IInv'
    OBVIOUS
  <1>1. CASE UNCHANGED vars
    BY <1>1 DEF vars, readerVars, dispatcherVars, IInv, TypeOK, ChannelTypeOK, StreamTypeOK,
       WorkerTypeOK, HandsInv, ExitInv, ExitQueued, CountInv, OneOwner, FreeOnce, QueuedOnce,
       FreeOrQueued, InNoHand, StagedHasTimer
  <1>2. CASE Reader
    BY <1>2, TakeBufferPreserves, ReadChunkPreserves, ReadErrorPreserves, SendDataPreserves,
       RestitutePreserves, SendExitPreserves DEF Reader
  <1>3. CASE Dispatcher
    BY <1>3, DataIdlePreserves, FlushDataPreserves, DataPacingPreserves, ReturnBufferPreserves,
       TickPreserves, FlushStagedPreserves, ExitSignalPreserves, FlushLastPreserves,
       FinishPreserves DEF Dispatcher
  <1> QED
    BY <1>1, <1>2, <1>3 DEF Next

-----------------------------------------------------------------------------
(* Theorems.                                                               *)

(* The joint invariant of reader, dispatcher, queue and freelist.           *)
THEOREM Invariant == Spec => []IInv
  <1> QED
    BY Initially, NextPreserves, PTL DEF Spec

(* Every variable keeps its type and both channels their capacity.          *)
THEOREM TypeCorrect == Spec => []TypeOK
  <1>1. IInv => TypeOK
    BY DEF IInv
  <1> QED
    BY Invariant, <1>1, PTL

(* PtyReader-THREAD.go:7,18 and PtyDispatcher-THREAD.go:47: no receive from *)
(* the freelist and no send to it ever blocks.                              *)
THEOREM PoolFree == Spec => []PoolNeverBlocks
  <1>1. IInv => PoolNeverBlocks
    <2> SUFFICES ASSUME IInv PROVE PoolNeverBlocks
      OBVIOUS
    <2> USE QueueAssumption, PoolAssumption DEF IInv
    <2>1. /\ Len(PoolChannel) \in Nat /\ Len(QueueChannel) \in Nat
          /\ Len(QueueChannel) <= SIZE_QUEUE_BUFFER
      BY DEF TypeOK, ChannelTypeOK
    <2>2. ExitQueued => Len(QueueChannel) > 0
      BY DEF ExitInv
    <2>3. reader = "Take" => Len(PoolChannel) > 0
      BY <2>1 DEF HandsInv, CountInv, One, ExitQueued
    <2>4. reader = "Restitute" => Len(PoolChannel) < SIZE_POOL_BUFFER
      BY <2>1 DEF HandsInv, CountInv, One, ExitQueued
    <2>5. dispatcher = "Return" => Len(PoolChannel) < SIZE_POOL_BUFFER
      BY <2>1, <2>2 DEF HandsInv, CountInv, One
    <2> QED
      BY <2>3, <2>4, <2>5 DEF PoolNeverBlocks
  <1> QED
    BY Invariant, <1>1, PTL

(* No buffer is read into while it is free, queued or being flushed.        *)
THEOREM BufferOwned == Spec => []OneOwner
  <1>1. IInv => OneOwner
    BY DEF IInv
  <1> QED
    BY Invariant, <1>1, PTL

(* Staged bytes always have a running pacing timer to flush them.           *)
THEOREM StagedTimed == Spec => []StagedHasTimer
  <1>1. IInv => StagedHasTimer
    BY DEF IInv
  <1> QED
    BY Invariant, <1>1, PTL

-----------------------------------------------------------------------------
(* The stream. Facts about concatenation first.                            *)

Chunks == 0 .. MaxReads

(* The last chunk moves from one part to the end of the one before.         *)
LEMMA ConcatSend ==
  ASSUME NEW S, NEW a \in Seq(S), NEW c \in Seq(S), NEW x \in S
  PROVE  (a \o (c \o <<x>>)) \o <<>> = (a \o c) \o <<x>>
  <1>1. <<x>> \in Seq(S) /\ c \o <<x>> \in Seq(S)
    OBVIOUS
  <1>2. a \o (c \o <<x>>) \in Seq(S)
    BY <1>1, ConcatProperties
  <1>3. (a \o c) \o <<x>> = a \o (c \o <<x>>)
    BY <1>1, ConcatAssociative
  <1> QED
    BY <1>2, <1>3, ConcatEmptySeq

(* The first chunk of one part moves to the end of the one before.          *)
LEMMA ConcatReceive ==
  ASSUME NEW S, NEW a \in Seq(S), NEW c \in Seq(S), NEW x \in S
  PROVE  (a \o <<x>>) \o c = a \o (<<x>> \o c)
  <1>1. <<x>> \in Seq(S)
    OBVIOUS
  <1> QED
    BY <1>1, ConcatAssociative

(* What a delivery of the first part takes and leaves.                      *)
LEMMA ConcatFront ==
  ASSUME NEW S, NEW f \in Seq(S), NEW r \in Seq(S), f # <<>>
  PROVE  /\ Len(f) \in 1 .. Len(f \o r)
         /\ SubSeq(f \o r, 1, Len(f)) = f
         /\ SubSeq(f \o r, Len(f) + 1, Len(f \o r)) = r
  <1>1. Len(f) \in Nat /\ Len(r) \in Nat /\ Len(f) >= 1
    BY EmptySeq, LenProperties
  <1>2. Len(f \o r) = Len(f) + Len(r)
    BY ConcatProperties
  <1>3. SubSeq(f \o r, 1, Len(f)) = f
    BY <1>1, SubSeqOfConcat1, SubSeqFull
  <1>4. CASE r = <<>>
    BY <1>1, <1>2, <1>4, SubSeqEmpty, EmptySeq
  <1>5. CASE r # <<>>
    <2>1. Len(r) >= 1
      BY <1>5, EmptySeq, <1>1
    <2>2. SubSeq(f \o r, Len(f) + 1, Len(f) + Len(r))
            = SubSeq(r, Len(f) + 1 - Len(f), Len(f) + Len(r) - Len(f))
      BY <1>1, <2>1, SubSeqOfConcat2
    <2>3. Len(f) + 1 - Len(f) = 1 /\ Len(f) + Len(r) - Len(f) = Len(r)
      BY <1>1
    <2>4. SubSeq(r, 1, Len(r)) = r
      BY SubSeqFull
    <2> QED
      BY <1>1, <1>2, <1>3, <2>2, <2>3, <2>4
  <1> QED
    BY <1>1, <1>2, <1>3, <1>4, <1>5

(* The parts of Pending are sequences of chunks.                            *)
LEMMA PendingType ==
  ASSUME IInv
  PROVE  /\ StagingBuffer \in Seq(Chunks) /\ InFlush \in Seq(Chunks)
         /\ InQueue \in Seq(Chunks) /\ InHand \in Seq(Chunks)
         /\ StagingBuffer \o InFlush \in Seq(Chunks)
         /\ (StagingBuffer \o InFlush) \o InQueue \in Seq(Chunks)
         /\ Pending \in Seq(Chunks)
         /\ DataInQueue \in Nat /\ DataInQueue <= Len(QueueChannel)
         /\ Len(InQueue) = DataInQueue
         /\ \A i \in 1 .. DataInQueue : QueueChannel[i] \in Buffers
         /\ flushed \in Seq(Chunks)
  <1> USE ReadsAssumption DEF IInv, Chunks
  <1>1. StagingBuffer \in Seq(Chunks) /\ flushed \in Seq(Chunks)
    BY DEF TypeOK, StreamTypeOK
  <1>2. InFlush \in Seq(Chunks)
    <2>1. dispatcher = "FlushData" => working \in Buffers
      BY DEF TypeOK, WorkerTypeOK, HandsInv
    <2>2. memory \in [Buffers -> Chunks]
      BY DEF TypeOK, StreamTypeOK
    <2>3. CASE dispatcher = "FlushData"
      <3>1. memory[working] \in Chunks
        BY <2>1, <2>2, <2>3
      <3>2. InFlush = <<memory[working]>>
        BY <2>3 DEF InFlush
      <3> QED
        BY <3>1, <3>2
    <2>4. CASE ~(dispatcher = "FlushData")
      BY <2>4, EmptySeq DEF InFlush
    <2> QED
      BY <2>3, <2>4
  <1>3. InHand \in Seq(Chunks)
    <2>1. reader = "Send" => held \in Buffers
      BY DEF TypeOK, WorkerTypeOK, HandsInv
    <2>2. memory \in [Buffers -> Chunks]
      BY DEF TypeOK, StreamTypeOK
    <2>3. CASE reader = "Send"
      <3>1. memory[held] \in Chunks
        BY <2>1, <2>2, <2>3
      <3>2. InHand = <<memory[held]>>
        BY <2>3 DEF InHand
      <3> QED
        BY <3>1, <3>2
    <2>4. CASE ~(reader = "Send")
      BY <2>4, EmptySeq DEF InHand
    <2> QED
      BY <2>3, <2>4
  <1>4. Len(QueueChannel) \in Nat
    BY DEF TypeOK, ChannelTypeOK
  <1>5. DataInQueue \in Nat /\ DataInQueue <= Len(QueueChannel)
    BY <1>4 DEF DataInQueue, ExitInv
  <1>6. \A i \in 1 .. DataInQueue : QueueChannel[i] \in Buffers
    <2>1. \A i \in 1 .. Len(QueueChannel) : QueueChannel[i] \in Buffers \cup {EXIT}
      BY DEF TypeOK, ChannelTypeOK
    <2> QED
      BY <1>4, <1>5, <2>1 DEF DataInQueue, ExitInv
  <1>7. InQueue \in Seq(Chunks) /\ Len(InQueue) = DataInQueue
    BY <1>5, <1>6 DEF InQueue, TypeOK, StreamTypeOK
  <1>8. StagingBuffer \o InFlush \in Seq(Chunks)
    BY <1>1, <1>2, ConcatProperties
  <1>9. (StagingBuffer \o InFlush) \o InQueue \in Seq(Chunks)
    BY <1>7, <1>8, ConcatProperties
  <1>10. Pending \in Seq(Chunks)
    BY <1>3, <1>9, ConcatProperties DEF Pending
  <1> QED
    BY <1>1, <1>2, <1>3, <1>5, <1>6, <1>7, <1>8, <1>9, <1>10

-----------------------------------------------------------------------------
(* What each step does to the pending chunks: nothing, one chunk more at   *)
(* the end, or a delivery from the front.                                  *)

StreamInv ==
  /\ Len(flushed) + Len(Pending) = reads
  /\ dispatcher \in {"FlushStaged", "FlushLast"} => StagingBuffer # <<>>
  /\ dispatcher = "FlushData" => Status_state = "IDLE"
  /\ dispatcher \in {"Finish", "Exited"} => StagingBuffer = <<>>
  /\ finished <=> dispatcher = "Exited"

LEMMA ReadChunkPending ==
  ASSUME IInv, StreamInv, ReadChunk
  PROVE  Pending' = Append(Pending, Len(flushed) + Len(Pending) + 1)
  <1> USE QueueAssumption, PoolAssumption, ReadsAssumption
  <1>1. /\ reader = "Read" /\ reader' = "Send" /\ held' = held /\ held \in Buffers
        /\ reads \in Nat /\ reads' = reads + 1 /\ reads' \in Chunks
        /\ memory' = [memory EXCEPT ![held] = reads'] /\ memory \in [Buffers -> Chunks]
        /\ UNCHANGED <<QueueChannel, dispatcher, working, StagingBuffer>>
    BY DEF ReadChunk, dispatcherVars, IInv, TypeOK, WorkerTypeOK, StreamTypeOK, HandsInv, Chunks
  <1>2. InFlush' = InFlush
    <2>1. dispatcher = "FlushData" => working \in Buffers /\ working # held
      BY <1>1 DEF IInv, OneOwner, HandsInv, TypeOK, WorkerTypeOK
    <2> QED
      BY <1>1, <2>1 DEF InFlush
  <1>3. InQueue' = InQueue
    <2>1. \A i \in 1 .. DataInQueue : QueueChannel[i] \in Buffers /\ QueueChannel[i] # held
      BY <1>1, PendingType DEF IInv, OneOwner, InNoHand, HandsInv, TypeOK, ChannelTypeOK
    <2>2. DataInQueue' = DataInQueue
      BY <1>1 DEF DataInQueue, ExitQueued
    <2> QED
      BY <1>1, <2>1, <2>2 DEF InQueue
  <1>4. InHand = <<>> /\ InHand' = <<reads'>>
    BY <1>1 DEF InHand
  <1>5. Pending = (StagingBuffer \o InFlush) \o InQueue
    BY <1>4, PendingType, ConcatEmptySeq DEF Pending
  <1>6. Pending' = Pending \o <<reads'>>
    BY <1>1, <1>2, <1>3, <1>4, <1>5 DEF Pending
  <1>7. Pending \o <<reads'>> = Append(Pending, reads')
    BY <1>1, PendingType, AppendIsConcat
  <1> QED
    BY <1>1, <1>6, <1>7 DEF StreamInv

LEMMA SendDataPending ==
  ASSUME IInv, SendData
  PROVE  Pending' = Pending
  <1> USE QueueAssumption, PoolAssumption, ReadsAssumption
  <1>1. /\ reader = "Send" /\ reader' = "Take" /\ held \in Buffers
        /\ memory \in [Buffers -> Chunks]
        /\ UNCHANGED <<memory, dispatcher, working, StagingBuffer>>
    BY DEF SendData, dispatcherVars, IInv, TypeOK, WorkerTypeOK, StreamTypeOK, HandsInv, Chunks
  <1>2. /\ Len(QueueChannel) \in Nat
        /\ Len(QueueChannel') = Len(QueueChannel) + 1
        /\ \A i \in 1 .. Len(QueueChannel) : QueueChannel'[i] = QueueChannel[i]
        /\ QueueChannel'[Len(QueueChannel) + 1] = held
    BY <1>1, AppendFacts DEF SendData, IInv, TypeOK, ChannelTypeOK
  <1>3. DataInQueue = Len(QueueChannel) /\ DataInQueue' = Len(QueueChannel) + 1
    BY <1>1, <1>2 DEF DataInQueue, ExitQueued
  <1>4. memory[held] \in Chunks
    BY <1>1
  <1>5. InQueue' = InQueue \o <<memory[held]>>
    <2>1. InQueue' = [i \in 1 .. Len(QueueChannel) + 1 |->
                        IF i <= Len(QueueChannel) THEN memory[QueueChannel[i]] ELSE memory[held]]
      BY <1>1, <1>2, <1>3 DEF InQueue
    <2>2. InQueue = [i \in 1 .. Len(QueueChannel) |-> memory[QueueChannel[i]]]
      BY <1>3 DEF InQueue
    <2>3. InQueue' \in Seq(Chunks) /\ Len(InQueue') = Len(QueueChannel) + 1
      <3>1. \A i \in 1 .. Len(QueueChannel) : memory[QueueChannel[i]] \in Chunks
        BY <1>1, <1>3, PendingType
      <3>2. \A i \in 1 .. Len(QueueChannel) + 1 :
              (IF i <= Len(QueueChannel) THEN memory[QueueChannel[i]] ELSE memory[held]) \in Chunks
        BY <1>2, <1>4, <3>1
      <3> QED
        BY <1>2, <2>1, <3>2
    <2>4. /\ InQueue \o <<memory[held]>> \in Seq(Chunks)
          /\ Len(InQueue \o <<memory[held]>>) = Len(QueueChannel) + 1
          /\ \A i \in 1 .. Len(QueueChannel) + 1 :
               (InQueue \o <<memory[held]>>)[i] =
                 IF i <= Len(QueueChannel) THEN InQueue[i] ELSE memory[held]
      BY <1>2, <1>3, <1>4, PendingType
    <2>5. \A i \in 1 .. Len(InQueue') : InQueue'[i] = (InQueue \o <<memory[held]>>)[i]
      BY <1>2, <2>1, <2>2, <2>3, <2>4
    <2> QED
      BY <2>3, <2>4, <2>5, SeqEqual
  <1>6. InFlush' = InFlush /\ InHand = <<memory[held]>> /\ InHand' = <<>>
    BY <1>1 DEF InFlush, InHand
  <1> QED
    BY <1>1, <1>4, <1>5, <1>6, PendingType, ConcatSend DEF Pending

(* Both receives of a data order: the head of the queue leaves it.          *)
LEMMA ReceivePending ==
  ASSUME IInv, DataIdle \/ DataPacing
  PROVE  /\ memory[Head(QueueChannel)] \in Chunks
         /\ InQueue' \in Seq(Chunks)
         /\ InQueue = <<memory[Head(QueueChannel)]>> \o InQueue'
         /\ InHand' = InHand
  <1> USE QueueAssumption, PoolAssumption, ReadsAssumption
  <1>1. /\ dispatcher = "Select" /\ dispatcher' \in {"FlushData", "Return"}
        /\ QueueChannel # <<>> /\ Head(QueueChannel) # EXIT
        /\ QueueChannel' = Tail(QueueChannel)
        /\ UNCHANGED <<memory, reader, held>>
    BY DEF DataIdle, DataPacing, readerVars
  <1>2. /\ Len(QueueChannel) \in Nat /\ Len(QueueChannel) >= 1
        /\ Head(QueueChannel) = QueueChannel[1] /\ Head(QueueChannel) \in Buffers \cup {EXIT}
        /\ Len(QueueChannel') = Len(QueueChannel) - 1
        /\ \A i \in 1 .. Len(QueueChannel) - 1 : QueueChannel'[i] = QueueChannel[i + 1]
    BY <1>1, TailFacts DEF IInv, TypeOK, ChannelTypeOK
  <1>3. memory \in [Buffers -> Chunks] /\ memory[Head(QueueChannel)] \in Chunks
    BY <1>1, <1>2 DEF IInv, TypeOK, StreamTypeOK, Chunks
  <1>4. DataInQueue \in Nat /\ DataInQueue >= 1 /\ DataInQueue' = DataInQueue - 1
    <2>1. ExitQueued' <=> ExitQueued
      BY <1>1 DEF ExitQueued
    <2>2. ASSUME ExitQueued, Len(QueueChannel) = 1 PROVE FALSE
      <3>1. QueueChannel[1] = EXIT
        BY <2>2, <1>2 DEF IInv, ExitInv
      <3> QED
        BY <3>1, <1>1, <1>2
    <2> QED
      BY <1>2, <2>1, <2>2 DEF DataInQueue
  <1>5. InQueue' = [i \in 1 .. DataInQueue - 1 |-> memory[QueueChannel[i + 1]]]
    <2>1. \A i \in 1 .. DataInQueue - 1 : QueueChannel'[i] = QueueChannel[i + 1]
      BY <1>2, <1>4, PendingType
    <2> QED
      BY <1>1, <1>4, <2>1 DEF InQueue
  <1>6. \A i \in 1 .. DataInQueue : QueueChannel[i] \in Buffers
    BY PendingType
  <1>7. InQueue' \in Seq(Chunks) /\ Len(InQueue') = DataInQueue - 1
    BY <1>3, <1>4, <1>5, <1>6
  <1>8. InQueue = <<memory[Head(QueueChannel)]>> \o InQueue'
    <2>1. /\ <<memory[Head(QueueChannel)]>> \o InQueue' \in Seq(Chunks)
          /\ Len(<<memory[Head(QueueChannel)]>> \o InQueue') = DataInQueue
          /\ \A i \in 1 .. DataInQueue :
               (<<memory[Head(QueueChannel)]>> \o InQueue')[i] =
                  IF i <= 1 THEN memory[Head(QueueChannel)] ELSE InQueue'[i - 1]
      BY <1>3, <1>4, <1>7
    <2>2. \A i \in 1 .. DataInQueue :
            InQueue[i] = (<<memory[Head(QueueChannel)]>> \o InQueue')[i]
      BY <1>2, <1>4, <1>5, <2>1 DEF InQueue
    <2> QED
      BY <2>1, <2>2, PendingType, SeqEqual
  <1> QED
    BY <1>1, <1>3, <1>7, <1>8 DEF InHand

LEMMA DataIdlePending ==
  ASSUME IInv, DataIdle
  PROVE  Pending' = Pending
  <1> DEFINE x == memory[Head(QueueChannel)]
  <1>1. StagingBuffer = <<>> /\ StagingBuffer' = <<>>
    BY DEF DataIdle, IInv, StagedHasTimer
  <1>2. InFlush = <<>> /\ InFlush' = <<x>>
    BY DEF DataIdle, InFlush
  <1>3. /\ x \in Chunks /\ InQueue' \in Seq(Chunks)
        /\ InQueue = <<x>> \o InQueue' /\ InHand' = InHand
    BY ReceivePending
  <1>4. <<x>> \in Seq(Chunks) /\ <<>> \in Seq(Chunks)
    BY <1>3
  <1>5. <<>> \o <<>> = <<>> /\ <<>> \o <<x>> = <<x>>
    BY <1>4, ConcatEmptySeq
  <1>6. <<x>> \o InQueue' \in Seq(Chunks)
    BY <1>3, <1>4, ConcatProperties
  <1>7. <<>> \o (<<x>> \o InQueue') = <<x>> \o InQueue'
    BY <1>6, ConcatEmptySeq
  <1> HIDE DEF x
  <1> QED
    BY <1>1, <1>2, <1>3, <1>5, <1>7 DEF Pending

LEMMA DataPacingPending ==
  ASSUME IInv, DataPacing
  PROVE  Pending' = Pending
  <1> DEFINE x == memory[Head(QueueChannel)]
  <1>1. StagingBuffer' = Append(StagingBuffer, x)
    BY DEF DataPacing
  <1>2. InFlush = <<>> /\ InFlush' = <<>>
    BY DEF DataPacing, InFlush
  <1>3. /\ x \in Chunks /\ InQueue' \in Seq(Chunks)
        /\ InQueue = <<x>> \o InQueue' /\ InHand' = InHand
    BY ReceivePending
  <1>4. StagingBuffer \in Seq(Chunks)
    BY PendingType
  <1>5. StagingBuffer' = StagingBuffer \o <<x>> /\ StagingBuffer' \in Seq(Chunks)
    BY <1>1, <1>3, <1>4, AppendIsConcat, AppendProperties
  <1>6. StagingBuffer \o <<>> = StagingBuffer /\ StagingBuffer' \o <<>> = StagingBuffer'
    BY <1>4, <1>5, ConcatEmptySeq
  <1>7. StagingBuffer' \o InQueue' = StagingBuffer \o InQueue
    BY <1>3, <1>4, <1>5, ConcatReceive
  <1> HIDE DEF x
  <1> QED
    BY <1>2, <1>3, <1>6, <1>7 DEF Pending

(* The three flushes deliver from the front of Pending.                     *)
LEMMA FlushPending ==
  ASSUME IInv, StreamInv, FlushData \/ FlushStaged \/ FlushLast
  PROVE  \E front \in Seq(Chunks) :
            /\ front # <<>> /\ Pending' \in Seq(Chunks)
            /\ Pending = front \o Pending'
            /\ flushed' = flushed \o front
  <1> DEFINE front == StagingBuffer \o InFlush
  <1> DEFINE rest == InQueue \o InHand
  <1>1. /\ StagingBuffer \in Seq(Chunks) /\ InFlush \in Seq(Chunks)
        /\ InQueue \in Seq(Chunks) /\ InHand \in Seq(Chunks)
        /\ front \in Seq(Chunks) /\ flushed \in Seq(Chunks) /\ <<>> \in Seq(Chunks)
    BY PendingType, EmptySeq
  <1>2. rest \in Seq(Chunks) /\ Pending = front \o rest
    BY <1>1, ConcatProperties, ConcatAssociative DEF Pending
  <1>3. InQueue' = InQueue /\ InHand' = InHand
    <2>1. ExitQueued' <=> ExitQueued
      BY DEF FlushData, FlushStaged, FlushLast, readerVars, ExitQueued, IInv, ExitInv
    <2>2. dispatcher = "FlushLast" => QueueChannel = <<>>
      BY DEF IInv, ExitInv
    <2>3. UNCHANGED <<QueueChannel, memory, reader, held>>
      BY DEF FlushData, FlushStaged, FlushLast, readerVars
    <2> QED
      BY <2>1, <2>3 DEF InQueue, DataInQueue, InHand
  <1>4. StagingBuffer' = <<>> /\ InFlush' = <<>>
    BY DEF FlushData, FlushStaged, FlushLast, InFlush, StreamInv, IInv, StagedHasTimer
  <1>5. <<>> \o <<>> = <<>> /\ <<>> \o InQueue = InQueue
    BY <1>1, ConcatEmptySeq
  <1>6. Pending' = rest
    BY <1>3, <1>4, <1>5 DEF Pending
  <1>7. front # <<>> /\ flushed' = flushed \o front
    <2>1. CASE FlushData
      <3>1. StagingBuffer = <<>> /\ InFlush = <<memory[working]>>
        BY <2>1 DEF FlushData, InFlush, StreamInv, IInv, StagedHasTimer
      <3>2. memory[working] \in Chunks
        BY <2>1 DEF FlushData, IInv, TypeOK, WorkerTypeOK, StreamTypeOK, HandsInv, Chunks
      <3>3. front = <<memory[working]>>
        BY <1>1, <3>1, ConcatEmptySeq
      <3>4. flushed' = Append(flushed, memory[working])
        BY <2>1 DEF FlushData
      <3> QED
        BY <1>1, <3>2, <3>3, <3>4, AppendIsConcat
    <2>2. CASE FlushStaged \/ FlushLast
      <3>1. StagingBuffer # <<>> /\ InFlush = <<>> /\ flushed' = flushed \o StagingBuffer
        BY <2>2 DEF FlushStaged, FlushLast, InFlush, StreamInv
      <3>2. front = StagingBuffer
        BY <1>1, <3>1, ConcatEmptySeq
      <3> QED
        BY <3>1, <3>2
    <2> QED
      BY <2>1, <2>2
  <1> HIDE DEF front, rest
  <1> QED
    BY <1>1, <1>2, <1>6, <1>7

(* The other steps leave the pending chunks alone.                          *)
LEMMA OthersPending ==
  ASSUME IInv,
         TakeBuffer \/ ReadError \/ Restitute \/ SendExit \/ ReturnBuffer \/ Tick
           \/ ExitSignal \/ Finish \/ UNCHANGED vars
  PROVE  Pending' = Pending /\ flushed' = flushed
  <1>1. UNCHANGED <<StagingBuffer, flushed, memory>>
    BY DEF TakeBuffer, ReadError, Restitute, SendExit, ReturnBuffer, Tick, ExitSignal, Finish,
       vars, readerVars, dispatcherVars
  <1>2. InHand = InHand' /\ InFlush = InFlush'
    BY <1>1 DEF TakeBuffer, ReadError, Restitute, SendExit, ReturnBuffer, Tick, ExitSignal,
       Finish, vars, readerVars, dispatcherVars, InHand, InFlush
  <1>3. InQueue' = InQueue
    <2>1. CASE SendExit
      <3>1. /\ Len(QueueChannel) \in Nat /\ Len(QueueChannel') = Len(QueueChannel) + 1
            /\ \A i \in 1 .. Len(QueueChannel) : QueueChannel'[i] = QueueChannel[i]
        BY <2>1, AppendFacts DEF SendExit, IInv, TypeOK, ChannelTypeOK
      <3>2. ~ExitQueued /\ ExitQueued'
        BY <2>1 DEF SendExit, ExitQueued, dispatcherVars, IInv, ExitInv
      <3>3. DataInQueue = Len(QueueChannel) /\ DataInQueue' = Len(QueueChannel)
        BY <3>1, <3>2 DEF DataInQueue
      <3> QED
        BY <1>1, <3>1, <3>3 DEF InQueue
    <2>2. CASE ExitSignal
      <3>1. /\ Len(QueueChannel) \in Nat /\ Len(QueueChannel) >= 1
            /\ Len(QueueChannel') = Len(QueueChannel) - 1 /\ QueueChannel[1] = EXIT
        BY <2>2, TailFacts DEF ExitSignal, IInv, TypeOK, ChannelTypeOK
      <3>2. ExitQueued /\ Len(QueueChannel) = 1
        BY <3>1 DEF IInv, ExitInv
      <3>3. ~ExitQueued'
        BY <2>2 DEF ExitSignal, ExitQueued
      <3>4. DataInQueue = 0 /\ DataInQueue' = 0
        BY <3>1, <3>2, <3>3 DEF DataInQueue
      <3> QED
        BY <3>4 DEF InQueue
    <2>3. CASE TakeBuffer \/ ReadError \/ Restitute \/ ReturnBuffer \/ Tick \/ Finish \/ UNCHANGED vars
      <3>1. UNCHANGED QueueChannel /\ (ExitQueued' <=> ExitQueued)
        BY <2>3 DEF TakeBuffer, ReadError, Restitute, ReturnBuffer, Tick, Finish, vars,
           readerVars, dispatcherVars, ExitQueued
      <3> QED
        BY <1>1, <3>1 DEF InQueue, DataInQueue
    <2> QED
      BY <2>1, <2>2, <2>3
  <1> QED
    BY <1>1, <1>2, <1>3 DEF Pending

-----------------------------------------------------------------------------
(* The refinement.                                                         *)

LEMMA StreamInitially == Init => StreamInv /\ Stream!Init
  <1> SUFFICES ASSUME Init PROVE StreamInv /\ Stream!Init
    OBVIOUS
  <1>1. StagingBuffer = <<>> /\ InFlush = <<>> /\ InHand = <<>>
    BY DEF Init, InFlush, InHand
  <1>2. DataInQueue = 0
    BY DEF Init, DataInQueue, ExitQueued
  <1>3. InQueue = <<>>
    BY <1>2 DEF InQueue
  <1>4. <<>> \o <<>> = <<>>
    BY EmptySeq, ConcatEmptySeq
  <1>5. Pending = <<>>
    BY <1>1, <1>3, <1>4 DEF Pending
  <1> QED
    BY <1>5 DEF Init, StreamInv, Stream!Init, StreamEnd

LEMMA StreamStep == IInv /\ StreamInv /\ [Next]_vars => StreamInv' /\ [Stream!Next]_(Stream!streamVars)
  <1> SUFFICES ASSUME IInv, StreamInv, [Next]_vars
               PROVE  StreamInv' /\ [Stream!Next]_(Stream!streamVars)
    OBVIOUS
  <1> USE DEF Stream!Next, Stream!streamVars
  <1>a. Len(flushed) \in Nat /\ Len(Pending) \in Nat
    BY PendingType, LenProperties
  <1>1. CASE ReadChunk
    <2>1. Pending' = Append(Pending, Len(flushed) + Len(Pending) + 1)
      BY <1>1, ReadChunkPending
    <2>2. StreamEnd = "open" /\ StreamEnd' = "open" /\ flushed' = flushed
      BY <1>1 DEF ReadChunk, StreamEnd, dispatcherVars, StreamInv, IInv, ExitInv
    <2>3. Stream!ReadChunk
      BY <2>1, <2>2 DEF Stream!ReadChunk
    <2>4. Len(Pending') = Len(Pending) + 1
      BY <2>1, PendingType
    <2>5. StreamInv'
      BY <1>1, <1>a, <2>2, <2>4 DEF ReadChunk, dispatcherVars, StreamInv
    <2> QED
      BY <2>3, <2>5
  <1>2. CASE SendData \/ DataIdle \/ DataPacing
    <2>1. Pending' = Pending /\ flushed' = flushed
      BY <1>2, SendDataPending, DataIdlePending, DataPacingPending
         DEF SendData, DataIdle, DataPacing, dispatcherVars
    <2>2. StreamEnd' = StreamEnd
      BY <1>2 DEF SendData, DataIdle, DataPacing, dispatcherVars, readerVars, StreamEnd
    <2>3. reads' = reads
      BY <1>2 DEF SendData, DataIdle, DataPacing, readerVars
    <2>4. StreamInv'
      BY <1>2, <2>1, <2>3 DEF SendData, DataIdle, DataPacing, dispatcherVars, StreamInv
    <2> QED
      BY <2>1, <2>2, <2>4
  <1>3. CASE FlushData \/ FlushStaged \/ FlushLast
    <2>1. PICK front \in Seq(Chunks) :
            /\ front # <<>> /\ Pending' \in Seq(Chunks)
            /\ Pending = front \o Pending'
            /\ flushed' = flushed \o front
      BY <1>3, FlushPending
    <2>2. StreamEnd' = StreamEnd /\ reads' = reads
      BY <1>3 DEF FlushData, FlushStaged, FlushLast, readerVars, StreamEnd
    <2>3. /\ Len(front) \in 1 .. Len(Pending)
          /\ SubSeq(Pending, 1, Len(front)) = front
          /\ SubSeq(Pending, Len(front) + 1, Len(Pending)) = Pending'
      BY <2>1, ConcatFront
    <2>4. Stream!Deliver
      BY <2>1, <2>2, <2>3 DEF Stream!Deliver
    <2>5. Len(flushed') + Len(Pending') = Len(flushed) + Len(Pending)
      <3>1. Len(flushed') = Len(flushed) + Len(front)
        BY <2>1, PendingType, ConcatProperties
      <3>2. Len(Pending) = Len(front) + Len(Pending')
        BY <2>1, ConcatProperties
      <3>3. Len(front) \in Nat /\ Len(Pending') \in Nat
        BY <2>1, LenProperties
      <3> QED
        BY <1>a, <3>1, <3>2, <3>3
    <2>6. StreamInv'
      BY <1>3, <2>2, <2>5 DEF FlushData, FlushStaged, FlushLast, readerVars, StreamInv
    <2> QED
      BY <2>4, <2>6
  <1>4. CASE ReadError
    <2>1. Pending' = Pending /\ flushed' = flushed
      BY <1>4, OthersPending
    <2>2. StreamEnd = "open" /\ StreamEnd' = "closed"
      BY <1>4 DEF ReadError, dispatcherVars, StreamEnd, StreamInv, IInv, ExitInv
    <2>3. StreamInv'
      BY <1>4, <2>1 DEF ReadError, dispatcherVars, StreamInv
    <2> QED
      BY <2>1, <2>2, <2>3 DEF Stream!Close
  <1>5. CASE Finish
    <2>1. Pending' = Pending /\ flushed' = flushed
      BY <1>5, OthersPending
    <2>2. reader = "Done" /\ QueueChannel = <<>> /\ StagingBuffer = <<>>
      BY <1>5 DEF Finish, IInv, ExitInv, StreamInv
    <2>3. Pending = <<>>
      <3>1. InFlush = <<>> /\ InHand = <<>>
        BY <1>5, <2>2 DEF Finish, InFlush, InHand
      <3>2. DataInQueue = 0
        BY <1>5, <2>2 DEF Finish, DataInQueue, ExitQueued
      <3>3. InQueue = <<>>
        BY <3>2 DEF InQueue
      <3>4. <<>> \o <<>> = <<>>
        BY EmptySeq, ConcatEmptySeq
      <3> QED
        BY <2>2, <3>1, <3>3, <3>4 DEF Pending
    <2>4. StreamEnd = "closed" /\ StreamEnd' = "announced"
      BY <1>5, <2>2 DEF Finish, StreamEnd, StreamInv
    <2>5. StreamInv'
      BY <1>5, <2>1, <2>2 DEF Finish, readerVars, StreamInv
    <2> QED
      BY <2>1, <2>3, <2>4, <2>5 DEF Stream!Announce
  <1>6. CASE TakeBuffer \/ Restitute \/ SendExit \/ ReturnBuffer \/ Tick \/ ExitSignal \/ UNCHANGED vars
    <2>1. Pending' = Pending /\ flushed' = flushed
      BY <1>6, OthersPending
    <2>2. StreamEnd' = StreamEnd /\ reads' = reads
      BY <1>6 DEF TakeBuffer, Restitute, SendExit, ReturnBuffer, Tick, ExitSignal, vars,
         readerVars, dispatcherVars, StreamEnd
    <2>3. StreamInv'
      BY <1>6, <2>1, <2>2 DEF TakeBuffer, Restitute, SendExit, ReturnBuffer, Tick, ExitSignal,
         vars, readerVars, dispatcherVars, StreamInv
    <2> QED
      BY <2>1, <2>2, <2>3
  <1> QED
    BY <1>1, <1>2, <1>3, <1>4, <1>5, <1>6 DEF Next, Reader, Dispatcher

(* The data plane implements the stream: no chunk is lost, doubled or       *)
(* reordered between read(2) and the proxy, and the reader's end is         *)
(* reported after the last of them.                                         *)
THEOREM Refinement == Spec => ImplementsStream
  <1>1. Init => Stream!Init
    BY StreamInitially
  <1>2. Spec => [](IInv /\ StreamInv)
    <2>1. Init => IInv /\ StreamInv
      BY Initially, StreamInitially
    <2>2. (IInv /\ StreamInv) /\ [Next]_vars => (IInv /\ StreamInv)'
      BY NextPreserves, StreamStep
    <2> QED
      BY <2>1, <2>2, PTL DEF Spec
  <1>3. IInv /\ StreamInv /\ [Next]_vars => [Stream!Next]_(Stream!streamVars)
    BY StreamStep
  <1> QED
    BY <1>1, <1>2, <1>3, PTL DEF Spec, ImplementsStream, Stream!Spec
=============================================================================

------------------------- MODULE SpawnRequest_proofs -------------------------
(***************************************************************************)
(* A request, its launch and the session it hands over to, for every set   *)
(* of requests, every width of a byte and every size of the session:       *)
(*   - what the launch leaves open;                                        *)
(*   - that PtyTeardown's invariant and its refinement hold of a session   *)
(*     that begins in the middle, with a process that may have ended       *)
(*     before anyone watched it;                                           *)
(*   - that a payload becomes the message its client meant or none;        *)
(*   - that a client can read the frames that tell of a PTY's end.         *)
(***************************************************************************)
EXTENDS SpawnRequest, PtyTeardown_proofs, PtyMessages_proofs

(* Before anything is requested, nothing is open.                           *)
LEMMA LaunchInvariantInit == RequestInit => LaunchInvariant
  BY DEF RequestInit, LaunchInit, LaunchInvariant, FilesOf, ChildOf, ReaperOf, Living,
         HelperSteps, Held

(* Steps of the client, of the decoder and of the session leave it alone.   *)
LEMMA LaunchInvariantStutter == LaunchInvariant /\ UNCHANGED launchVars => LaunchInvariant'
  BY DEF launchVars, LaunchInvariant, FilesOf, ChildOf, ReaperOf, Held

(* The steps of Spawn_PtyProxy, one by one.                                 *)
LEMMA LaunchInvariantLaunch == LaunchInvariant /\ Launch => LaunchInvariant'
<1> SUFFICES ASSUME LaunchInvariant, Launch PROVE LaunchInvariant'
  OBVIOUS
<1> USE DEF LaunchInvariant, FilesOf, ChildOf, ReaperOf, Living, HelperSteps, Held, Continue
<1>1. CASE Prepare__Command  BY <1>1 DEF Prepare__Command
<1>2. CASE OpenMaster        BY <1>2 DEF OpenMaster
<1>3. CASE ConfigureMaster   BY <1>3 DEF ConfigureMaster, abortOpen
<1>4. CASE OpenSlave         BY <1>4 DEF OpenSlave, abortOpen
<1>5. CASE OpenReportPipe    BY <1>5 DEF OpenReportPipe
<1>6. CASE ForkExec          BY <1>6 DEF ForkExec, Forked
<1>7. CASE await__Report     BY <1>7 DEF await__Report
<1>8. CASE AbandonErrored    BY <1>8 DEF AbandonErrored
<1>9. CASE AbandonUnpollable BY <1>9 DEF AbandonUnpollable
<1>10. CASE Watchable        BY <1>10 DEF Watchable
<1>11. CASE Unwind           BY <1>11 DEF Unwind
<1>12. CASE Handover         BY <1>12 DEF Handover
<1> QED
  BY <1>1, <1>2, <1>3, <1>4, <1>5, <1>6, <1>7, <1>8, <1>9, <1>10, <1>11, <1>12 DEF Launch

(* The child acts only while the launch awaits it or has given it up.       *)
LEMMA LaunchInvariantChild == LaunchInvariant /\ (Child \/ reapAbandoned) => LaunchInvariant'
<1> SUFFICES ASSUME LaunchInvariant, Child \/ reapAbandoned PROVE LaunchInvariant'
  OBVIOUS
<1> USE DEF LaunchInvariant, FilesOf, ChildOf, ReaperOf, Living, HelperSteps, Held, ChildStep
<1>1. CASE HelperChdir   BY <1>1 DEF HelperChdir
<1>2. CASE HelperExecve  BY <1>2 DEF HelperExecve
<1>3. CASE ChildEnds     BY <1>3 DEF ChildEnds
<1>4. CASE ChildReleased BY <1>4 DEF ChildReleased
<1>5. CASE reapAbandoned BY <1>5 DEF reapAbandoned
<1> QED
  BY <1>1, <1>2, <1>3, <1>4, <1>5 DEF Child

(* Every step of the specification preserves it.                           *)
LEMMA LaunchInvariantStep ==
  LaunchInvariant /\ [RequestNext]_allVars => LaunchInvariant'
<1> SUFFICES ASSUME LaunchInvariant, [RequestNext]_allVars PROVE LaunchInvariant'
  OBVIOUS
<1>1. CASE HandlePayload
  BY <1>1, LaunchInvariantStutter DEF HandlePayload, launchVars
<1>2. CASE ExecuteSpawnPty
  BY <1>2 DEF ExecuteSpawnPty, BackgroundSpawn, LaunchInvariant, FilesOf, ChildOf, ReaperOf, Held
<1>3. CASE Launch        BY <1>3, LaunchInvariantLaunch
<1>4. CASE Child \/ reapAbandoned BY <1>4, LaunchInvariantChild
<1>5. CASE Session_PtyProxy
  BY <1>5, LaunchInvariantStutter DEF Session_PtyProxy
<1>6. CASE UNCHANGED allVars
  BY <1>6, LaunchInvariantStutter DEF allVars, launchVars
<1> QED
  BY <1>1, <1>2, <1>3, <1>4, <1>5, <1>6 DEF RequestNext

(* The descriptors and the child are, at every point of the launch, those   *)
(* that Spawn_PtyProxy's straight line of calls and returns leaves there.   *)
THEOREM LaunchInvariantHolds == RequestSpec => []LaunchInvariant
  BY LaunchInvariantInit, LaunchInvariantStep, PTL DEF RequestSpec

(* A failed launch leaves no descriptor open, no zombie without a reaper    *)
(* and no shell that nobody watches; a successful one leaves its session    *)
(* master and pidfd, and no reaper beside it.                              *)
THEOREM FailedLaunchCleans == RequestSpec => []FailedLaunchLeavesNothing
<1>1. LaunchInvariant => FailedLaunchLeavesNothing
  BY DEF LaunchInvariant, FilesOf, ChildOf, ReaperOf, Held, Living, HelperSteps,
         FailedLaunchLeavesNothing
<1> QED
  BY <1>1, LaunchInvariantHolds, PTL

-----------------------------------------------------------------------------
(* The session after the handover.                                         *)

(* Nothing of the session moves before the handover, and only a foreign    *)
(* tracer withholds the zombie of the child.                               *)
UnbornInv ==
  /\ launch # "Spawned" => Init
  /\ child = "withheld" => "FOREIGN" \in Tracers

(* The session as it is taken over: just made, beside a process that runs, *)
(* is a zombie or has its zombie withheld.                                 *)
LEMMA HandoverInv == UnbornInv /\ Handover => IInv'
<1> SUFFICES ASSUME UnbornInv, Handover PROVE IInv'
  OBVIOUS
<1>1. Init /\ ProcessInit
  BY DEF UnbornInv, Handover, Init
<1>2. \/ kernel' = "running" /\ termination' = NoTermination
      \/ kernel' \in {"zombie", "withheld"} /\ termination' \in Terminations
  BY <1>1 DEF Handover, ProcessInit
<1>3. tracer' \in Tracers
  BY <1>1, TracersAssumption DEF Handover, UnbornInv, ProcessInit
<1>4. /\ trap' = FALSE /\ State_state' = "Alive" /\ worker' = "Watch"
      /\ peeked' = NoTermination /\ pidfd' = "open" /\ Channel_FinalState' = "open"
      /\ sent' = [s \in Signals |-> 0] /\ panicked' = FALSE
  BY <1>1 DEF Handover, ProcessInit, Init
<1>5. /\ queue' = <<>> /\ listening' = TRUE /\ armed' = {}
      /\ Status_ReaderSide' = "PENDING" /\ Status_ProcessSide' = "UNESCALATED"
      /\ Status_Master' = "OPEN" /\ Status_Cancellation' = "NOT_CANCELED"
      /\ ExitSignal_PtyReader' = NONE /\ Report_Observation_latest' = NONE
      /\ teardown' = "Select" /\ exitOrders' = <<>>
      /\ coordinator' = "Spawning" /\ terminateRequested' = FALSE
      /\ reader' = "Unstarted" /\ readError' = NONE
  BY <1>1 DEF Handover, Init, teardownVars, environmentVars
<1> HIDE DEF Handover, UnbornInv
<1>6. TypeOK'
  <2>1. ProcessTypeOK'
    BY <1>2, <1>3, <1>4 DEF ProcessTypeOK, KernelStates, State_PtyProcess, WorkerStates
  <2>2. ActorTypeOK'
    BY <1>5, QueueAssumption DEF ActorTypeOK
  <2>3. EnvironmentTypeOK'
    BY <1>5 DEF EnvironmentTypeOK
  <2> QED
    BY <2>1, <2>2, <2>3 DEF TypeOK
<1>7. WorkerInv'
  BY <1>2, <1>4 DEF WorkerInv, FinalStates
<1>8. QueueInv'
  BY <1>5 DEF QueueInv, SpawningInv
<1>9. ReaderInv' /\ EscalationInv' /\ ExitInv'
  BY <1>4, <1>5 DEF ReaderInv, EscalationInv, ExitInv
<1>10. NoPanic' /\ NoTerminateLost' /\ NoWaitWithoutDeadline' /\ MasterOutlivesSpawn'
  BY <1>4, <1>5 DEF NoPanic, NoTerminateLost, NoWaitWithoutDeadline, MasterOutlivesSpawn
<1>11. ExitAfterFlush' /\ OutcomeTruthful' /\ EscalatesOnce'
  BY <1>4, <1>5 DEF ExitAfterFlush, OutcomeTruthful, EscalatesOnce, Signals
<1> QED
  BY <1>6, <1>7, <1>8, <1>9, <1>10, <1>11 DEF IInv

(* Every other step of the launch, of the child and of the request leaves  *)
(* the session's variables alone; a launch that has spawned is over.       *)
LEMMA OutsideSession ==
  ASSUME [RequestNext]_allVars
  PROVE  \/ UNCHANGED vars /\ (launch' = "Spawned" => launch = "Spawned")
         \/ Handover
         \/ Session_PtyProxy
<1>1. CASE HandlePayload
  BY <1>1 DEF HandlePayload, launchVars
<1>2. CASE ExecuteSpawnPty
  BY <1>2 DEF ExecuteSpawnPty, BackgroundSpawn
<1>3. CASE Launch
  BY <1>3 DEF Launch, Continue, Prepare__Command, OpenMaster, ConfigureMaster, abortOpen, OpenSlave,
         OpenReportPipe, ForkExec, Forked, await__Report, AbandonErrored, AbandonUnpollable,
         Watchable, Unwind
<1>4. CASE Child \/ reapAbandoned
  BY <1>4 DEF Child, ChildStep, HelperChdir, HelperExecve, ChildEnds, ChildReleased, reapAbandoned
<1>5. CASE UNCHANGED allVars
  BY <1>5 DEF allVars, launchVars
<1> QED
  BY <1>1, <1>2, <1>3, <1>4, <1>5 DEF RequestNext

(* No step but Handover begins the session.                                *)
LEMMA UnbornStep ==
  UnbornInv /\ [RequestNext]_allVars => UnbornInv'
<1> SUFFICES ASSUME UnbornInv, [RequestNext]_allVars PROVE UnbornInv'
  OBVIOUS
<1>1. launch' # "Spawned" => Init'
  <2>1. CASE UNCHANGED vars /\ (launch' = "Spawned" => launch = "Spawned")
    <3>1. Init /\ UNCHANGED vars => Init'
      BY DEF Init, ProcessInit, vars, processVars, teardownVars, environmentVars
    <3>2. launch = "Spawned" => launch' = "Spawned"
      BY DEF RequestNext, allVars, launchVars, HandlePayload, ExecuteSpawnPty, BackgroundSpawn,
             Launch, Continue, Prepare__Command, OpenMaster, ConfigureMaster, abortOpen, OpenSlave,
             OpenReportPipe, ForkExec, Forked, await__Report, AbandonErrored, AbandonUnpollable,
             Watchable, Unwind, Handover, Child, ChildStep, HelperChdir, HelperExecve, ChildEnds,
             ChildReleased, reapAbandoned, Session_PtyProxy
    <3> QED
      BY <2>1, <3>1, <3>2 DEF UnbornInv
  <2>2. CASE Handover
    BY <2>2 DEF Handover
  <2>3. CASE Session_PtyProxy
    BY <2>3 DEF Session_PtyProxy, launchVars
  <2> QED
    BY <2>1, <2>2, <2>3, OutsideSession
<1>2. child' = "withheld" => child = "withheld" \/ "FOREIGN" \in Tracers
  BY DEF RequestNext, allVars, launchVars, HandlePayload, ExecuteSpawnPty, BackgroundSpawn,
         Launch, Continue, Prepare__Command, OpenMaster, ConfigureMaster, abortOpen, OpenSlave,
         OpenReportPipe, ForkExec, Forked, await__Report, AbandonErrored, AbandonUnpollable,
         Watchable, Unwind, Handover, Child, ChildStep, HelperChdir, HelperExecve, ChildEnds,
         ChildReleased, reapAbandoned, Session_PtyProxy
<1> QED
  BY <1>1, <1>2 DEF UnbornInv

(* The handover establishes the joint invariant, the session preserves it. *)
LEMMA SessionInvStep ==
  UnbornInv /\ IInv /\ [RequestNext]_allVars => IInv'
<1> SUFFICES ASSUME UnbornInv, IInv, [RequestNext]_allVars PROVE IInv'
  OBVIOUS
<1>1. CASE UNCHANGED vars
  BY <1>1, NextInv
<1>2. CASE Handover
  BY <1>2, HandoverInv
<1>3. CASE Session_PtyProxy
  BY <1>3, NextInv DEF Session_PtyProxy
<1> QED
  BY <1>1, <1>2, <1>3, OutsideSession

(* PtyTeardown's joint invariant holds of a session that a launch has      *)
(* handed over, whatever had become of its process by then.                *)
THEOREM SessionInvariant == RequestSpec => [](UnbornInv /\ IInv)
<1>1. RequestInit => UnbornInv /\ IInv
  BY InitInv DEF RequestInit, LaunchInit, UnbornInv
<1> QED
  BY <1>1, UnbornStep, SessionInvStep, PTL DEF RequestSpec

(* The outcome that Settle emits is what happened to the process, also to  *)
(* one that ended between its fork and the handover.                       *)
THEOREM LaunchedOutcomeTrue == RequestSpec => []OutcomeTruthful
<1>1. IInv => OutcomeTruthful
  BY DEF IInv
<1> QED
  BY <1>1, SessionInvariant, PTL

(* No "invalid path" panic of _PtyProcess_ or _PtyTeardown_ is reachable    *)
(* from a handover either.                                                 *)
THEOREM LaunchedPanicFree == RequestSpec => []NoPanic
<1>1. IInv => NoPanic
  BY DEF IInv
<1> QED
  BY <1>1, SessionInvariant, PTL

(* A session that Handover begins is streamed or canceled, its master      *)
(* closes once, and it ends with one exit order after its last output or   *)
(* with none: launch, child and request are stutters of PtySession.        *)
THEOREM LaunchedRefinement == RequestSpec => ImplementsSession
<1>1. RequestInit => Session!Init
  BY DEF RequestInit, Init, Session!Init, SessionPhase
<1>2. IInv /\ [RequestNext]_allVars => [Session!Next]_(Session!sessionVars)
  <2> SUFFICES ASSUME IInv, [RequestNext]_allVars PROVE [Session!Next]_(Session!sessionVars)
    OBVIOUS
  <2>1. CASE UNCHANGED vars
    BY <2>1, SessionStep
  <2>2. CASE Handover
    BY <2>2, SessionStutters DEF Handover, teardownVars
  <2>3. CASE Session_PtyProxy
    BY <2>3, SessionStep DEF Session_PtyProxy
  <2> QED
    BY <2>1, <2>2, <2>3, OutsideSession
<1> QED
  BY <1>1, <1>2, SessionInvariant, PTL DEF RequestSpec, ImplementsSession, Session!Spec

-----------------------------------------------------------------------------
(* What the client encodes is read as it was.                              *)

(* A list is short enough that its count says how long it is.              *)
LEMMA ListFacts ==
  ASSUME NEW X, NEW list \in Lists(X)
  PROVE  /\ Len(list) \in Nat /\ Len(list) < UINT16 /\ Len(list) % UINT16 = Len(list)
         /\ list \in [1 .. Len(list) -> X] /\ DOMAIN list = 1 .. Len(list)
<1>1. list \in Seq(X) /\ Len(list) \in Nat /\ Len(list) < UINT16
  BY DEF Lists
<1>2. Len(list) % UINT16 = Len(list)
  BY <1>1, Widths
<1> QED
  BY <1>1, <1>2

(* A pair is its two components.                                           *)
LEMMA PairFacts ==
  ASSUME NEW A, NEW B, NEW p \in A \X B
  PROVE  p[1] \in A /\ p[2] \in B /\ p = <<p[1], p[2]>>
OBVIOUS

(* DecodeParameter__Slice16_String16 reads the texts that were written.    *)
LEMMA TextsRead ==
  ASSUME NEW d, NEW texts \in Lists(Texts)
  PROVE  Reads(d, DecodeParameter__Slice16_String16(d), EncodeTexts(texts), texts, TRUE)
<1> DEFINE n     == Len(texts)
           bytes == [i \in 1 .. n |-> EncodeText(texts[i])]
           valid == [i \in 1 .. n |-> TRUE]
           r     == DecodeParameter__Slice16_String16(d)
<1>1. /\ n \in Nat /\ n < UINT16 /\ n % UINT16 = n
      /\ texts \in [1 .. n -> Texts] /\ DOMAIN texts = 1 .. n
  BY ListFacts
<1>2. EncodeTexts(texts) = EncodeParameter_Uint16(n) \o FlattenSeq(bytes)
  BY <1>1 DEF EncodeTexts, EncodeParameter__Slice16
<1> HIDE DEF n, r
<1>3. ASSUME NEW e, NEW i \in 1 .. n
      PROVE  Reads(e, DecodeParameter_String16(e), EncodeText(texts[i]), texts[i], TRUE)
  <2>1. texts[i] \in Seq(Bytes) /\ Len(texts[i]) < UINT16
    BY <1>1 DEF Texts
  <2> QED
    BY <2>1, String16Reads DEF EncodeText
<1>4. \A i \in 1 .. n : bytes[i] = EncodeText(texts[i]) /\ valid[i] = TRUE
  OBVIOUS
<1>5. bytes \in [1 .. n -> Seq(Bytes)] /\ valid \in [1 .. n -> BOOLEAN]
  BY <1>3 DEF Reads
<1> HIDE DEF bytes, valid
<1>6. TRUE <=> All(valid, n)
  BY <1>4 DEF All
<1>7. \A e : \A i \in 1 .. n : Good(e) /\ Carries(e, bytes[i]) =>
        Decoded(e, DecodeParameter_String16(e), bytes[i], texts[i], valid[i])
  BY <1>3, <1>4 DEF Reads
<1>8. SliceOf(DecodeParameter_Uint16(d), r, bytes, texts, valid, n)
  BY <1>1, <1>7, TextSlice DEF r
<1>9. Reads(d, r, EncodeParameter_Uint16(n) \o FlattenSeq(bytes), texts, TRUE)
  BY <1>1, <1>5, <1>6, <1>8, SliceReads
<1> QED
  BY <1>2, <1>9 DEF r

(* DecodeParameter__Slice16_Uint32 reads the ids that were written.        *)
LEMMA IdsRead ==
  ASSUME NEW d, NEW ids \in Lists(Uint32s)
  PROVE  Reads(d, DecodeParameter__Slice16_Uint32(d), EncodeIds(ids), ids, TRUE)
<1> DEFINE n     == Len(ids)
           bytes == [i \in 1 .. n |-> EncodeParameter_Uint32(ids[i])]
           valid == [i \in 1 .. n |-> TRUE]
           r     == DecodeParameter__Slice16_Uint32(d)
<1>1. /\ n \in Nat /\ n < UINT16 /\ n % UINT16 = n
      /\ ids \in [1 .. n -> Uint32s] /\ DOMAIN ids = 1 .. n
  BY ListFacts
<1>2. EncodeIds(ids) = EncodeParameter_Uint16(n) \o FlattenSeq(bytes)
  BY <1>1 DEF EncodeIds, EncodeParameter__Slice16
<1> HIDE DEF n, r
<1>3. ASSUME NEW e, NEW i \in 1 .. n
      PROVE  Reads(e, DecodeParameter_Uint32(e), EncodeParameter_Uint32(ids[i]), ids[i], TRUE)
  <2>1. ids[i] \in 0 .. UINT32 - 1
    BY <1>1 DEF Uint32s
  <2> QED
    BY <2>1, Uint32Reads
<1>4. \A i \in 1 .. n : bytes[i] = EncodeParameter_Uint32(ids[i]) /\ valid[i] = TRUE
  OBVIOUS
<1>5. bytes \in [1 .. n -> Seq(Bytes)] /\ valid \in [1 .. n -> BOOLEAN]
  BY <1>3 DEF Reads
<1> HIDE DEF bytes, valid
<1>6. TRUE <=> All(valid, n)
  BY <1>4 DEF All
<1>7. \A e : \A i \in 1 .. n : Good(e) /\ Carries(e, bytes[i]) =>
        Decoded(e, DecodeParameter_Uint32(e), bytes[i], ids[i], valid[i])
  BY <1>3, <1>4 DEF Reads
<1>8. SliceOf(DecodeParameter_Uint16(d), r, bytes, ids, valid, n)
  BY <1>1, <1>7, Uint32Slice DEF r
<1>9. Reads(d, r, EncodeParameter_Uint16(n) \o FlattenSeq(bytes), ids, TRUE)
  BY <1>1, <1>5, <1>6, <1>8, SliceReads
<1> QED
  BY <1>2, <1>9 DEF r

(* Options are read if the server knows the codes of all.                   *)
KnownOptions(options) == \A i \in DOMAIN options : options[i][1] \in OptionCodes

(* The options are read as they were written, if the server knows them.    *)
LEMMA OptionsRead ==
  ASSUME NEW d, NEW options \in Lists(Uint16s \X Uint32s)
  PROVE  Reads(d, OptionBatch_PtyProxy(d), EncodeOptions(options), options, KnownOptions(options))
<1> DEFINE n     == Len(options)
           bytes == [i \in 1 .. n |-> EncodeOption(options[i])]
           valid == [i \in 1 .. n |-> options[i][1] \in OptionCodes]
           known == KnownOptions(options)
           r     == OptionBatch_PtyProxy(d)
<1>1. /\ n \in Nat /\ n < UINT16 /\ n % UINT16 = n
      /\ options \in [1 .. n -> Uint16s \X Uint32s] /\ DOMAIN options = 1 .. n
  BY ListFacts
<1>2. EncodeOptions(options) = EncodeParameter_Uint16(n) \o FlattenSeq(bytes)
  BY <1>1 DEF EncodeOptions, EncodeParameter__Slice16
<1>3. known \in BOOLEAN
  BY DEF KnownOptions
<1> HIDE DEF n, r
<1>4. ASSUME NEW e, NEW i \in 1 .. n
      PROVE  Reads(e, Option_PtyProxy(e), EncodeOption(options[i]), options[i],
                   options[i][1] \in OptionCodes)
  <2> DEFINE code  == options[i][1]
             value == options[i][2]
  <2>1. /\ code \in 0 .. UINT16 - 1 /\ value \in 0 .. UINT32 - 1
        /\ options[i] = <<code, value>>
    <3>1. options[i] \in Uint16s \X Uint32s
      BY <1>1
    <3> QED
      BY <3>1, PairFacts DEF Uint16s, Uint32s
  <2>2. EncodeOption(options[i]) = EncodeParameter_Uint16(code) \o EncodeParameter_Uint32(value)
    BY DEF EncodeOption
  <2> HIDE DEF code, value
  <2>3. Reads(e, Option_PtyProxy(e), EncodeParameter_Uint16(code) \o EncodeParameter_Uint32(value),
              <<code, value>>, code \in OptionCodes)
    BY <2>1, OptionDecodes DEF Reads
  <2>4. Reads(e, Option_PtyProxy(e), EncodeOption(options[i]), options[i], code \in OptionCodes)
    BY <2>1, <2>2, <2>3
  <2> QED
    BY <2>4 DEF code
<1>5. \A i \in 1 .. n : bytes[i] = EncodeOption(options[i])
                        /\ valid[i] = (options[i][1] \in OptionCodes)
  OBVIOUS
<1>6. bytes \in [1 .. n -> Seq(Bytes)] /\ valid \in [1 .. n -> BOOLEAN]
  <2>1. \A i \in 1 .. n : EncodeOption(options[i]) \in Seq(Bytes)
    BY <1>4 DEF Reads
  <2> QED
    BY <2>1
<1> HIDE DEF bytes, valid
<1>7. known <=> All(valid, n)
  BY <1>1, <1>5 DEF All, KnownOptions
<1>8. \A e : \A i \in 1 .. n : Good(e) /\ Carries(e, bytes[i]) =>
        Decoded(e, Option_PtyProxy(e), bytes[i], options[i], valid[i])
  BY <1>4, <1>5 DEF Reads
<1>9. SliceOf(DecodeParameter_Uint16(d), r, bytes, options, valid, n)
  BY <1>1, <1>8, OptionSlice DEF r
<1> HIDE DEF known
<1>10. Reads(d, r, EncodeParameter_Uint16(n) \o FlattenSeq(bytes), options, known)
  BY <1>1, <1>3, <1>6, <1>7, <1>9, SliceReads
<1> QED
  BY <1>2, <1>10 DEF r, known

(* The layout the client meant, from the list it sent.                      *)
LEMMA LastIsLayout ==
  ASSUME NEW entries, NEW n \in Nat, DOMAIN entries = 1 .. n
  PROVE  IsLayout(LastOfEach(entries), entries, n)
<1> DEFINE last == LastOfEach(entries)
           IsLast(key, i) == /\ entries[i].key = key
                             /\ \A j \in 1 .. n : entries[j].key = key => j <= i
<1>1. last = [key \in Keys(entries, n) |-> entries[CHOOSE i \in 1 .. n : IsLast(key, i)].value]
  BY DEF LastOfEach, Keys
<1>2. ASSUME NEW key \in Keys(entries, n) PROVE \E i \in 1 .. n : IsLast(key, i)
  <2> DEFINE T == {k \in 0 .. n : n - k \in 1 .. n /\ entries[n - k].key = key}
  <2>1. T \in SUBSET Nat /\ T # {}
    <3>1. PICK i \in 1 .. n : entries[i].key = key
      BY DEF Keys
    <3>2. n - i \in 0 .. n /\ n - (n - i) = i
      OBVIOUS
    <3>3. n - i \in T
      BY <3>1, <3>2
    <3>4. T \in SUBSET Nat
      OBVIOUS
    <3> HIDE DEF T
    <3> QED
      BY <3>3, <3>4
  <2>2. PICK k \in T : \A l \in T : ~(l < k)
    <3> HIDE DEF T
    <3> QED
      BY <2>1, Putting!Least
  <2>3. n - k \in 1 .. n /\ entries[n - k].key = key
    OBVIOUS
  <2>4. ASSUME NEW j \in 1 .. n, entries[j].key = key PROVE j <= n - k
    <3>1. n - j \in 0 .. n /\ n - (n - j) = j
      OBVIOUS
    <3>2. n - j \in T
      BY <2>4, <3>1
    <3>3. ~(n - j < k)
      BY <2>2, <3>2
    <3> QED
      BY <2>1, <3>1, <3>3
  <2> QED
    BY <2>3, <2>4
<1> HIDE DEF last
<1>3. last = [key \in Keys(entries, n) |-> last[key]]
  BY <1>1
<1>4. ASSUME NEW key \in Keys(entries, n)
      PROVE  \E i \in 1 .. n : /\ entries[i].key = key /\ last[key] = entries[i].value
                               /\ \A j \in 1 .. n : entries[j].key = key => j <= i
  <2> DEFINE i == CHOOSE i \in 1 .. n : IsLast(key, i)
  <2>1. i \in 1 .. n /\ IsLast(key, i)
    BY <1>2
  <2>2. last[key] = entries[i].value
    BY <1>1
  <2> HIDE DEF i
  <2> QED
    BY <2>1, <2>2
<1> HIDE DEF IsLast
<1>5. IsLayout(last, entries, n)
  BY <1>3, <1>4 DEF IsLayout
<1> QED
  BY <1>5 DEF last

(* A layout is read from the list of its entries; of each the last counts. *)
LEMMA LayoutReads ==
  ASSUME NEW d, NEW entries \in Layouts
  PROVE  Reads(d, OrderBatch_LayoutUpdate(d), EncodeLayout(entries), LastOfEach(entries), TRUE)
<1> DEFINE n     == Len(entries)
           bytes == [i \in 1 .. n |-> EncodeEntry(entries[i])]
           valid == [i \in 1 .. n |-> TRUE]
           r     == DecodeParameter__Slice16_LayoutEntry(d)
           Entries == [key: Uint32s, value: Uint16s \X Uint16s]
<1>1. /\ n \in Nat /\ n < UINT16 /\ n % UINT16 = n
      /\ entries \in [1 .. n -> Entries] /\ DOMAIN entries = 1 .. n
  BY ListFacts DEF Layouts
<1>2. EncodeLayout(entries) = EncodeParameter_Uint16(n) \o FlattenSeq(bytes)
  BY <1>1 DEF EncodeLayout, EncodeParameter__Slice16
<1> HIDE DEF n, r
<1>3. ASSUME NEW e, NEW i \in 1 .. n
      PROVE  Reads(e, LayoutEntry(e), EncodeEntry(entries[i]), entries[i], TRUE)
  <2> DEFINE id      == entries[i].key
             columns == entries[i].value[1]
             rows    == entries[i].value[2]
  <2>1. /\ id \in 0 .. UINT32 - 1 /\ columns \in 0 .. UINT16 - 1 /\ rows \in 0 .. UINT16 - 1
        /\ entries[i] = [key |-> id, value |-> <<columns, rows>>]
    <3>1. entries[i] \in Entries
      BY <1>1
    <3>2. /\ id \in Uint32s /\ entries[i].value \in Uint16s \X Uint16s
          /\ entries[i] = [key |-> id, value |-> entries[i].value]
      BY <3>1
    <3>3. /\ columns \in Uint16s /\ rows \in Uint16s
          /\ entries[i].value = <<columns, rows>>
      BY <3>2, PairFacts
    <3> HIDE DEF columns, rows
    <3> QED
      BY <3>2, <3>3 DEF Uint16s, Uint32s
  <2> DEFINE b == EncodeParameter_Uint32(id) \o EncodeParameter_Uint16(columns)
                    \o EncodeParameter_Uint16(rows)
             x == [key |-> id, value |-> <<columns, rows>>]
  <2>2. EncodeEntry(entries[i]) = b
    BY DEF EncodeEntry
  <2> HIDE DEF id, columns, rows
  <2>3. Reads(e, LayoutEntry(e), b, x, TRUE)
    BY <2>1, EntryDecodes DEF Reads
  <2> HIDE DEF b
  <2> QED
    BY <2>1, <2>2, <2>3
<1>4. \A i \in 1 .. n : bytes[i] = EncodeEntry(entries[i]) /\ valid[i] = TRUE
  OBVIOUS
<1>5. bytes \in [1 .. n -> Seq(Bytes)] /\ valid \in [1 .. n -> BOOLEAN]
  BY <1>3 DEF Reads
<1> HIDE DEF bytes, valid, Entries
<1>6. TRUE <=> All(valid, n)
  BY <1>4 DEF All
<1>7. \A e : \A i \in 1 .. n : Good(e) /\ Carries(e, bytes[i]) =>
        Decoded(e, LayoutEntry(e), bytes[i], entries[i], valid[i])
  BY <1>3, <1>4 DEF Reads
<1>8. SliceOf(DecodeParameter_Uint16(d), r, bytes, entries, valid, n)
  BY <1>1, <1>7, EntrySlice DEF r
<1> DEFINE s == EncodeParameter_Uint16(n) \o FlattenSeq(bytes)
<1>9. Reads(d, r, s, entries, TRUE)
  BY <1>1, <1>5, <1>6, <1>8, SliceReads
<1> HIDE DEF s
<1>10. IsLayout(LastOfEach(entries), entries, n)
  BY <1>1, LastIsLayout
<1>11. Decoded(d, r, s, entries, TRUE) =>
         Decoded(d, OrderBatch_LayoutUpdate(d), s, LastOfEach(entries), TRUE)
  BY <1>1, <1>10, LayoutDecodes DEF r
<1>12. r.Error => OrderBatch_LayoutUpdate(d).Error
  BY LayoutErrorStays DEF r
<1>13. Reads(d, OrderBatch_LayoutUpdate(d), s, LastOfEach(entries), TRUE)
  BY <1>9, <1>11, <1>12 DEF Reads
<1> QED
  BY <1>2, <1>13 DEF s

-----------------------------------------------------------------------------
(* Payloads.                                                               *)

(* The payload P holds the code and, from the decoder's cursor on, the body *)
(* or as much of it as there is room for.                                  *)
Arrives(P, code, body) ==
  /\ P \in Seq(Bytes) /\ Len(P) >= 2
  /\ FromUint16(SubSeq(P, 1, 2)) = code
  /\ Good(Make__BinaryDecoder(P)) /\ Carries(Make__BinaryDecoder(P), body)
  /\ P = EncodeParameter_Uint16(code) \o body <=> Len(P) = 2 + Len(body)

Altered(whole) == {whole, Append(whole, 0)} \cup {SubSeq(whole, 1, n) : n \in 0 .. Len(whole) - 1}

(* What has been cut or lengthened agrees with the whole as far as both go.*)
LEMMA AlteredAgrees ==
  ASSUME NEW W \in Seq(Bytes), NEW P \in Altered(W)
  PROVE  /\ P \in Seq(Bytes)
         /\ \A i \in 1 .. Len(W) : i <= Len(P) => P[i] = W[i]
         /\ P = W <=> Len(P) = Len(W)
<1>1. CASE P = W
  BY <1>1
<1>2. CASE P = Append(W, 0)
  <2>1. 0 \in Bytes
    BY Widths DEF Bytes
  <2>2. /\ Append(W, 0) \in Seq(Bytes) /\ Len(Append(W, 0)) = Len(W) + 1
        /\ \A i \in 1 .. Len(W) + 1 : Append(W, 0)[i] = IF i = Len(W) + 1 THEN 0 ELSE W[i]
    BY <2>1, AppendProperties
  <2>3. Len(W) \in Nat
    OBVIOUS
  <2> QED
    BY <1>2, <2>2, <2>3
<1>3. ASSUME NEW n \in 0 .. Len(W) - 1, P = SubSeq(W, 1, n)
      PROVE  /\ P \in Seq(Bytes)
             /\ \A i \in 1 .. Len(W) : i <= Len(P) => P[i] = W[i]
             /\ P = W <=> Len(P) = Len(W)
  <2>1. Len(W) \in Nat /\ \A i \in 1 .. n : W[i] \in Bytes
    BY ElementOfSeq
  <2>2. /\ P \in Seq(Bytes) /\ Len(P) = IF 1 <= n THEN n - 1 + 1 ELSE 0
        /\ \A i \in 1 .. n - 1 + 1 : P[i] = W[1 + i - 1]
    BY <1>3, <2>1, SubSeqProperties
  <2>3. Len(P) = n /\ \A i \in 1 .. n : P[i] = W[i]
    BY <2>2
  <2> QED
    BY <2>1, <2>2, <2>3
<1> QED
  BY <1>1, <1>2, <1>3 DEF Altered

(* A payload with room for its code arrives with that code.                *)
LEMMA PayloadArrives ==
  ASSUME NEW code \in Uint16s, NEW body \in Seq(Bytes),
         NEW P \in Altered(EncodeParameter_Uint16(code) \o body)
  PROVE  /\ Len(P) \in Nat
         /\ Len(P) < 2 => P # EncodeParameter_Uint16(code) \o body
         /\ Len(P) >= 2 => Arrives(P, code, body)
<1> DEFINE c == EncodeParameter_Uint16(code)
           W == c \o body
           d == Make__BinaryDecoder(P)
<1>1. c \in Seq(Bytes) /\ Len(c) = 2 /\ FromUint16(c) = code
  BY Uint16Bytes DEF Uint16s
<1> HIDE DEF c
<1>2. /\ W \in Seq(Bytes) /\ Len(W) = 2 + Len(body) /\ Len(body) \in Nat
      /\ \A i \in 1 .. 2 : W[i] = c[i]
      /\ \A i \in 1 .. Len(body) : W[2 + i] = body[i]
  BY <1>1, Concatenation
<1> HIDE DEF W
<1>3. /\ P \in Seq(Bytes)
      /\ \A i \in 1 .. Len(W) : i <= Len(P) => P[i] = W[i]
      /\ P = W <=> Len(P) = Len(W)
  BY <1>2, AlteredAgrees DEF W, c
<1>4. Len(P) \in Nat
  BY <1>3
<1>5. Len(P) < 2 => P # W
  BY <1>2, <1>3, <1>4
<1>6. ASSUME Len(P) >= 2 PROVE Arrives(P, code, body)
  <2>1. P[1] = c[1] /\ P[2] = c[2]
    BY <1>2, <1>3, <1>6
  <2>2. SubSeq(P, 1, 2)[1] = P[1] /\ SubSeq(P, 1, 2)[2] = P[2]
    <3>1. \A i \in 1 .. 2 : P[i] \in Bytes
      BY <1>3, <1>4, <1>6, ElementOfSeq
    <3>2. \A i \in 1 .. 2 - 1 + 1 : SubSeq(P, 1, 2)[i] = P[1 + i - 1]
      BY <1>3, <1>4, <1>6, <3>1, SubSeqProperties
    <3> QED
      BY <3>2
  <2>3. FromUint16(SubSeq(P, 1, 2)) = code
    BY <1>1, <2>1, <2>2 DEF FromUint16
  <2>4. d.Buffer = P /\ d.Cursor = 2 /\ d.Error = FALSE
    BY DEF Make__BinaryDecoder, Decoder
  <2> HIDE DEF d
  <2>5. Good(d)
    BY <1>3, <1>4, <1>6, <2>4 DEF Good
  <2>6. Carries(d, body)
    <3> SUFFICES ASSUME NEW i \in 1 .. Len(body), d.Cursor + i <= Len(d.Buffer)
                 PROVE  d.Buffer[d.Cursor + i] = body[i]
      BY DEF Carries
    <3>1. 2 + i \in 1 .. Len(W) /\ 2 + i <= Len(P)
      BY <1>2, <1>4, <2>4
    <3> QED
      BY <1>2, <1>3, <2>4, <3>1
  <2>7. P = c \o body <=> Len(P) = 2 + Len(body)
    BY <1>2, <1>3 DEF W
  <2> QED
    BY <1>3, <1>6, <2>3, <2>5, <2>6, <2>7 DEF Arrives, d, c
<1> QED
  BY <1>4, <1>5, <1>6 DEF W, c

IsWhole(P, code, body) == P = EncodeParameter_Uint16(code) \o body

(* A message is what was decoded if the payload is the body, all of it and  *)
(* nothing else, and its parameters are valid.                             *)
LEMMA Accepted ==
  ASSUME NEW P, NEW code, NEW body, NEW r, NEW x, NEW m, NEW valid \in BOOLEAN,
         Arrives(P, code, body), Reads(Make__BinaryDecoder(P), r, body, x, valid)
  PROVE  /\ IsWhole(P, code, body) /\ valid => Message(AssertEndOfPayload(r), m) = m /\ r.value = x
         /\ ~(IsWhole(P, code, body) /\ valid) => Message(AssertEndOfPayload(r), m) = Dropped
         /\ IsWhole(P, code, body) => Whole(Make__BinaryDecoder(P), body)
<1> DEFINE d == Make__BinaryDecoder(P)
           whole == IsWhole(P, code, body)
<1>1. d.Buffer = P /\ d.Cursor = 2
  BY DEF Make__BinaryDecoder, Decoder
<1>2. /\ Good(d) /\ Carries(d, body) /\ Len(P) \in Nat /\ Len(body) \in Nat
      /\ whole <=> Len(P) = 2 + Len(body)
  BY DEF Arrives, IsWhole, Reads
<1> HIDE DEF d, whole
<1>3. Decoded(d, r, body, x, valid)
  BY <1>2 DEF Reads, d
<1>4. whole => Whole(d, body)
  BY <1>1, <1>2 DEF Whole
<1>5. CASE Whole(d, body) /\ valid
  <2>1. r = Decoder(P, 2 + Len(body), FALSE, x)
    BY <1>1, <1>3, <1>5 DEF Decoded
  <2>2. r.Buffer = P /\ r.Cursor = 2 + Len(body) /\ r.Error = FALSE /\ r.value = x
    BY <2>1 DEF Decoder
  <2> HIDE DEF Dropped
  <2>3. AssertEndOfPayload(r) = IF whole THEN r ELSE Fail(r, r.value)
    BY <1>2, <2>2 DEF AssertEndOfPayload
  <2>4. /\ whole => Message(AssertEndOfPayload(r), m) = m
        /\ ~whole => Message(AssertEndOfPayload(r), m) = Dropped
    BY <2>2, <2>3 DEF Message, Fail, Decoder
  <2> QED
    BY <1>4, <1>5, <2>2, <2>4 DEF whole, d
<1>6. CASE ~(Whole(d, body) /\ valid)
  <2>1. r.Error
    BY <1>3, <1>6 DEF Decoded
  <2>2. AssertEndOfPayload(r).Error
    BY <2>1, ErrorStays
  <2> HIDE DEF Dropped
  <2>3. Message(AssertEndOfPayload(r), m) = Dropped
    BY <2>2 DEF Message
  <2>4. ~(whole /\ valid)
    BY <1>4, <1>6
  <2> QED
    BY <1>4, <2>3, <2>4 DEF whole, d
<1> QED
  BY <1>5, <1>6

-----------------------------------------------------------------------------
(* The messages.                                                           *)

(* A TerminatePty is decoded whole or dropped.                             *)
LEMMA TerminateDecodes ==
  ASSUME NEW P, NEW id \in Uint32s,
         Arrives(P, TERMINATE_PTY, EncodeParameter_Uint32(id))
  PROVE  decodePayload_TerminatePty(Make__BinaryDecoder(P))
           = IF IsWhole(P, TERMINATE_PTY, EncodeParameter_Uint32(id))
             THEN [code |-> TERMINATE_PTY, id |-> id] ELSE Dropped
<1> DEFINE d    == Make__BinaryDecoder(P)
           body == EncodeParameter_Uint32(id)
           r    == DecodeParameter_Uint32(d)
           whole == IsWhole(P, TERMINATE_PTY, body)
<1>1. body \in Seq(Bytes) /\ Reads(d, r, body, id, TRUE)
  BY Uint32Reads DEF Uint32s, Reads
<1>2. decodePayload_TerminatePty(d)
        = Message(AssertEndOfPayload(r), [code |-> TERMINATE_PTY, id |-> r.value])
  BY DEF decodePayload_TerminatePty
<1> HIDE DEF body, r
<1> DEFINE m == [code |-> TERMINATE_PTY, id |-> r.value]
<1> HIDE DEF m, Dropped
<1>3. Arrives(P, TERMINATE_PTY, body)
  BY DEF body
<1>4. /\ whole => Message(AssertEndOfPayload(r), m) = m /\ r.value = id
      /\ ~whole => Message(AssertEndOfPayload(r), m) = Dropped
  BY <1>1, <1>3, Accepted
<1> HIDE DEF whole
<1>5. whole => m = [code |-> TERMINATE_PTY, id |-> id]
  BY <1>4 DEF m
<1> QED
  BY <1>2, <1>4, <1>5 DEF m, whole, body

(* Resize and sync are decoded whole or dropped.                           *)
LEMMA LayoutMessageDecodes ==
  ASSUME NEW P, NEW code \in Uint16s, NEW entries \in Layouts,
         Arrives(P, code, EncodeLayout(entries))
  PROVE  decodePayload_Layout(code, Make__BinaryDecoder(P))
           = IF IsWhole(P, code, EncodeLayout(entries))
             THEN [code |-> code, layout |-> LastOfEach(entries)] ELSE Dropped
<1> DEFINE d    == Make__BinaryDecoder(P)
           body == EncodeLayout(entries)
           r    == OrderBatch_LayoutUpdate(d)
           whole == IsWhole(P, code, body)
           last == LastOfEach(entries)
<1>1. body \in Seq(Bytes) /\ Reads(d, r, body, last, TRUE)
  BY LayoutReads DEF Reads
<1>2. decodePayload_Layout(code, d)
        = Message(AssertEndOfPayload(r), [code |-> code, layout |-> r.value])
  BY DEF decodePayload_Layout
<1> HIDE DEF body, r, last
<1> DEFINE m == [code |-> code, layout |-> r.value]
<1> HIDE DEF m, Dropped
<1>3. Arrives(P, code, body)
  BY DEF body
<1>4. /\ whole => Message(AssertEndOfPayload(r), m) = m /\ r.value = last
      /\ ~whole => Message(AssertEndOfPayload(r), m) = Dropped
  BY <1>1, <1>3, Accepted
<1> HIDE DEF whole
<1>5. whole => m = [code |-> code, layout |-> last]
  BY <1>4 DEF m
<1> QED
  BY <1>2, <1>4, <1>5 DEF m, whole, body, last

(* A removal is decoded whole or dropped.                                  *)
LEMMA RemoveDecodes ==
  ASSUME NEW P, NEW ids \in Lists(Uint32s), NEW entries \in Layouts,
         Arrives(P, BATCH__REMOVE_PTY, EncodeIds(ids) \o EncodeLayout(entries))
  PROVE  decodePayload__Batch_RemovePty(Make__BinaryDecoder(P))
           = IF IsWhole(P, BATCH__REMOVE_PTY, EncodeIds(ids) \o EncodeLayout(entries))
             THEN [code |-> BATCH__REMOVE_PTY, ids |-> ids, layout |-> LastOfEach(entries)]
             ELSE Dropped
<1> DEFINE d    == Make__BinaryDecoder(P)
           s    == EncodeIds(ids)
           t    == EncodeLayout(entries)
           r1   == DecodeParameter__Slice16_Uint32(d)
           r    == OrderBatch_LayoutUpdate(r1)
           whole == IsWhole(P, BATCH__REMOVE_PTY, s \o t)
           last == LastOfEach(entries)
<1>1. Reads(d, r1, s, ids, TRUE) /\ Reads(r1, r, t, last, TRUE) /\ t \in Seq(Bytes)
  BY IdsRead, LayoutReads DEF Reads
<1>2. decodePayload__Batch_RemovePty(d)
        = Message(AssertEndOfPayload(r),
                  [code |-> BATCH__REMOVE_PTY, ids |-> r1.value, layout |-> r.value])
  BY DEF decodePayload__Batch_RemovePty
<1> HIDE DEF s, t, r1, r, last
<1>3. s \o t \in Seq(Bytes) /\ Reads(d, r, s \o t, last, TRUE)
  BY <1>1, ReadsBoth DEF Reads
<1> DEFINE m == [code |-> BATCH__REMOVE_PTY, ids |-> r1.value, layout |-> r.value]
<1> HIDE DEF m, Dropped
<1>4. Arrives(P, BATCH__REMOVE_PTY, s \o t)
  BY DEF s, t
<1>5. /\ whole => Message(AssertEndOfPayload(r), m) = m /\ r.value = last
      /\ ~whole => Message(AssertEndOfPayload(r), m) = Dropped
      /\ whole => Whole(d, s \o t)
  BY <1>3, <1>4, Accepted
<1>6. whole => r1.value = ids
  <2>1. Good(d) /\ Carries(d, s \o t)
    BY <1>4 DEF Arrives
  <2> QED
    BY <1>1, <1>5, <2>1, ReadBefore
<1> HIDE DEF whole
<1>7. whole => m = [code |-> BATCH__REMOVE_PTY, ids |-> ids, layout |-> last]
  BY <1>5, <1>6 DEF m
<1> QED
  BY <1>2, <1>5, <1>7 DEF m, whole, s, t, last

(* Input is whatever follows the id.                                       *)
LEMMA InputDecodes ==
  ASSUME NEW P, NEW id \in Uint32s, NEW input \in Seq(Bytes),
         Arrives(P, WRITE_INPUT__PTY, EncodeParameter_Uint32(id) \o input)
  PROVE  decodePayload__WriteInput_Pty(Make__BinaryDecoder(P))
           = IF Len(P) >= 6
             THEN [code |-> WRITE_INPUT__PTY, id |-> id, input |-> SubSeq(P, 7, Len(P))]
             ELSE Dropped
<1> DEFINE d  == Make__BinaryDecoder(P)
           s  == EncodeParameter_Uint32(id)
           r1 == DecodeParameter_Uint32(d)
           r  == DecodeParameter_TrailingBytes(r1)
           m  == [code |-> WRITE_INPUT__PTY, id |-> r1.value, input |-> r.value]
<1>1. s \in Seq(Bytes) /\ Len(s) = 4 /\ Reads(d, r1, s, id, TRUE)
  BY Uint32Bytes, Uint32Reads DEF Uint32s
<1>2. decodePayload__WriteInput_Pty(d) = Message(AssertEndOfPayload(r), m)
  BY DEF decodePayload__WriteInput_Pty
<1>3. d.Buffer = P /\ d.Cursor = 2
  BY DEF Make__BinaryDecoder, Decoder
<1> HIDE DEF s, m, Dropped
<1>4. Good(d) /\ Carries(d, s) /\ Len(P) \in Nat
  <2>1. Good(d) /\ Carries(d, s \o input) /\ Len(P) \in Nat
    BY DEF Arrives, s
  <2> HIDE DEF d
  <2> QED
    BY <1>1, <2>1, FirstOfTwo
<1> HIDE DEF d, r1
<1>5. Decoded(d, r1, s, id, TRUE)
  BY <1>1, <1>4 DEF Reads
<1>6. CASE Len(P) >= 6
  <2>1. r1 = Decoder(P, 6, FALSE, id)
    BY <1>1, <1>3, <1>5, <1>6 DEF Decoded, Whole
  <2>2. r1.Buffer = P /\ r1.Cursor = 6 /\ r1.Error = FALSE /\ r1.value = id
    BY <2>1 DEF Decoder
  <2>3. CanDecodeParameter(r1, Len(P) - 6)
    BY <1>4, <2>2 DEF CanDecodeParameter
  <2>4. r = Decoder(P, 6 + (Len(P) - 6), FALSE, SubSeq(P, 6 + 1, 6 + (Len(P) - 6)))
    BY <2>2, <2>3 DEF DecodeParameter_TrailingBytes, DecodeBytes
  <2>5. 6 + (Len(P) - 6) = Len(P) /\ 6 + 1 = 7
    BY <1>4
  <2>6. r = Decoder(P, Len(P), FALSE, SubSeq(P, 7, Len(P)))
    BY <2>4, <2>5
  <2> HIDE DEF r
  <2>7. /\ r.Buffer = P /\ r.Cursor = Len(P) /\ r.Error = FALSE
        /\ r.value = SubSeq(P, 7, Len(P))
    BY <2>6 DEF Decoder
  <2>8. Message(AssertEndOfPayload(r), m) = m
    BY <2>7 DEF AssertEndOfPayload, Message
  <2>9. m = [code |-> WRITE_INPUT__PTY, id |-> id, input |-> SubSeq(P, 7, Len(P))]
    BY <2>2, <2>7 DEF m, r
  <2> QED
    BY <1>2, <1>6, <2>8, <2>9 DEF d, r
<1>7. CASE ~(Len(P) >= 6)
  <2>1. r1.Error
    BY <1>1, <1>3, <1>4, <1>5, <1>7 DEF Decoded, Whole
  <2>2. AssertEndOfPayload(r).Error
    BY <2>1, ErrorStays
  <2> HIDE DEF r
  <2>3. Message(AssertEndOfPayload(r), m) = Dropped
    BY <2>2 DEF Message
  <2> QED
    BY <1>2, <1>7, <2>3 DEF d, r
<1> QED
  BY <1>6, <1>7

(* DecodeParameter_String16 reads the text that was written.               *)
LEMMA TextReads ==
  ASSUME NEW d, NEW text \in Texts
  PROVE  Reads(d, DecodeParameter_String16(d), EncodeText(text), text, TRUE)
BY String16Reads DEF Texts, EncodeText

SpawnBody(columns, rows, shell, directory, environment, options, entries) ==
  EncodeParameter_Uint16(columns) \o EncodeParameter_Uint16(rows)
    \o EncodeText(shell) \o EncodeText(directory) \o EncodeTexts(environment)
    \o EncodeOptions(options) \o EncodeLayout(entries)

(* A SpawnPty is decoded whole, with options the server knows, or dropped. *)
LEMMA SpawnDecodes ==
  ASSUME NEW P, NEW columns \in Uint16s, NEW rows \in Uint16s,
         NEW shell \in Texts, NEW directory \in Texts, NEW environment \in Lists(Texts),
         NEW options \in Lists(Uint16s \X Uint32s), NEW entries \in Layouts,
         Arrives(P, SPAWN_PTY, SpawnBody(columns, rows, shell, directory, environment,
                                         options, entries))
  PROVE  decodePayload_SpawnPty(Make__BinaryDecoder(P))
           = IF /\ IsWhole(P, SPAWN_PTY, SpawnBody(columns, rows, shell, directory,
                                                   environment, options, entries))
                /\ KnownOptions(options)
             THEN [code |-> SPAWN_PTY, size |-> <<columns, rows>>, shell |-> shell,
                   directory |-> directory, environment |-> environment,
                   options |-> options, layout |-> LastOfEach(entries)]
             ELSE Dropped
<1> DEFINE d  == Make__BinaryDecoder(P)
           s1 == EncodeParameter_Uint16(columns)
           s2 == EncodeParameter_Uint16(rows)
           s3 == EncodeText(shell)
           s4 == EncodeText(directory)
           s5 == EncodeTexts(environment)
           s6 == EncodeOptions(options)
           s7 == EncodeLayout(entries)
           p2 == s1 \o s2
           p3 == p2 \o s3
           p4 == p3 \o s4
           p5 == p4 \o s5
           p6 == p5 \o s6
           p7 == p6 \o s7
           r1 == DecodeParameter_Uint16(d)
           r2 == DecodeParameter_Uint16(r1)
           r3 == DecodeParameter_String16(r2)
           r4 == DecodeParameter_String16(r3)
           r5 == DecodeParameter__Slice16_String16(r4)
           r6 == OptionBatch_PtyProxy(r5)
           r7 == OrderBatch_LayoutUpdate(r6)
           last  == LastOfEach(entries)
           known == KnownOptions(options)
           whole == IsWhole(P, SPAWN_PTY, p7)
           m == [code |-> SPAWN_PTY, size |-> <<r1.value, r2.value>>, shell |-> r3.value,
                 directory |-> r4.value, environment |-> r5.value, options |-> r6.value,
                 layout |-> r7.value]
<1>1. /\ Reads(d, r1, s1, columns, TRUE) /\ Reads(r1, r2, s2, rows, TRUE)
      /\ Reads(r2, r3, s3, shell, TRUE) /\ Reads(r3, r4, s4, directory, TRUE)
  BY Uint16Reads, TextReads DEF Uint16s
<1>2. /\ Reads(r4, r5, s5, environment, TRUE) /\ Reads(r5, r6, s6, options, known)
      /\ Reads(r6, r7, s7, last, TRUE)
  BY TextsRead, OptionsRead, LayoutReads
<1>3. decodePayload_SpawnPty(d) = Message(AssertEndOfPayload(r7), m)
  BY DEF decodePayload_SpawnPty
<1>4. /\ p7 = SpawnBody(columns, rows, shell, directory, environment, options, entries)
      /\ Arrives(P, SPAWN_PTY, p7)
  BY DEF SpawnBody
<1>5. known \in BOOLEAN
  BY DEF KnownOptions
<1>6. Good(d) /\ Carries(d, p7)
  BY <1>4 DEF Arrives
<1> HIDE DEF d, s1, s2, s3, s4, s5, s6, s7, r1, r2, r3, r4, r5, r6, r7, last, known, m, Dropped
<1>7. /\ s1 \in Seq(Bytes) /\ s2 \in Seq(Bytes) /\ s3 \in Seq(Bytes) /\ s4 \in Seq(Bytes)
      /\ s5 \in Seq(Bytes) /\ s6 \in Seq(Bytes) /\ s7 \in Seq(Bytes)
  BY <1>1, <1>2 DEF Reads
<1>8. Reads(d, r2, p2, rows, TRUE)
  BY <1>1, ReadsBoth
<1> HIDE DEF p2
<1>9. Reads(d, r3, p3, shell, TRUE)
  BY <1>1, <1>8, ReadsBoth
<1> HIDE DEF p3
<1>10. Reads(d, r4, p4, directory, TRUE)
  BY <1>1, <1>9, ReadsBoth
<1> HIDE DEF p4
<1>11. Reads(d, r5, p5, environment, TRUE)
  BY <1>2, <1>10, ReadsBoth
<1> HIDE DEF p5
<1>12. Reads(d, r6, p6, options, known)
  BY <1>2, <1>5, <1>11, ReadsBoth
<1> HIDE DEF p6
<1>13. Reads(d, r7, p7, last, known)
  BY <1>2, <1>5, <1>12, ReadsBoth
<1>14. /\ whole /\ known => Message(AssertEndOfPayload(r7), m) = m /\ r7.value = last
       /\ ~(whole /\ known) => Message(AssertEndOfPayload(r7), m) = Dropped
       /\ whole => Whole(d, p7)
  <2> HIDE DEF p7
  <2> QED
    BY <1>4, <1>5, <1>13, Accepted DEF d
<1>15. ASSUME whole, known
       PROVE  /\ r1.value = columns /\ r2.value = rows /\ r3.value = shell
              /\ r4.value = directory /\ r5.value = environment /\ r6.value = options
  <2>1. Carries(d, p6 \o s7) /\ Whole(d, p6 \o s7)
    BY <1>6, <1>14, <1>15
  <2>2. Carries(d, p6) /\ Whole(d, p6) /\ r6.value = options
    BY <1>5, <1>6, <1>7, <1>12, <1>15, <2>1, ReadBefore
  <2>3. Carries(d, p5) /\ Whole(d, p5) /\ r5.value = environment
    BY <1>6, <1>7, <1>11, <2>2, ReadBefore DEF p6
  <2>4. Carries(d, p4) /\ Whole(d, p4) /\ r4.value = directory
    BY <1>6, <1>7, <1>10, <2>3, ReadBefore DEF p5
  <2>5. Carries(d, p3) /\ Whole(d, p3) /\ r3.value = shell
    BY <1>6, <1>7, <1>9, <2>4, ReadBefore DEF p4
  <2>6. Carries(d, p2) /\ Whole(d, p2) /\ r2.value = rows
    BY <1>6, <1>7, <1>8, <2>5, ReadBefore DEF p3
  <2>7. r1.value = columns
    BY <1>1, <1>6, <1>7, <2>6, ReadBefore DEF p2
  <2> QED
    BY <2>2, <2>3, <2>4, <2>5, <2>6, <2>7
<1>16. whole /\ known =>
         m = [code |-> SPAWN_PTY, size |-> <<columns, rows>>, shell |-> shell,
              directory |-> directory, environment |-> environment, options |-> options,
              layout |-> last]
  BY <1>14, <1>15 DEF m
<1> HIDE DEF p7, whole
<1>17. Message(AssertEndOfPayload(r7), m)
         = IF whole /\ known
           THEN [code |-> SPAWN_PTY, size |-> <<columns, rows>>, shell |-> shell,
                 directory |-> directory, environment |-> environment, options |-> options,
                 layout |-> last]
           ELSE Dropped
  BY <1>14, <1>16
<1> QED
  BY <1>3, <1>4, <1>17 DEF d, last, known, whole

-----------------------------------------------------------------------------
(* A request, from its bytes.                                              *)

Body(r) ==
  CASE r.code = SPAWN_PTY ->
         SpawnBody(r.size[1], r.size[2], r.shell, r.directory, r.environment, r.options,
                   r.layout)
    [] r.code \in {BATCH__RESIZE_PTY, BATCH__SYNC_PTY} -> EncodeLayout(r.layout)
    [] r.code = TERMINATE_PTY -> EncodeParameter_Uint32(r.id)
    [] r.code = BATCH__REMOVE_PTY -> EncodeIds(r.ids) \o EncodeLayout(r.layout)
    [] r.code = WRITE_INPUT__PTY -> EncodeParameter_Uint32(r.id) \o r.input
    [] OTHER -> <<>>

Expected(r, P) ==
  IF r.code = WRITE_INPUT__PTY /\ Len(P) >= 6
  THEN [r EXCEPT !.input = SubSeq(P, 7, Len(P))]
  ELSE IF P = EncodeRequest(r) THEN Meant(r) ELSE Dropped

(* A request is its code and its body.                                     *)
LEMMA RequestBytes ==
  ASSUME NEW r
  PROVE  EncodeRequest(r) = EncodeParameter_Uint16(r.code) \o Body(r)
BY DEF EncodeRequest, Body, SpawnBody

(* Everything the client writes is a sequence of bytes.                    *)
LEMMA EncodingBytes ==
  /\ \A n \in Uint16s : n \in 0 .. UINT16 - 1 /\ EncodeParameter_Uint16(n) \in Seq(Bytes)
  /\ \A n \in Uint32s : EncodeParameter_Uint32(n) \in Seq(Bytes)
  /\ \A text \in Texts : EncodeText(text) \in Seq(Bytes)
  /\ \A texts \in Lists(Texts) : EncodeTexts(texts) \in Seq(Bytes)
  /\ \A options \in Lists(Uint16s \X Uint32s) : EncodeOptions(options) \in Seq(Bytes)
  /\ \A ids \in Lists(Uint32s) : EncodeIds(ids) \in Seq(Bytes)
  /\ \A entries \in Layouts : EncodeLayout(entries) \in Seq(Bytes)
<1> DEFINE d == Make__BinaryDecoder(<<>>)
<1>1. \A n \in Uint16s : n \in 0 .. UINT16 - 1 /\ EncodeParameter_Uint16(n) \in Seq(Bytes)
  BY Uint16Bytes DEF Uint16s
<1>2. \A n \in Uint32s : EncodeParameter_Uint32(n) \in Seq(Bytes)
  BY Uint32Bytes DEF Uint32s
<1>3. \A text \in Texts : EncodeText(text) \in Seq(Bytes)
  <2>1. \A text \in Texts : Reads(d, DecodeParameter_String16(d), EncodeText(text), text, TRUE)
    BY TextReads
  <2> QED
    BY <2>1 DEF Reads
<1>4. \A texts \in Lists(Texts) : EncodeTexts(texts) \in Seq(Bytes)
  BY TextsRead DEF Reads
<1>5. \A options \in Lists(Uint16s \X Uint32s) : EncodeOptions(options) \in Seq(Bytes)
  BY OptionsRead DEF Reads
<1>6. \A ids \in Lists(Uint32s) : EncodeIds(ids) \in Seq(Bytes)
  BY IdsRead DEF Reads
<1>7. \A entries \in Layouts : EncodeLayout(entries) \in Seq(Bytes)
  BY LayoutReads DEF Reads
<1> QED
  BY <1>1, <1>2, <1>3, <1>4, <1>5, <1>6, <1>7

(* The codes are different, and numbers of two bytes.                       *)
LEMMA Codes ==
  /\ {SPAWN_PTY, BATCH__RESIZE_PTY, TERMINATE_PTY, BATCH__REMOVE_PTY, WRITE_INPUT__PTY,
      BATCH__SYNC_PTY} \subseteq Uint16s
  /\ SPAWN_PTY = 1 /\ BATCH__RESIZE_PTY = 3 /\ TERMINATE_PTY = 4 /\ BATCH__REMOVE_PTY = 6
  /\ WRITE_INPUT__PTY = 7 /\ BATCH__SYNC_PTY = 10
BY Widths DEF Uint16s, SPAWN_PTY, BATCH__RESIZE_PTY, TERMINATE_PTY, BATCH__REMOVE_PTY,
              WRITE_INPUT__PTY, BATCH__SYNC_PTY

(* What the server makes of a payload with a code, by the code.             *)
LEMMA Opcodes ==
  ASSUME NEW P, NEW code, NEW body, Arrives(P, code, body)
  PROVE  LET d == Make__BinaryDecoder(P)
         IN /\ code = SPAWN_PTY => DecodeWebsocketPayload(P) = decodePayload_SpawnPty(d)
            /\ code \in {BATCH__RESIZE_PTY, BATCH__SYNC_PTY} =>
                 DecodeWebsocketPayload(P) = decodePayload_Layout(code, d)
            /\ code = TERMINATE_PTY => DecodeWebsocketPayload(P) = decodePayload_TerminatePty(d)
            /\ code = BATCH__REMOVE_PTY =>
                 DecodeWebsocketPayload(P) = decodePayload__Batch_RemovePty(d)
            /\ code = WRITE_INPUT__PTY =>
                 DecodeWebsocketPayload(P) = decodePayload__WriteInput_Pty(d)
            /\ code \notin {SPAWN_PTY, BATCH__RESIZE_PTY, BATCH__SYNC_PTY, TERMINATE_PTY,
                            BATCH__REMOVE_PTY, WRITE_INPUT__PTY} =>
                 DecodeWebsocketPayload(P) = Dropped
<1> DEFINE d == Make__BinaryDecoder(P)
<1>1. FromUint16(SubSeq(P, 1, 2)) = code /\ ~(Len(P) < 2)
  BY DEF Arrives
<1>2. DecodeWebsocketPayload(P) =
        CASE code = SPAWN_PTY         -> decodePayload_SpawnPty(d)
          [] code = BATCH__RESIZE_PTY -> decodePayload_Layout(code, d)
          [] code = BATCH__SYNC_PTY   -> decodePayload_Layout(code, d)
          [] code = TERMINATE_PTY     -> decodePayload_TerminatePty(d)
          [] code = BATCH__REMOVE_PTY -> decodePayload__Batch_RemovePty(d)
          [] code = WRITE_INPUT__PTY  -> decodePayload__WriteInput_Pty(d)
          [] OTHER                    -> Dropped
  BY <1>1 DEF DecodeWebsocketPayload
<1> HIDE DEF d, Dropped
<1> QED
  BY <1>2, Codes DEF d

(* What the request is worth, kind by kind.                                *)
Outcome(r, P) ==
  /\ r.code \in Uint16s
  /\ Body(r) \in Seq(Bytes)
  /\ Arrives(P, r.code, Body(r)) => DecodeWebsocketPayload(P) = Expected(r, P)

(* The outcome of TerminatePty.                                            *)
LEMMA TerminateOutcome ==
  ASSUME NEW r, NEW P, r.code = TERMINATE_PTY, WellFormed(r)
  PROVE  Outcome(r, P)
<1>1. r \in [code: {TERMINATE_PTY}, id: Uint32s]
  BY Codes DEF WellFormed
<1>2. r.id \in Uint32s /\ r = [code |-> TERMINATE_PTY, id |-> r.id]
  BY <1>1
<1>3. Body(r) = EncodeParameter_Uint32(r.id)
  BY Codes DEF Body
<1>4. Body(r) \in Seq(Bytes) /\ r.code \in Uint16s
  BY <1>2, <1>3, Codes, EncodingBytes
<1>5. Expected(r, P) = IF IsWhole(P, TERMINATE_PTY, Body(r)) THEN r ELSE Dropped
  <2>1. Meant(r) = r
    BY Codes DEF Meant
  <2>2. r.code # WRITE_INPUT__PTY
    BY Codes
  <2> HIDE DEF Dropped
  <2> QED
    BY <2>1, <2>2, RequestBytes DEF Expected, IsWhole
<1>6. ASSUME Arrives(P, r.code, Body(r)) PROVE DecodeWebsocketPayload(P) = Expected(r, P)
  <2>1. Arrives(P, TERMINATE_PTY, Body(r))
    BY <1>6
  <2>2. DecodeWebsocketPayload(P) = decodePayload_TerminatePty(Make__BinaryDecoder(P))
    BY <2>1, Opcodes
  <2>3. decodePayload_TerminatePty(Make__BinaryDecoder(P))
          = IF IsWhole(P, TERMINATE_PTY, Body(r))
            THEN [code |-> TERMINATE_PTY, id |-> r.id] ELSE Dropped
    BY <1>2, <1>3, <2>1, TerminateDecodes
  <2> HIDE DEF Dropped
  <2> QED
    BY <1>2, <1>5, <2>2, <2>3
<1> QED
  BY <1>4, <1>6 DEF Outcome

(* The outcome of resize and sync.                                         *)
LEMMA LayoutOutcome ==
  ASSUME NEW r, NEW P, r.code \in {BATCH__RESIZE_PTY, BATCH__SYNC_PTY}, WellFormed(r)
  PROVE  Outcome(r, P)
<1> DEFINE code == r.code
           m    == [code |-> code, layout |-> LastOfEach(r.layout)]
<1>1. r \in [code: {BATCH__RESIZE_PTY, BATCH__SYNC_PTY}, layout: Layouts]
  BY Codes DEF WellFormed
<1>2. r.layout \in Layouts /\ r = [code |-> code, layout |-> r.layout]
  BY <1>1
<1>3. Body(r) = EncodeLayout(r.layout)
  BY Codes DEF Body
<1>4. Body(r) \in Seq(Bytes) /\ code \in Uint16s
  BY <1>2, <1>3, Codes, EncodingBytes
<1>5. Meant(r) = m
  <2>1. Meant(r) = [r EXCEPT !.layout = LastOfEach(r.layout)]
    BY Codes DEF Meant
  <2> QED
    BY <1>2, <2>1
<1>6. Expected(r, P) = IF IsWhole(P, code, Body(r)) THEN m ELSE Dropped
  <2>1. code # WRITE_INPUT__PTY
    BY Codes
  <2> HIDE DEF Dropped, m
  <2> QED
    BY <1>5, <2>1, RequestBytes DEF Expected, IsWhole
<1>7. ASSUME Arrives(P, r.code, Body(r)) PROVE DecodeWebsocketPayload(P) = Expected(r, P)
  <2>1. DecodeWebsocketPayload(P) = decodePayload_Layout(code, Make__BinaryDecoder(P))
    BY <1>7, Opcodes
  <2>2. decodePayload_Layout(code, Make__BinaryDecoder(P))
          = IF IsWhole(P, code, Body(r)) THEN m ELSE Dropped
    BY <1>2, <1>3, <1>4, <1>7, LayoutMessageDecodes
  <2> HIDE DEF Dropped, m
  <2> QED
    BY <1>6, <2>1, <2>2
<1> QED
  BY <1>4, <1>7 DEF Outcome

(* The outcome of a removal.                                               *)
LEMMA RemoveOutcome ==
  ASSUME NEW r, NEW P, r.code = BATCH__REMOVE_PTY, WellFormed(r)
  PROVE  Outcome(r, P)
<1> DEFINE m == [code |-> BATCH__REMOVE_PTY, ids |-> r.ids, layout |-> LastOfEach(r.layout)]
<1>1. r \in [code: {BATCH__REMOVE_PTY}, ids: Lists(Uint32s), layout: Layouts]
  BY Codes DEF WellFormed
<1>2. /\ r.ids \in Lists(Uint32s) /\ r.layout \in Layouts
      /\ r = [code |-> BATCH__REMOVE_PTY, ids |-> r.ids, layout |-> r.layout]
  BY <1>1
<1>3. Body(r) = EncodeIds(r.ids) \o EncodeLayout(r.layout)
  BY Codes DEF Body
<1>4. Body(r) \in Seq(Bytes) /\ r.code \in Uint16s
  <2>1. EncodeIds(r.ids) \in Seq(Bytes) /\ EncodeLayout(r.layout) \in Seq(Bytes)
    BY <1>2, EncodingBytes
  <2> QED
    BY <1>3, <2>1, Codes, Concatenation
<1>5. Meant(r) = m
  <2>1. Meant(r) = [r EXCEPT !.layout = LastOfEach(r.layout)]
    BY Codes DEF Meant
  <2> QED
    BY <1>2, <2>1
<1>6. Expected(r, P) = IF IsWhole(P, BATCH__REMOVE_PTY, Body(r)) THEN m ELSE Dropped
  <2>1. r.code # WRITE_INPUT__PTY
    BY Codes
  <2> HIDE DEF Dropped, m
  <2> QED
    BY <1>5, <2>1, RequestBytes DEF Expected, IsWhole
<1>7. ASSUME Arrives(P, r.code, Body(r)) PROVE DecodeWebsocketPayload(P) = Expected(r, P)
  <2>1. Arrives(P, BATCH__REMOVE_PTY, Body(r))
    BY <1>7
  <2>2. DecodeWebsocketPayload(P) = decodePayload__Batch_RemovePty(Make__BinaryDecoder(P))
    BY <2>1, Opcodes
  <2>3. decodePayload__Batch_RemovePty(Make__BinaryDecoder(P))
          = IF IsWhole(P, BATCH__REMOVE_PTY, Body(r)) THEN m ELSE Dropped
    BY <1>2, <1>3, <2>1, RemoveDecodes
  <2> HIDE DEF Dropped, m
  <2> QED
    BY <1>6, <2>2, <2>3
<1> QED
  BY <1>4, <1>7 DEF Outcome

(* An input message with other input.                                      *)
LEMMA InputReplaced ==
  ASSUME NEW code, NEW id, NEW input, NEW other, NEW r,
         r = [code |-> code, id |-> id, input |-> input]
  PROVE  [r EXCEPT !.input = other] = [code |-> code, id |-> id, input |-> other]
OBVIOUS

(* The fields of an input message.                                         *)
LEMMA InputFields ==
  ASSUME NEW r, r.code = WRITE_INPUT__PTY, WellFormed(r)
  PROVE  /\ r.id \in Uint32s /\ r.input \in Seq(Bytes)
         /\ r = [code |-> WRITE_INPUT__PTY, id |-> r.id, input |-> r.input]
<1>1. r \in [code: {WRITE_INPUT__PTY}, id: Uint32s, input: Seq(Bytes)]
  BY Codes DEF WellFormed
<1> QED
  BY <1>1

(* The bytes of an input message.                                          *)
LEMMA InputBody ==
  ASSUME NEW r, r.code = WRITE_INPUT__PTY
  PROVE  Body(r) = EncodeParameter_Uint32(r.id) \o r.input
<1>1. r.code \notin {SPAWN_PTY, BATCH__RESIZE_PTY, BATCH__SYNC_PTY, TERMINATE_PTY,
                     BATCH__REMOVE_PTY}
  BY Codes
<1> QED
  BY <1>1 DEF Body

(* The outcome of input: what there is of it, once its id is complete.     *)
LEMMA InputOutcome ==
  ASSUME NEW r, NEW P, r.code = WRITE_INPUT__PTY, WellFormed(r)
  PROVE  Outcome(r, P)
<1> DEFINE m    == [code |-> WRITE_INPUT__PTY, id |-> r.id, input |-> SubSeq(P, 7, Len(P))]
           s    == EncodeParameter_Uint32(r.id)
           body == Body(r)
<1>1. r.id \in Uint32s /\ r.input \in Seq(Bytes)
  BY InputFields
<1>2. body = s \o r.input
  BY InputBody
<1>3. s \in Seq(Bytes) /\ Len(s) = 4
  BY <1>1, Uint32Bytes DEF Uint32s
<1>4. [r EXCEPT !.input = SubSeq(P, 7, Len(P))] = m
  <2>1. r = [code |-> WRITE_INPUT__PTY, id |-> r.id, input |-> r.input]
    BY InputFields
  <2> QED
    BY <2>1, InputReplaced
<1>5. r.code \in Uint16s
  BY Codes
<1> HIDE DEF s, m, Dropped
<1>6. body \in Seq(Bytes) /\ Len(body) \in Nat /\ Len(body) >= 4
  <2>1. /\ s \o r.input \in Seq(Bytes) /\ Len(r.input) \in Nat
        /\ Len(s \o r.input) = Len(s) + Len(r.input)
    BY <1>1, <1>3, Concatenation
  <2> HIDE DEF body
  <2>2. body \in Seq(Bytes) /\ Len(r.input) \in Nat /\ Len(body) = 4 + Len(r.input)
    BY <1>2, <1>3, <2>1
  <2> QED
    BY <2>2
<1>7. ASSUME Arrives(P, r.code, body) PROVE DecodeWebsocketPayload(P) = Expected(r, P)
  <2>1. Arrives(P, WRITE_INPUT__PTY, body)
    BY <1>7
  <2>2. DecodeWebsocketPayload(P) = decodePayload__WriteInput_Pty(Make__BinaryDecoder(P))
    BY <2>1, Opcodes
  <2>3. Arrives(P, WRITE_INPUT__PTY, s \o r.input)
    BY <1>2, <2>1
  <2>4. decodePayload__WriteInput_Pty(Make__BinaryDecoder(P))
          = IF Len(P) >= 6 THEN m ELSE Dropped
    BY <1>1, <2>3, InputDecodes DEF s, m
  <2>5. P # EncodeRequest(r) \/ Len(P) >= 6
    <3>1. P = EncodeRequest(r) => Len(P) = 2 + Len(body)
      BY <2>1, RequestBytes DEF Arrives
    <3> HIDE DEF body
    <3> QED
      BY <1>6, <3>1
  <2>6. Expected(r, P) = IF Len(P) >= 6 THEN m ELSE Dropped
    BY <1>4, <2>5 DEF Expected
  <2> QED
    BY <2>2, <2>4, <2>6
<1> QED
  BY <1>5, <1>6, <1>7 DEF Outcome

(* The outcome of SpawnPty.                                                *)
LEMMA SpawnOutcome ==
  ASSUME NEW r, NEW P, r.code = SPAWN_PTY, WellFormed(r)
  PROVE  Outcome(r, P)
<1> DEFINE m == [code |-> SPAWN_PTY, size |-> <<r.size[1], r.size[2]>>, shell |-> r.shell,
                 directory |-> r.directory, environment |-> r.environment,
                 options |-> r.options, layout |-> LastOfEach(r.layout)]
           known == KnownOptions(r.options)
<1>1. r \in [code: {SPAWN_PTY}, size: Uint16s \X Uint16s, shell: Texts, directory: Texts,
             environment: Lists(Texts), options: Lists(Uint16s \X Uint32s), layout: Layouts]
  BY Codes DEF WellFormed
<1>2. /\ r.size \in Uint16s \X Uint16s /\ r.shell \in Texts /\ r.directory \in Texts
      /\ r.environment \in Lists(Texts) /\ r.options \in Lists(Uint16s \X Uint32s)
      /\ r.layout \in Layouts
      /\ r = [code |-> SPAWN_PTY, size |-> r.size, shell |-> r.shell,
              directory |-> r.directory, environment |-> r.environment,
              options |-> r.options, layout |-> r.layout]
  BY <1>1
<1>3. r.size[1] \in Uint16s /\ r.size[2] \in Uint16s /\ r.size = <<r.size[1], r.size[2]>>
  BY <1>2, PairFacts
<1>4. Body(r) = SpawnBody(r.size[1], r.size[2], r.shell, r.directory, r.environment,
                          r.options, r.layout)
  BY Codes DEF Body
<1>5. Body(r) \in Seq(Bytes) /\ r.code \in Uint16s
  <2>1. /\ EncodeParameter_Uint16(r.size[1]) \in Seq(Bytes)
        /\ EncodeParameter_Uint16(r.size[2]) \in Seq(Bytes)
        /\ EncodeText(r.shell) \in Seq(Bytes) /\ EncodeText(r.directory) \in Seq(Bytes)
        /\ EncodeTexts(r.environment) \in Seq(Bytes) /\ EncodeOptions(r.options) \in Seq(Bytes)
        /\ EncodeLayout(r.layout) \in Seq(Bytes)
    BY <1>2, <1>3, EncodingBytes
  <2>2. \A s, t \in Seq(Bytes) : s \o t \in Seq(Bytes)
    BY Concatenation
  <2> QED
    BY <1>4, <2>1, <2>2, Codes DEF SpawnBody
<1>6. Meant(r) = IF known THEN m ELSE Dropped
  <2>1. known => Meant(r) = [r EXCEPT !.layout = LastOfEach(r.layout)]
    BY Codes DEF Meant, KnownOptions
  <2>2. ~known => Meant(r) = Dropped
    BY Codes DEF Meant, KnownOptions
  <2> HIDE DEF Dropped, known
  <2>3. [r EXCEPT !.layout = LastOfEach(r.layout)] = m
    BY <1>2, <1>3
  <2> HIDE DEF m
  <2> QED
    BY <2>1, <2>2, <2>3
<1>7. Expected(r, P) = IF IsWhole(P, SPAWN_PTY, Body(r)) /\ known THEN m ELSE Dropped
  <2>1. r.code # WRITE_INPUT__PTY
    BY Codes
  <2> HIDE DEF Dropped, m, known
  <2> QED
    BY <1>6, <2>1, RequestBytes DEF Expected, IsWhole
<1>8. ASSUME Arrives(P, r.code, Body(r)) PROVE DecodeWebsocketPayload(P) = Expected(r, P)
  <2>1. Arrives(P, SPAWN_PTY, Body(r))
    BY <1>8
  <2>2. DecodeWebsocketPayload(P) = decodePayload_SpawnPty(Make__BinaryDecoder(P))
    BY <2>1, Opcodes
  <2>3. decodePayload_SpawnPty(Make__BinaryDecoder(P))
          = IF IsWhole(P, SPAWN_PTY, Body(r)) /\ known THEN m ELSE Dropped
    <3>1. Arrives(P, SPAWN_PTY, SpawnBody(r.size[1], r.size[2], r.shell, r.directory,
                                          r.environment, r.options, r.layout))
      BY <1>4, <2>1
    <3>2. /\ r.size[1] \in Uint16s /\ r.size[2] \in Uint16s /\ r.shell \in Texts
          /\ r.directory \in Texts /\ r.environment \in Lists(Texts)
          /\ r.options \in Lists(Uint16s \X Uint32s) /\ r.layout \in Layouts
      BY <1>2, <1>3
    <3> HIDE DEF Dropped
    <3>3. decodePayload_SpawnPty(Make__BinaryDecoder(P))
            = IF /\ IsWhole(P, SPAWN_PTY, SpawnBody(r.size[1], r.size[2], r.shell, r.directory,
                                                    r.environment, r.options, r.layout))
                 /\ known
              THEN m ELSE Dropped
      BY <3>1, <3>2, SpawnDecodes
    <3> QED
      BY <1>4, <3>3
  <2> HIDE DEF Dropped, m, known
  <2> QED
    BY <1>7, <2>2, <2>3
<1> QED
  BY <1>5, <1>8 DEF Outcome

(* A code that the server does not know is dropped.                        *)
LEMMA UnknownOutcome ==
  ASSUME NEW r, NEW P, WellFormed(r),
         r.code \notin {SPAWN_PTY, BATCH__RESIZE_PTY, BATCH__SYNC_PTY, TERMINATE_PTY,
                        BATCH__REMOVE_PTY, WRITE_INPUT__PTY}
  PROVE  Outcome(r, P)
<1>1. r.code \in Uint16s
  BY DEF WellFormed
<1>2. Body(r) = <<>> /\ Body(r) \in Seq(Bytes)
  BY DEF Body
<1>3. Expected(r, P) = Dropped
  <2>1. Meant(r) = Dropped
    BY DEF Meant
  <2> HIDE DEF Dropped
  <2> QED
    BY <2>1 DEF Expected
<1>4. Arrives(P, r.code, Body(r)) => DecodeWebsocketPayload(P) = Dropped
  BY Opcodes
<1> QED
  BY <1>1, <1>2, <1>3, <1>4 DEF Outcome

(* Every payload of every request has the outcome that is expected of it.  *)
LEMMA RequestDecodes ==
  ASSUME NEW r, NEW P, WellFormed(r), P \in Payloads(r)
  PROVE  DecodeWebsocketPayload(P) = Expected(r, P)
<1>1. Outcome(r, P)
  BY TerminateOutcome, LayoutOutcome, RemoveOutcome, InputOutcome, SpawnOutcome, UnknownOutcome
<1>2. r.code \in Uint16s /\ Body(r) \in Seq(Bytes)
  BY <1>1 DEF Outcome
<1>3. P \in Altered(EncodeParameter_Uint16(r.code) \o Body(r))
  BY RequestBytes DEF Payloads, Altered
<1>4. /\ Len(P) \in Nat
      /\ Len(P) < 2 => ~IsWhole(P, r.code, Body(r))
      /\ Len(P) >= 2 => Arrives(P, r.code, Body(r))
  BY <1>2, <1>3, PayloadArrives DEF IsWhole
<1>5. CASE Len(P) >= 2
  BY <1>1, <1>4, <1>5 DEF Outcome
<1>6. CASE Len(P) < 2
  <2>1. DecodeWebsocketPayload(P) = Dropped
    BY <1>6 DEF DecodeWebsocketPayload
  <2>2. P # EncodeRequest(r)
    BY <1>4, <1>6, RequestBytes DEF IsWhole
  <2>3. ~(Len(P) >= 6)
    BY <1>4, <1>6
  <2> HIDE DEF Dropped
  <2> QED
    BY <2>1, <2>2, <2>3 DEF Expected
<1> QED
  BY <1>4, <1>5, <1>6

-----------------------------------------------------------------------------
(* A payload that waits is one of its request's.                            *)
ArrivedInv ==
  /\ stage = "Arrived" => request \in Requests /\ payload \in Payloads(request)
  /\ stage = "Decoded" => message = Expected(request, payload)

(* Only HandlePayload decodes, and it decodes what the client sent.        *)
LEMMA ArrivedStep == ArrivedInv /\ [RequestNext]_allVars => ArrivedInv'
<1> SUFFICES ASSUME ArrivedInv, [RequestNext]_allVars PROVE ArrivedInv'
  OBVIOUS
<1>1. CASE HandlePayload
  <2>1. stage = "Arrived" /\ stage' = "Decoded"
    BY <1>1 DEF HandlePayload
  <2>2. message' = DecodeWebsocketPayload(payload) /\ request' = request /\ payload' = payload
    BY <1>1 DEF HandlePayload
  <2>3. WellFormed(request) /\ payload \in Payloads(request)
    BY <2>1, RequestsAssumption DEF ArrivedInv
  <2>4. DecodeWebsocketPayload(payload) = Expected(request, payload)
    BY <2>3, RequestDecodes
  <2>5. message' = Expected(request', payload')
    BY <2>2, <2>4
  <2> QED
    BY <2>1, <2>5, Zenon DEF ArrivedInv
<1>2. CASE ExecuteSpawnPty
  <2>1. stage' = "Executed"
    BY <1>2 DEF ExecuteSpawnPty
  <2> QED
    BY <2>1, Zenon DEF ArrivedInv
<1>3. CASE UNCHANGED requestVars
  <2>1. stage' = stage /\ request' = request /\ payload' = payload /\ message' = message
    BY <1>3 DEF requestVars
  <2> QED
    BY <2>1, Zenon DEF ArrivedInv
<1>4. \/ HandlePayload \/ ExecuteSpawnPty \/ UNCHANGED requestVars
  BY DEF RequestNext, allVars
<1> QED
  BY <1>1, <1>2, <1>3, <1>4

(* HandlePayload makes of a payload what the client meant or drops it: no  *)
(* cut and no extra byte turns a message into another, of whatever length  *)
(* its lists and texts are.                                                *)
THEOREM MessagesDecodedAsSent == RequestSpec => []DecodedAsSent
<1>1. RequestInit => ArrivedInv
  BY Zenon DEF RequestInit, ArrivedInv
<1>2. ArrivedInv => DecodedAsSent
  BY DEF ArrivedInv, DecodedAsSent, Expected
<1> QED
  BY <1>1, <1>2, ArrivedStep, PTL DEF RequestSpec

-----------------------------------------------------------------------------
(* The frames that the client receives.                                    *)

(* A decoder whose value has been put together from what it has read.       *)
LEMMA YieldReads ==
  ASSUME NEW d, NEW r, NEW s, NEW x, NEW v, NEW y, Reads(d, r, s, x, TRUE),
         Good(d) /\ Carries(d, s) /\ Whole(d, s) => v = y
  PROVE  Reads(d, Yield(r, v), s, y, TRUE)
<1>1. s \in Seq(Bytes) /\ (d.Error => Yield(r, v).Error)
  BY DEF Reads, Yield, Decoder
<1>2. ASSUME Good(d), Carries(d, s) PROVE Decoded(d, Yield(r, v), s, y, TRUE)
  <2>1. Decoded(d, r, s, x, TRUE) /\ (Whole(d, s) => v = y)
    BY <1>2 DEF Reads
  <2> QED
    BY <2>1, Yielded
<1> QED
  BY <1>1, <1>2 DEF Reads

(* The three numbers of an outcome, and what the client makes of them.      *)
OutcomeBytes(disposition, code, signal) ==
  EncodeParameter_Uint8(disposition) \o EncodeParameter_Int32(code) \o EncodeParameter_Int32(signal)

OutcomeOf(disposition, code, signal) ==
  [kind |-> <<"Success", "Failure", "Killed", "Stopped", "SystemError">>[disposition + 1],
   detail |-> CASE <<"Success", "Failure", "Killed", "Stopped", "SystemError">>[disposition + 1]
                     = "Failure" -> code
                [] <<"Success", "Failure", "Killed", "Stopped", "SystemError">>[disposition + 1]
                     \in {"Killed", "Stopped"} -> signal
                [] OTHER -> 0]

Int32s == {n \in Int : -UINT32 <= 2 * n /\ 2 * n < UINT32}

(* The three numbers are read as they were written, negative ones too.     *)
LEMMA NumbersRead ==
  ASSUME NEW d, NEW disposition \in 0 .. 4, NEW code \in Int32s, NEW signal \in Int32s
  PROVE  Reads(d, ReadOutcome(d), OutcomeBytes(disposition, code, signal),
               OutcomeOf(disposition, code, signal), TRUE)
<1> DEFINE s1 == EncodeParameter_Uint8(disposition)
           s2 == EncodeParameter_Int32(code)
           s3 == EncodeParameter_Int32(signal)
           p2 == s1 \o s2
           r1 == DecodeParameter_Uint8(d)
           r2 == DecodeParameter_Int32(r1)
           r3 == DecodeParameter_Int32(r2)
           v  == OutcomeOf(r1.value, r2.value, r3.value)
           x  == OutcomeOf(disposition, code, signal)
<1>1. disposition \in Bytes
  BY ByteAssumption DEF Bytes
<1>2. /\ code \in Int /\ -UINT32 <= 2 * code /\ 2 * code < UINT32
      /\ signal \in Int /\ -UINT32 <= 2 * signal /\ 2 * signal < UINT32
  BY DEF Int32s
<1>3. /\ Reads(d, r1, s1, disposition, TRUE) /\ Reads(r1, r2, s2, code, TRUE)
      /\ Reads(r2, r3, s3, signal, TRUE)
  BY <1>1, <1>2, Uint8Reads, Int32Reads
<1>4. ReadOutcome(d) = Yield(r3, v)
  BY DEF ReadOutcome, OutcomeOf
<1>5. OutcomeBytes(disposition, code, signal) = p2 \o s3
  BY DEF OutcomeBytes
<1> HIDE DEF s1, s2, s3, r1, r2, r3
<1>6. s1 \in Seq(Bytes) /\ s2 \in Seq(Bytes) /\ s3 \in Seq(Bytes)
  BY <1>3 DEF Reads
<1>7. Reads(d, r2, p2, code, TRUE)
  BY <1>3, ReadsBoth
<1> HIDE DEF p2
<1>8. Reads(d, r3, p2 \o s3, signal, TRUE)
  BY <1>3, <1>7, ReadsBoth
<1>9. ASSUME Good(d), Carries(d, p2 \o s3), Whole(d, p2 \o s3) PROVE v = x
  <2>1. r3.value = signal
    BY <1>8, <1>9 DEF Reads, Decoded, Decoder
  <2>2. Carries(d, p2) /\ Whole(d, p2) /\ r2.value = code
    BY <1>6, <1>7, <1>9, ReadBefore
  <2>3. r1.value = disposition
    BY <1>3, <1>6, <1>9, <2>2, ReadBefore DEF p2
  <2> QED
    BY <2>1, <2>2, <2>3
<1> HIDE DEF v, x
<1>10. Reads(d, Yield(r3, v), p2 \o s3, x, TRUE)
  BY <1>8, <1>9, YieldReads
<1> QED
  BY <1>4, <1>5, <1>10 DEF x

(* The outcomes that fit the numbers of a frame.                            *)
Naturals32 == {n \in Nat : 2 * n < UINT32}

SentOutcomes ==
  [kind: {"Success", "SystemError_Descriptor", "SystemError_Process"}, detail: {0}]
    \cup [kind: {"Failure", "Killed", "Stopped"}, detail: Naturals32]

(* Every outcome has its three numbers, from which the client gets it back.*)
LEMMA OutcomeEncoded ==
  ASSUME NEW o \in SentOutcomes
  PROVE  \E disposition \in 0 .. 4, code \in Int32s, signal \in Int32s :
           /\ encodeStruct__ExitOutcome(o) = OutcomeBytes(disposition, code, signal)
           /\ OutcomeOf(disposition, code, signal) = Readable(o)
<1>1. 0 \in Int32s /\ -1 \in Int32s /\ Naturals32 \subseteq Int32s
  BY Widths DEF Int32s, Naturals32
<1> DEFINE Outcome3(disposition, code, signal) ==
             /\ encodeStruct__ExitOutcome(o) = OutcomeBytes(disposition, code, signal)
             /\ OutcomeOf(disposition, code, signal) = Readable(o)
<1>2. CASE o.kind = "Success"
  <2>1. o = [kind |-> "Success", detail |-> 0]
    BY <1>2 DEF SentOutcomes
  <2>2. OutcomeOf(0, 0, 0) = [kind |-> "Success", detail |-> 0]
    BY DEF OutcomeOf
  <2>3. Outcome3(0, 0, 0)
    BY <2>1, <2>2 DEF encodeStruct__ExitOutcome, OutcomeBytes, Readable
  <2> QED
    BY <1>1, <2>3
<1>3. CASE o.kind = "Failure"
  <2>1. o = [kind |-> "Failure", detail |-> o.detail] /\ o.detail \in Naturals32
    BY <1>3 DEF SentOutcomes
  <2>2. OutcomeOf(1, o.detail, 0) = [kind |-> "Failure", detail |-> o.detail]
    BY DEF OutcomeOf
  <2>3. Outcome3(1, o.detail, 0)
    BY <2>1, <2>2 DEF encodeStruct__ExitOutcome, OutcomeBytes, Readable
  <2> QED
    BY <1>1, <2>1, <2>3
<1>4. CASE o.kind = "Killed"
  <2>1. o = [kind |-> "Killed", detail |-> o.detail] /\ o.detail \in Naturals32
    BY <1>4 DEF SentOutcomes
  <2>2. OutcomeOf(2, 0, o.detail) = [kind |-> "Killed", detail |-> o.detail]
    BY DEF OutcomeOf
  <2>3. Outcome3(2, 0, o.detail)
    BY <2>1, <2>2 DEF encodeStruct__ExitOutcome, OutcomeBytes, Readable
  <2> QED
    BY <1>1, <2>1, <2>3
<1>5. CASE o.kind = "Stopped"
  <2>1. o = [kind |-> "Stopped", detail |-> o.detail] /\ o.detail \in Naturals32
    BY <1>5 DEF SentOutcomes
  <2>2. OutcomeOf(3, 0, o.detail) = [kind |-> "Stopped", detail |-> o.detail]
    BY DEF OutcomeOf
  <2>3. Outcome3(3, 0, o.detail)
    BY <2>1, <2>2 DEF encodeStruct__ExitOutcome, OutcomeBytes, Readable
  <2> QED
    BY <1>1, <2>1, <2>3
<1>6. CASE o.kind \in {"SystemError_Descriptor", "SystemError_Process"}
  <2>1. OutcomeOf(4, -1, 0) = [kind |-> "SystemError", detail |-> 0]
    BY DEF OutcomeOf
  <2>2. Outcome3(4, -1, 0)
    BY <1>6, <2>1 DEF encodeStruct__ExitOutcome, OutcomeBytes, Readable
  <2> QED
    BY <1>1, <2>2
<1> QED
  BY <1>2, <1>3, <1>4, <1>5, <1>6 DEF SentOutcomes

(* The client reads the outcome that encodeStruct__ExitOutcome writes.     *)
LEMMA OutcomeReads ==
  ASSUME NEW d, NEW o \in SentOutcomes
  PROVE  Reads(d, ReadOutcome(d), encodeStruct__ExitOutcome(o), Readable(o), TRUE)
<1>1. PICK disposition \in 0 .. 4, code \in Int32s, signal \in Int32s :
        /\ encodeStruct__ExitOutcome(o) = OutcomeBytes(disposition, code, signal)
        /\ OutcomeOf(disposition, code, signal) = Readable(o)
  BY OutcomeEncoded
<1>2. Reads(d, ReadOutcome(d), OutcomeBytes(disposition, code, signal),
            OutcomeOf(disposition, code, signal), TRUE)
  BY NumbersRead
<1> QED
  BY <1>1, <1>2

(* A bulletin's outcome is read if its status says that there is one.       *)
LEMMA ChosenReads ==
  ASSUME NEW d, NEW r, NEW without, NEW with, NEW p, NEW s, NEW x, NEW status, NEW exited,
         Reads(d, r, p, status, TRUE),
         Good(d) /\ Carries(d, s) => Carries(d, p),
         Good(d) /\ Carries(d, s) /\ Whole(d, s) => Whole(d, p),
         r.Error => without.Error, without.Error => with.Error,
         status = exited => Reads(d, with, s, x, TRUE),
         status # exited => Reads(d, without, s, x, TRUE)
  PROVE  Reads(d, IF r.value = exited THEN with ELSE without, s, x, TRUE)
<1> DEFINE last == IF r.value = exited THEN with ELSE without
<1>1. without.Error => last.Error
  OBVIOUS
<1>2. s \in Seq(Bytes) /\ (d.Error => last.Error)
  BY <1>1 DEF Reads
<1>3. ASSUME Good(d), Carries(d, s) PROVE Decoded(d, last, s, x, TRUE)
  <2>1. Decoded(d, r, p, status, TRUE)
    BY <1>3 DEF Reads
  <2>2. CASE Whole(d, p)
    <3>1. r.value = status
      BY <2>1, <2>2 DEF Decoded, Decoder
    <3>2. /\ status = exited => last = with /\ Decoded(d, with, s, x, TRUE)
          /\ status # exited => last = without /\ Decoded(d, without, s, x, TRUE)
      BY <1>3, <3>1 DEF Reads
    <3> HIDE DEF last
    <3> QED
      BY <3>2
  <2>3. CASE ~Whole(d, p)
    <3>1. last.Error
      BY <1>1, <2>1, <2>3 DEF Decoded
    <3> HIDE DEF last
    <3> QED
      BY <1>3, <2>3, <3>1 DEF Decoded
  <2> QED
    BY <2>2, <2>3
<1> QED
  BY <1>2, <1>3 DEF Reads

SentBulletins ==
  {b \in [id: Uint32s, status: {SPAWNING, ACTIVE, EXITED}, visibility: Bytes,
          outcome: SentOutcomes \cup {NoOutcome}] :
     IF b.status = EXITED THEN b.outcome \in SentOutcomes ELSE b.outcome = NoOutcome}

ReadAs(b) == [b EXCEPT !.outcome = Readable(@)]

(* The fields of a bulletin, before and after.                             *)
LEMMA BulletinFields ==
  ASSUME NEW b \in SentBulletins
  PROVE  /\ b.id \in 0 .. UINT32 - 1 /\ b.status \in Bytes /\ b.visibility \in Bytes
         /\ b.status = EXITED => b.outcome \in SentOutcomes
         /\ b.status # EXITED => b.outcome = NoOutcome
         /\ ReadAs(b) = [id |-> b.id, status |-> b.status, visibility |-> b.visibility,
                         outcome |-> Readable(b.outcome)]
<1>1. /\ b.id \in Uint32s /\ b.status \in {SPAWNING, ACTIVE, EXITED} /\ b.visibility \in Bytes
      /\ b.status = EXITED => b.outcome \in SentOutcomes
      /\ b.status # EXITED => b.outcome = NoOutcome
      /\ b = [id |-> b.id, status |-> b.status, visibility |-> b.visibility,
              outcome |-> b.outcome]
  BY DEF SentBulletins
<1>2. b.status \in Bytes
  BY <1>1, ByteAssumption DEF Bytes, SPAWNING, ACTIVE, EXITED
<1>3. ReadAs(b) = [id |-> b.id, status |-> b.status, visibility |-> b.visibility,
                   outcome |-> Readable(b.outcome)]
  BY <1>1 DEF ReadAs
<1> QED
  BY <1>1, <1>2, <1>3 DEF Uint32s

(* No outcome stays none.                                                  *)
LEMMA NoOutcomeReadable == Readable(NoOutcome) = NoOutcome
BY DEF Readable, NoOutcome

(* The client reads the bulletin that was written, long or short.          *)
LEMMA BulletinReads ==
  ASSUME NEW d, NEW b \in SentBulletins
  PROVE  Reads(d, ReadBulletin(d), EncodeBulletin(b), ReadAs(b), TRUE)
<1> DEFINE s1 == EncodeParameter_Uint32(b.id)
           s2 == EncodeParameter_Uint8(b.status)
           s3 == EncodeParameter_Uint8(b.visibility)
           s4 == encodeStruct__ExitOutcome(b.outcome)
           p2 == s1 \o s2
           p3 == p2 \o s3
           p4 == p3 \o s4
           r1 == DecodeParameter_Uint32(d)
           r2 == DecodeParameter_Uint8(r1)
           r3 == DecodeParameter_Uint8(r2)
           r4 == ReadOutcome(r3)
           last == IF r2.value = EXITED THEN r4 ELSE r3
           s == EncodeBulletin(b)
           y == [id |-> b.id, status |-> b.status, visibility |-> b.visibility,
                 outcome |-> Readable(b.outcome)]
           v == [id |-> r1.value, status |-> r2.value, visibility |-> r3.value,
                 outcome |-> IF r2.value = EXITED THEN r4.value ELSE NoOutcome]
           x == IF b.status = EXITED THEN Readable(b.outcome) ELSE b.visibility
<1>1. /\ Reads(d, r1, s1, b.id, TRUE) /\ Reads(r1, r2, s2, b.status, TRUE)
      /\ Reads(r2, r3, s3, b.visibility, TRUE)
  BY BulletinFields, Uint32Reads, Uint8Reads
<1>2. b.status = EXITED => Reads(r3, r4, s4, Readable(b.outcome), TRUE)
  BY BulletinFields, OutcomeReads
<1>3. ReadBulletin(d) = Yield(last, v)
  BY DEF ReadBulletin
<1>4. r2.Error => r3.Error
  BY ErrorStays
<1>5. r3.Error => r4.Error
  <2>1. ASSUME r3.Error PROVE r4.Error
    <3> DEFINE code == DecodeParameter_Int32(DecodeParameter_Uint8(r3))
    <3> HIDE DEF r3
    <3>1. DecodeParameter_Int32(code).Error
      BY <2>1, ErrorStays DEF code
    <3>2. \E z : r4 = Yield(DecodeParameter_Int32(code), z)
      BY DEF ReadOutcome, code
    <3> HIDE DEF code, r4
    <3> QED
      BY <3>1, <3>2 DEF Yield, Decoder
  <2> QED
    BY <2>1
<1> HIDE DEF s1, s2, s3, r1, r2, r3, r4
<1>6. s1 \in Seq(Bytes) /\ s2 \in Seq(Bytes) /\ s3 \in Seq(Bytes)
  BY <1>1 DEF Reads
<1>7. p2 \in Seq(Bytes) /\ Reads(d, r2, p2, b.status, TRUE)
  BY <1>1, <1>6, ReadsBoth, Concatenation
<1> HIDE DEF p2
<1>8. p3 \in Seq(Bytes) /\ Reads(d, r3, p3, b.visibility, TRUE)
  BY <1>1, <1>6, <1>7, ReadsBoth, Concatenation
<1> HIDE DEF s4
<1>9. b.status = EXITED => s4 \in Seq(Bytes) /\ s = p4
  BY <1>2 DEF Reads, EncodeBulletin, s1, s2, s3, s4, p2
<1>10. b.status # EXITED => s = p3 \o <<>>
  BY DEF EncodeBulletin, s1, s2, s3, p2
<1> HIDE DEF p3, s
<1>11. b.status # EXITED => s = p3
  BY <1>8, <1>10
<1>12. b.status = EXITED => Reads(d, r4, s, Readable(b.outcome), TRUE)
  BY <1>2, <1>8, <1>9, ReadsBoth
<1>13. ASSUME Good(d), Carries(d, s) PROVE Carries(d, p3) /\ (Whole(d, s) => Whole(d, p3))
  <2>1. CASE b.status = EXITED
    <3>1. s4 \in Seq(Bytes) /\ Carries(d, p3 \o s4) /\ (Whole(d, s) => Whole(d, p3 \o s4))
      BY <1>9, <1>13, <2>1
    <3> QED
      BY <1>8, <1>13, <3>1, FirstOfTwo
  <2>2. CASE b.status # EXITED
    BY <1>11, <1>13, <2>2
  <2> QED
    BY <2>1, <2>2
<1>14. ASSUME Good(d), Carries(d, s) PROVE Carries(d, p2) /\ (Whole(d, s) => Whole(d, p2))
  BY <1>6, <1>7, <1>13, <1>14, FirstOfTwo DEF p3
<1>15. Reads(d, last, s, x, TRUE)
  <2>1. b.status = EXITED => Reads(d, r4, s, x, TRUE)
    BY <1>12
  <2>2. b.status # EXITED => Reads(d, r3, s, x, TRUE)
    BY <1>8, <1>11
  <2>3. /\ Good(d) /\ Carries(d, s) => Carries(d, p2)
        /\ Good(d) /\ Carries(d, s) /\ Whole(d, s) => Whole(d, p2)
    BY <1>14
  <2> DEFINE status == b.status
             exited == EXITED
  <2>4. Reads(d, r2, p2, status, TRUE)
    BY <1>7
  <2>5. /\ status = exited => Reads(d, r4, s, x, TRUE)
        /\ status # exited => Reads(d, r3, s, x, TRUE)
    BY <2>1, <2>2
  <2> HIDE DEF x, status, exited
  <2>6. Reads(d, IF r2.value = exited THEN r4 ELSE r3, s, x, TRUE)
    BY <1>4, <1>5, <2>3, <2>4, <2>5, ChosenReads
  <2> QED
    BY <2>6 DEF exited
<1>16. ASSUME Good(d), Carries(d, s), Whole(d, s) PROVE v = y
  <2>1. r3.value = b.visibility
    BY <1>8, <1>13, <1>16 DEF Reads, Decoded, Decoder
  <2>2. r2.value = b.status
    BY <1>7, <1>14, <1>16 DEF Reads, Decoded, Decoder
  <2>3. r1.value = b.id
    BY <1>1, <1>6, <1>14, <1>16, ReadBefore DEF p2
  <2>4. b.status = EXITED => r4.value = Readable(b.outcome)
    BY <1>12, <1>16 DEF Reads, Decoded, Decoder
  <2>5. b.status # EXITED => Readable(b.outcome) = NoOutcome
    BY BulletinFields, NoOutcomeReadable
  <2> QED
    BY <2>1, <2>2, <2>3, <2>4, <2>5
<1> HIDE DEF last, v, y, x
<1>17. Reads(d, Yield(last, v), s, y, TRUE)
  BY <1>15, <1>16, YieldReads
<1> QED
  BY <1>3, <1>17, BulletinFields DEF s, y

(* A manifest is the loop of its bulletins' decoder.                        *)
StepBulletin(d, i, before) ==
  IF before.Error THEN before
  ELSE Yield(ReadBulletin(before), Append(before.value, ReadBulletin(before).value))

SlicingBulletin == INSTANCE Recursion WITH Step <- StepBulletin

(* ReadManifest runs that loop.                                            *)
LEMMA BulletinSlice ==
  ASSUME NEW d, NEW bytes, NEW xs, NEW valid, NEW n \in Nat,
         \A e : \A i \in 1 .. n : Good(e) /\ Carries(e, bytes[i]) =>
           Decoded(e, ReadBulletin(e), bytes[i], xs[i], valid[i])
  PROVE  SliceOf(DecodeParameter_Uint16(d), ReadManifest(d), bytes, xs, valid, n)
<1> DEFINE count == DecodeParameter_Uint16(d)
           slice == CHOOSE f : SlicingBulletin!Recursive(f, d, Yield(count, <<>>), count.value)
<1>1. ReadManifest(d) = slice[count.value]
  BY DEF ReadManifest, DecodeParameter__Slice16, StepBulletin, SlicingBulletin!Recursive
<1> HIDE DEF count
<1> SUFFICES ASSUME NEW m \in Nat, count.value = m
             PROVE  \E s, elements :
                      /\ SliceLoop(s, elements, count, m) /\ ReadManifest(d) = s[m]
                      /\ m = n => ElementsDecode(s, elements, bytes, xs, valid, n)
  BY DEF SliceOf, count
<1>2. SlicingBulletin!Loop(slice, d, Yield(count, <<>>), m)
  BY SlicingBulletin!Defined
<1> HIDE DEF slice
<1> DEFINE elements == [i \in 1 .. m |-> ReadBulletin(slice[i - 1])]
<1>3. \A i \in 1 .. m : elements[i] = ReadBulletin(slice[i - 1])
  OBVIOUS
<1> HIDE DEF elements
<1>4. SliceLoop(slice, elements, count, m)
  BY <1>2, <1>3 DEF SliceLoop, SlicingBulletin!Loop, StepBulletin
<1>5. m = n => ElementsDecode(slice, elements, bytes, xs, valid, n)
  BY <1>3 DEF ElementsDecode
<1> QED
  BY <1>1, <1>4, <1>5

ReadEach(bulletins) == [i \in 1 .. Len(bulletins) |-> ReadAs(bulletins[i])]

(* The client reads every bulletin of a manifest.                          *)
LEMMA ManifestReads ==
  ASSUME NEW d, NEW bulletins \in Lists(SentBulletins)
  PROVE  Reads(d, ReadManifest(d), EncodeManifest(bulletins), ReadEach(bulletins), TRUE)
<1> DEFINE n     == Len(bulletins)
           bytes == [i \in 1 .. n |-> EncodeBulletin(bulletins[i])]
           valid == [i \in 1 .. n |-> TRUE]
           xs    == ReadEach(bulletins)
           X     == {ReadAs(b) : b \in SentBulletins}
           r     == ReadManifest(d)
<1>1. /\ n \in Nat /\ n < UINT16 /\ n % UINT16 = n
      /\ bulletins \in [1 .. n -> SentBulletins] /\ DOMAIN bulletins = 1 .. n
  BY ListFacts
<1>2. EncodeManifest(bulletins) = EncodeParameter_Uint16(n) \o FlattenSeq(bytes)
  BY <1>1 DEF EncodeManifest, EncodeParameter__Slice16
<1>3. xs \in [1 .. n -> X] /\ \A i \in 1 .. n : xs[i] = ReadAs(bulletins[i])
  BY <1>1 DEF ReadEach
<1> HIDE DEF n, r, xs, X
<1>4. ASSUME NEW e, NEW i \in 1 .. n
      PROVE  Reads(e, ReadBulletin(e), EncodeBulletin(bulletins[i]), ReadAs(bulletins[i]), TRUE)
  <2>1. bulletins[i] \in SentBulletins
    BY <1>1
  <2> QED
    BY <2>1, BulletinReads
<1>5. \A i \in 1 .. n : bytes[i] = EncodeBulletin(bulletins[i]) /\ valid[i] = TRUE
  OBVIOUS
<1>6. bytes \in [1 .. n -> Seq(Bytes)] /\ valid \in [1 .. n -> BOOLEAN]
  BY <1>4 DEF Reads
<1> HIDE DEF bytes, valid
<1>7. TRUE <=> All(valid, n)
  BY <1>5 DEF All
<1>8. \A e : \A i \in 1 .. n : Good(e) /\ Carries(e, bytes[i]) =>
        Decoded(e, ReadBulletin(e), bytes[i], xs[i], valid[i])
  BY <1>3, <1>4, <1>5 DEF Reads
<1>9. SliceOf(DecodeParameter_Uint16(d), r, bytes, xs, valid, n)
  BY <1>1, <1>8, BulletinSlice DEF r
<1>10. Reads(d, r, EncodeParameter_Uint16(n) \o FlattenSeq(bytes), xs, TRUE)
  BY <1>1, <1>3, <1>6, <1>7, <1>9, SliceReads
<1> QED
  BY <1>2, <1>10 DEF r, xs

(* A frame that arrives as it was sent is read to its end.                  *)
LEMMA FrameRead ==
  ASSUME NEW code \in Uint16s, NEW body, NEW P, P = EncodeParameter_Uint16(code) \o body,
         NEW r, NEW x, Reads(Make__BinaryDecoder(P), r, body, x, TRUE)
  PROVE  ~AssertEndOfPayload(r).Error /\ r.value = x
<1> DEFINE d == Make__BinaryDecoder(P)
           c == EncodeParameter_Uint16(code)
<1>1. body \in Seq(Bytes)
  BY DEF Reads
<1>2. c \in Seq(Bytes) /\ Len(c) = 2
  BY Uint16Bytes DEF Uint16s
<1>3. /\ c \o body \in Seq(Bytes) /\ Len(body) \in Nat /\ Len(c \o body) = Len(c) + Len(body)
      /\ \A i \in 1 .. Len(body) : (c \o body)[Len(c) + i] = body[i]
  BY <1>1, <1>2, Concatenation
<1> HIDE DEF c
<1>4. /\ P \in Seq(Bytes) /\ Len(body) \in Nat /\ Len(P) = 2 + Len(body)
      /\ \A i \in 1 .. Len(body) : P[2 + i] = body[i]
  BY <1>2, <1>3 DEF c
<1>5. d.Buffer = P /\ d.Cursor = 2 /\ d.Error = FALSE
  BY DEF Make__BinaryDecoder, Decoder
<1> HIDE DEF d
<1>6. Good(d) /\ Carries(d, body) /\ Whole(d, body)
  BY <1>4, <1>5 DEF Good, Carries, Whole
<1>7. r = Decoder(P, 2 + Len(body), FALSE, x)
  BY <1>5, <1>6 DEF Reads, Decoded, d
<1>8. r.Buffer = P /\ r.Cursor = 2 + Len(body) /\ r.Error = FALSE /\ r.value = x
  BY <1>7 DEF Decoder
<1>9. AssertEndOfPayload(r) = r
  BY <1>4, <1>8 DEF AssertEndOfPayload
<1> QED
  BY <1>8, <1>9

(* Two of the messages that the client receives.                            *)
LEMMA ManifestBytes ==
  ASSUME NEW m, m.code = WORKSPACE_MANIFEST
  PROVE  EncodePayload(m) = EncodeParameter_Uint16(m.code) \o EncodeManifest(m.bulletins)
<1>1. /\ m.code # STATUS__SPAWN_PTY /\ m.code # PTY_EXIT /\ m.code # PTY_OUTPUT
      /\ m.code # TASK_START__SYNC_PTY /\ m.code # TASK_COMPLETE__SYNC_PTY
  BY DEF STATUS__SPAWN_PTY, PTY_EXIT, PTY_OUTPUT, WORKSPACE_MANIFEST, TASK_START__SYNC_PTY,
         TASK_COMPLETE__SYNC_PTY
<1> QED
  BY <1>1 DEF EncodePayload

(* And the exit message.                                                   *)
LEMMA ExitBytes ==
  ASSUME NEW m, m.code = PTY_EXIT
  PROVE  EncodePayload(m) =
           EncodeParameter_Uint16(m.code) \o
             (EncodeParameter_Uint32(m.id) \o encodeStruct__ExitOutcome(m.outcome))
<1>1. /\ m.code # STATUS__SPAWN_PTY /\ m.code # PTY_OUTPUT /\ m.code # WORKSPACE_MANIFEST
      /\ m.code # TASK_START__SYNC_PTY /\ m.code # TASK_COMPLETE__SYNC_PTY
  BY DEF STATUS__SPAWN_PTY, PTY_EXIT, PTY_OUTPUT, WORKSPACE_MANIFEST, TASK_START__SYNC_PTY,
         TASK_COMPLETE__SYNC_PTY
<1> QED
  BY <1>1 DEF EncodePayload

(* A manifest of any bulletins, of whatever lengths, is read as it was sent. *)
THEOREM ManifestReadable ==
  ASSUME NEW bulletins \in Lists(SentBulletins)
  PROVE  LET manifest == [code |-> WORKSPACE_MANIFEST, bulletins |-> bulletins]
             read     == ReadManifest(Make__BinaryDecoder(EncodePayload(manifest)))
         IN /\ ~AssertEndOfPayload(read).Error
            /\ read.value = [i \in DOMAIN bulletins |->
                               [bulletins[i] EXCEPT !.outcome = Readable(@)]]
<1> DEFINE manifest == [code |-> WORKSPACE_MANIFEST, bulletins |-> bulletins]
           P    == EncodePayload(manifest)
           body == EncodeManifest(bulletins)
           read == ReadManifest(Make__BinaryDecoder(P))
           x    == ReadEach(bulletins)
           code == WORKSPACE_MANIFEST
<1>1. code \in Uint16s
  BY Widths DEF Uint16s, WORKSPACE_MANIFEST
<1>2. P = EncodeParameter_Uint16(code) \o body
  <2>1. manifest.code = WORKSPACE_MANIFEST /\ manifest.bulletins = bulletins
    OBVIOUS
  <2> HIDE DEF manifest
  <2> QED
    BY <2>1, ManifestBytes
<1>3. Reads(Make__BinaryDecoder(P), read, body, x, TRUE)
  BY ManifestReads
<1>4. x = [i \in DOMAIN bulletins |-> [bulletins[i] EXCEPT !.outcome = Readable(@)]]
  BY ListFacts DEF ReadEach, ReadAs
<1> HIDE DEF P, body, read, x, code
<1>5. ~AssertEndOfPayload(read).Error /\ read.value = x
  BY <1>1, <1>2, <1>3, FrameRead
<1> QED
  BY <1>4, <1>5 DEF P, read

(* An exit message, of any PTY and any outcome, is read as it was sent.     *)
THEOREM ExitReadable ==
  ASSUME NEW id \in Uint32s, NEW outcome \in SentOutcomes
  PROVE  LET exit == [code |-> PTY_EXIT, id |-> id, outcome |-> outcome]
             read == ReadOutcome(DecodeParameter_Uint32(
                                   Make__BinaryDecoder(EncodePayload(exit))))
         IN ~AssertEndOfPayload(read).Error /\ read.value = Readable(outcome)
<1> DEFINE exit == [code |-> PTY_EXIT, id |-> id, outcome |-> outcome]
           P    == EncodePayload(exit)
           s    == EncodeParameter_Uint32(id)
           t    == encodeStruct__ExitOutcome(outcome)
           body == s \o t
           d    == Make__BinaryDecoder(P)
           r1   == DecodeParameter_Uint32(d)
           read == ReadOutcome(r1)
           x    == Readable(outcome)
           code == PTY_EXIT
<1>1. code \in Uint16s
  BY Widths DEF Uint16s, PTY_EXIT
<1>2. P = EncodeParameter_Uint16(code) \o body
  <2>1. exit.code = PTY_EXIT /\ exit.id = id /\ exit.outcome = outcome
    OBVIOUS
  <2> HIDE DEF exit
  <2> QED
    BY <2>1, ExitBytes
<1>3. Reads(d, r1, s, id, TRUE) /\ Reads(r1, read, t, x, TRUE)
  BY Uint32Reads, OutcomeReads DEF Uint32s
<1> HIDE DEF P, s, t, r1, read, x, code
<1>4. Reads(d, read, body, x, TRUE)
  BY <1>3, ReadsBoth
<1> HIDE DEF body
<1>5. ~AssertEndOfPayload(read).Error /\ read.value = x
  BY <1>1, <1>2, <1>4, FrameRead
<1> QED
  BY <1>5 DEF P, r1, read, x

(* What a session ends with fits the numbers of a frame.                    *)
LEMMA OutcomesFit == ExitOutcomes \subseteq SentOutcomes
BY ExitCodesAssumption, SignalNumbersAssumption, NumbersAssumption
DEF ExitOutcomes, SentOutcomes, Naturals32

BulletinOf(id, status, outcome) ==
  [id |-> id, status |-> status, visibility |-> 1, outcome |-> outcome]

(* A bulletin of the sample manifest is one the server may send.           *)
LEMMA BulletinSent ==
  ASSUME NEW id \in Uint32s, NEW status, NEW outcome,
         \/ status = EXITED /\ outcome \in SentOutcomes
         \/ status \in {SPAWNING, ACTIVE} /\ outcome = NoOutcome
  PROVE  BulletinOf(id, status, outcome) \in SentBulletins
<1>1. 1 \in Bytes
  BY ByteAssumption DEF Bytes
<1>2. EXITED \notin {SPAWNING, ACTIVE}
  BY DEF SPAWNING, ACTIVE, EXITED
<1> QED
  BY <1>1, <1>2 DEF BulletinOf, SentBulletins

(* The identifiers of the example.                                         *)
LEMMA SampleIds ==
  /\ BYTE * UINT16 \in Uint32s /\ BYTE \in Uint32s /\ 1 \in Uint32s
  /\ 19 \in Naturals32
<1>1. BYTE \in Nat /\ UINT16 \in Nat /\ BYTE >= 5 /\ UINT16 >= 25 /\ BYTE < UINT16
  BY ByteAssumption, Widths DEF UINT16
<1>2. BYTE * UINT16 \in Nat /\ BYTE * UINT16 < UINT32 /\ UINT32 \in Nat /\ UINT32 >= 625
  BY <1>1 DEF UINT32
<1>3. BYTE <= BYTE * UINT16
  BY <1>1
<1> QED
  BY <1>1, <1>2, <1>3 DEF Uint32s, Naturals32

(* The session's invariant is all that the frames need.                    *)
LEMMA FramesRead == IInv => FramesReadable
<1> SUFFICES ASSUME IInv PROVE FramesReadable
  OBVIOUS
<1> DEFINE outcome  == IF exitOrders = <<>> THEN NoOutcome ELSE exitOrders[1]
           Sample(id, status, o) == [id |-> id, status |-> status, visibility |-> 1,
                                     outcome |-> o]
           status   == CASE coordinator = "Spawning" -> SPAWNING
                         [] coordinator \in {"Active", "Canceled"} -> ACTIVE
                         [] coordinator = "Exited" -> EXITED
           own      == Sample(BYTE * UINT16, status,
                              IF coordinator = "Exited" THEN outcome ELSE NoOutcome)
           first    == Sample(BYTE, EXITED, [kind |-> "Stopped", detail |-> 19])
           last     == Sample(1, SPAWNING, NoOutcome)
           list     == <<first, own, last>>
           manifest == [code |-> WORKSPACE_MANIFEST, bulletins |-> list]
           read     == ReadManifest(Make__BinaryDecoder(EncodePayload(manifest)))
           exit     == [code |-> PTY_EXIT, id |-> BYTE * UINT16, outcome |-> outcome]
           readExit == ReadOutcome(DecodeParameter_Uint32(
                                     Make__BinaryDecoder(EncodePayload(exit))))
<1>1. exitOrders # <<>> => outcome \in SentOutcomes
  <2>1. exitOrders \in Seq(ExitOutcomes)
    BY DEF IInv, TypeOK, ActorTypeOK
  <2> QED
    BY <2>1, OutcomesFit
<1>2. coordinator \in {"Spawning", "Canceled", "Active", "Exited"}
  BY DEF IInv, TypeOK, EnvironmentTypeOK
<1>3. coordinator = "Exited" => exitOrders # <<>>
  BY DEF IInv, ExitInv
<1>4. own \in SentBulletins
  <2>1. CASE coordinator = "Exited"
    <3>1. own = BulletinOf(BYTE * UINT16, EXITED, outcome)
      BY <2>1 DEF BulletinOf
    <3> HIDE DEF own, outcome
    <3> QED
      BY <1>1, <1>3, <2>1, <3>1, BulletinSent, SampleIds
  <2>2. CASE coordinator # "Exited"
    <3>1. status \in {SPAWNING, ACTIVE} /\ own = BulletinOf(BYTE * UINT16, status, NoOutcome)
      BY <1>2, <2>2 DEF BulletinOf
    <3> HIDE DEF own, status
    <3> QED
      BY <3>1, BulletinSent, SampleIds
  <2> QED
    BY <2>1, <2>2
<1>5. first \in SentBulletins /\ last \in SentBulletins
  <2>1. [kind |-> "Stopped", detail |-> 19] \in SentOutcomes
    BY SampleIds DEF SentOutcomes
  <2>2. /\ first = BulletinOf(BYTE, EXITED, [kind |-> "Stopped", detail |-> 19])
        /\ last = BulletinOf(1, SPAWNING, NoOutcome)
    BY DEF BulletinOf
  <2> HIDE DEF first, last
  <2> QED
    BY <2>1, <2>2, BulletinSent, SampleIds
<1>6. list \in Lists(SentBulletins)
  <2> HIDE DEF first, last, own
  <2>1. list \in Seq(SentBulletins) /\ Len(list) = 3
    BY <1>4, <1>5
  <2>2. 3 < UINT16
    BY ByteAssumption, Widths DEF UINT16
  <2> QED
    BY <2>1, <2>2 DEF Lists
<1> HIDE DEF list, outcome
<1>7. /\ ~AssertEndOfPayload(read).Error
      /\ read.value = [i \in DOMAIN list |-> [list[i] EXCEPT !.outcome = Readable(@)]]
  BY <1>6, ManifestReadable
<1>8. exitOrders # <<>> => ~AssertEndOfPayload(readExit).Error /\ readExit.value = Readable(outcome)
  BY <1>1, ExitReadable, SampleIds
<1>9. manifest.bulletins = list
  OBVIOUS
<1> HIDE DEF manifest, read, readExit
<1>10. /\ ~AssertEndOfPayload(read).Error
       /\ read.value = [i \in DOMAIN manifest.bulletins |->
                          [manifest.bulletins[i] EXCEPT !.outcome = Readable(@)]]
  BY <1>7, <1>9
<1> QED
  BY <1>8, <1>10 DEF FramesReadable, manifest, read, readExit, list, outcome

(* A client reads every PTY's state from a manifest in which this one stands *)
(* between two others, and from an exit message the outcome that its        *)
(* session ended with, whatever the session has been through.               *)
THEOREM FramesAlwaysReadable == RequestSpec => []FramesReadable
BY FramesRead, SessionInvariant, PTL
=============================================================================

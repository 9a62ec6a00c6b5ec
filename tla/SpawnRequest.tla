---------------------------- MODULE SpawnRequest ----------------------------
(***************************************************************************)
(* One request from its bytes to the end of its session: the websocket     *)
(* hands over a payload, PtyMessages decodes it, a SpawnPty that decodes   *)
(* is launched by PtySpawn, and a launch that succeeds goes on as          *)
(* PtyTeardown. The frames that tell the client of the PTY are encoded by  *)
(* PtyMessages; the client that reads them is external.                    *)
(***************************************************************************)
EXTENDS PtySpawn, PtyMessages

CONSTANT Requests   \* the messages the client may send, as it means them

(* Numbers fit their fields, texts and lists their lengths of two bytes.    *)
Uint16s == 0 .. UINT16 - 1
Uint32s == 0 .. UINT32 - 1
Texts   == {text \in Seq(Bytes) : Len(text) < UINT16}
Lists(elements) == {list \in Seq(elements) : Len(list) < UINT16}
Layouts == Lists([key: Uint32s, value: Uint16s \X Uint16s])

(* A message as the client's types allow it; one with a code that the       *)
(* server does not know has nothing but its code.                          *)
WellFormed(r) ==
  CASE r.code = SPAWN_PTY ->
         r \in [code: {SPAWN_PTY}, size: Uint16s \X Uint16s, shell: Texts, directory: Texts,
               environment: Lists(Texts), options: Lists(Uint16s \X Uint32s), layout: Layouts]
    [] r.code \in {BATCH__RESIZE_PTY, BATCH__SYNC_PTY} ->
         r \in [code: {BATCH__RESIZE_PTY, BATCH__SYNC_PTY}, layout: Layouts]
    [] r.code = TERMINATE_PTY -> r \in [code: {TERMINATE_PTY}, id: Uint32s]
    [] r.code = BATCH__REMOVE_PTY ->
         r \in [code: {BATCH__REMOVE_PTY}, ids: Lists(Uint32s), layout: Layouts]
    [] r.code = WRITE_INPUT__PTY ->
         r \in [code: {WRITE_INPUT__PTY}, id: Uint32s, input: Seq(Bytes)]
    [] OTHER -> r.code \in Uint16s

ASSUME RequestsAssumption == \A r \in Requests : WellFormed(r)

(* Exit codes and signals are int32.                                       *)
ASSUME NumbersAssumption == \A n \in ExitCodes \cup SignalNumbers : 2 * n < UINT32

VARIABLES
  stage,     \* of the request: "Arrived", "Decoded" or "Executed"
  request,   \* what the client meant
  payload,   \* the bytes that arrive
  message    \* what the server has decoded

requestVars == <<stage, request, payload, message>>
allVars == <<vars, launchVars, requestVars>>

SLASH == 1   \* the byte that separates the names of a path; NUL is 0

(***************************************************************************)
(* The client's encoder (external): the counterpart of the decoder, with   *)
(* the parameters of _BinaryEncoder_WebsocketMessage_. It writes a layout   *)
(* as the list of its entries.                                             *)
(***************************************************************************)
EncodeText(text) == EncodeParameter_Uint16(Len(text) % UINT16) \o text

EncodeOption(option) == EncodeParameter_Uint16(option[1]) \o EncodeParameter_Uint32(option[2])

EncodeEntry(entry) ==
  EncodeParameter_Uint32(entry.key) \o EncodeParameter_Uint16(entry.value[1])
    \o EncodeParameter_Uint16(entry.value[2])

EncodeTexts(texts)     == EncodeParameter__Slice16(texts, EncodeText)
EncodeOptions(options) == EncodeParameter__Slice16(options, EncodeOption)
EncodeLayout(entries)  == EncodeParameter__Slice16(entries, EncodeEntry)
EncodeIds(ids)         == EncodeParameter__Slice16(ids, EncodeParameter_Uint32)

EncodeRequest(r) ==
  EncodeParameter_Uint16(r.code) \o
    (CASE r.code = SPAWN_PTY ->
            EncodeParameter_Uint16(r.size[1]) \o EncodeParameter_Uint16(r.size[2])
              \o EncodeText(r.shell) \o EncodeText(r.directory)
              \o EncodeTexts(r.environment) \o EncodeOptions(r.options) \o EncodeLayout(r.layout)
       [] r.code \in {BATCH__RESIZE_PTY, BATCH__SYNC_PTY} -> EncodeLayout(r.layout)
       [] r.code = TERMINATE_PTY -> EncodeParameter_Uint32(r.id)
       [] r.code = BATCH__REMOVE_PTY ->
            EncodeIds(r.ids) \o EncodeLayout(r.layout)
       [] r.code = WRITE_INPUT__PTY -> EncodeParameter_Uint32(r.id) \o r.input
       [] OTHER -> <<>>)

(* The payload as it was encoded, cut short, or with a byte too many.       *)
Payloads(r) ==
  LET whole == EncodeRequest(r)
  IN {whole, Append(whole, 0)} \cup {SubSeq(whole, 1, n) : n \in 0 .. Len(whole) - 1}

RequestInit ==
  /\ Init
  /\ LaunchInit
  /\ stage = "Arrived"
  /\ request \in Requests
  /\ payload \in Payloads(request)
  /\ message = Dropped

-----------------------------------------------------------------------------
(* HandlePayload_BinaryMessage__PtyWebsocket.                               *)
HandlePayload ==
  /\ stage = "Arrived"
  /\ stage' = "Decoded"
  /\ message' = DecodeWebsocketPayload(payload)
  /\ UNCHANGED <<vars, launchVars, request, payload>>

(* What check__NUL_PtyCommand and resolve__Path_ShellBinary see in the      *)
(* texts of a message. A name that is its own base name is bare; the empty *)
(* one is not, its base name is a dot.                                     *)
CommandOf(spawn) ==
  [shell |-> IF 0 \in Range(spawn.shell) THEN "nul"
             ELSE IF spawn.shell # <<>> /\ (SLASH \notin Range(spawn.shell)
                                             \/ spawn.shell = <<SLASH>>)
                  THEN "bare" ELSE "path",
   directory |-> IF 0 \in Range(spawn.directory) THEN "nul"
                 ELSE IF spawn.directory = <<>> THEN "empty" ELSE "path",
   environment |-> IF \E i \in DOMAIN spawn.environment : 0 \in Range(spawn.environment[i])
                   THEN "nul" ELSE "clean"]

(* Execute of a SpawnPty: by way of the reducer and the coordinator, which  *)
(* module Workspace models, its background spawn begins. Nobody needs the   *)
(* message any more.                                                       *)
ExecuteSpawnPty ==
  /\ stage = "Decoded"
  /\ message.code = SPAWN_PTY
  /\ stage' = "Executed"
  /\ BackgroundSpawn(CommandOf(message))
  /\ request' = Dropped /\ payload' = <<>> /\ message' = Dropped

RequestNext ==
  \/ HandlePayload
  \/ ExecuteSpawnPty
  \/ (Launch \/ Child \/ reapAbandoned \/ Session_PtyProxy) /\ UNCHANGED requestVars

(* The spawning goroutine and the reaper run, the session's goroutines once *)
(* they have been started. Nothing is assumed of client and child.         *)
RequestFairness ==
  /\ WF_allVars(Launch /\ UNCHANGED requestVars)
  /\ WF_allVars(reapAbandoned /\ UNCHANGED requestVars)
  /\ SessionFairness

RequestSpec == RequestInit /\ [][RequestNext]_allVars /\ RequestFairness

-----------------------------------------------------------------------------
(* The client (external): how it reads what concerns a PTY's end.           *)

ReadOutcome(decoder) ==
  LET disposition == DecodeParameter_Uint8(decoder)
      code   == DecodeParameter_Int32(disposition)
      signal == DecodeParameter_Int32(code)
      kind   == <<"Success", "Failure", "Killed", "Stopped", "SystemError">>[disposition.value + 1]
  IN Yield(signal,
       [kind |-> kind,
        detail |-> CASE kind = "Failure" -> code.value
                     [] kind \in {"Killed", "Stopped"} -> signal.value
                     [] OTHER -> 0])

(* The client is not told which side failed.                                *)
Readable(outcome) ==
  IF outcome.kind \in {"SystemError_Descriptor", "SystemError_Process"}
  THEN [kind |-> "SystemError", detail |-> 0]
  ELSE outcome

ReadBulletin(decoder) ==
  LET id         == DecodeParameter_Uint32(decoder)
      status     == DecodeParameter_Uint8(id)
      visibility == DecodeParameter_Uint8(status)
      outcome    == ReadOutcome(visibility)
      last       == IF status.value = EXITED THEN outcome ELSE visibility
  IN Yield(last,
       [id |-> id.value, status |-> status.value, visibility |-> visibility.value,
        outcome |-> IF status.value = EXITED THEN outcome.value ELSE NoOutcome])

ReadManifest(decoder) == DecodeParameter__Slice16(decoder, ReadBulletin)

-----------------------------------------------------------------------------
(* Properties.                                                             *)

(* Of two entries for one PTY the later one counts.                         *)
LastOfEach(entries) ==
  [id \in {entries[i].key : i \in DOMAIN entries} |->
     entries[CHOOSE i \in DOMAIN entries :
               /\ entries[i].key = id
               /\ \A j \in DOMAIN entries : entries[j].key = id => j <= i].value]

(* What the client meant: a message the server does not know is none.       *)
Meant(r) ==
  CASE r.code \in {TERMINATE_PTY, WRITE_INPUT__PTY} -> r
    [] r.code \in {BATCH__RESIZE_PTY, BATCH__SYNC_PTY, BATCH__REMOVE_PTY} ->
         [r EXCEPT !.layout = LastOfEach(@)]
    [] r.code = SPAWN_PTY /\ (\A i \in DOMAIN r.options : r.options[i][1] \in OptionCodes) ->
         [r EXCEPT !.layout = LastOfEach(@)]
    [] OTHER -> Dropped

(* A payload is executed as it was meant or not at all: one that was cut    *)
(* anywhere, or has a byte too many, never becomes another message, half   *)
(* of a list, or zeros where a parameter should be. Only input has no end   *)
(* of its own: what there is of it is written.                             *)
DecodedAsSent ==
  stage = "Decoded" =>
    message = IF request.code = WRITE_INPUT__PTY /\ Len(payload) >= 6
              THEN [request EXCEPT !.input = SubSeq(payload, 7, Len(payload))]
              ELSE IF payload = EncodeRequest(request) THEN Meant(request) ELSE Dropped

(* The bulletins of a manifest have different lengths: only an exited PTY's *)
(* carries an outcome. A client that reads a manifest with this PTY between *)
(* two others, or the exit message, gets every PTY's state and the outcome  *)
(* the session ended with.                                                 *)
FramesReadable ==
  LET outcome == IF exitOrders = <<>> THEN NoOutcome ELSE exitOrders[1]
      Bulletin(id, status, o) == [id |-> id, status |-> status, visibility |-> 1, outcome |-> o]
      own == Bulletin(BYTE * UINT16, CASE coordinator = "Spawning" -> SPAWNING
                                  [] coordinator \in {"Active", "Canceled"} -> ACTIVE
                                  [] coordinator = "Exited" -> EXITED,
                      IF coordinator = "Exited" THEN outcome ELSE NoOutcome)
      manifest == [code |-> WORKSPACE_MANIFEST,
                   bulletins |-> <<Bulletin(BYTE, EXITED, [kind |-> "Stopped", detail |-> 19]),
                                   own, Bulletin(1, SPAWNING, NoOutcome)>>]
      read == ReadManifest(Make__BinaryDecoder(EncodePayload(manifest)))
      exit == [code |-> PTY_EXIT, id |-> BYTE * UINT16, outcome |-> outcome]
      readExit == ReadOutcome(DecodeParameter_Uint32(Make__BinaryDecoder(EncodePayload(exit))))
  IN /\ ~AssertEndOfPayload(read).Error
     /\ read.value = [i \in DOMAIN manifest.bulletins |->
                        [manifest.bulletins[i] EXCEPT !.outcome = Readable(@)]]
     /\ exitOrders # <<>> =>
          ~AssertEndOfPayload(readExit).Error /\ readExit.value = Readable(outcome)
=============================================================================

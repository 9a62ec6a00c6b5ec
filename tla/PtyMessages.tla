----------------------------- MODULE PtyMessages -----------------------------
(***************************************************************************)
(* The messages between the client and the server as bytes: the decoder of *)
(* what a client sends, the encoder of what it receives. Both work on a    *)
(* payload that is a sequence of bytes, big-endian, in which text and      *)
(* lists carry their length in 16 bits.                                    *)
(*                                                                         *)
(* A byte has BYTE values instead of 256, so a length of two bytes is less *)
(* than BYTE * BYTE; everything else keeps the program's widths.           *)
(***************************************************************************)
EXTENDS Integers, Sequences, SequencesExt

CONSTANT BYTE   \* bound of the model: how many values a byte has

(* Room for every opcode in two bytes and for every disposition in one.     *)
ASSUME ByteAssumption == BYTE \in Nat /\ BYTE >= 5

Bytes == 0 .. BYTE - 1

(* How many values a number of two and of four bytes has.                  *)
UINT16 == BYTE * BYTE
UINT32 == UINT16 * UINT16

(* Numbers are big-endian.                                                 *)
FromUint8(bytes)  == bytes[1]
FromUint16(bytes) == (bytes[1] * BYTE) + bytes[2]
FromUint32(bytes) == (((bytes[1] * BYTE) + bytes[2]) * UINT16) + ((bytes[3] * BYTE) + bytes[4])

-----------------------------------------------------------------------------
(* _BinaryDecoder_WebsocketMessage_. Every operator takes a decoder and     *)
(* returns it behind the parameter, with the parameter in `value'. The     *)
(* first error stays: from then on every parameter is a zero value.        *)

Decoder(buffer, cursor, error, value) ==
  [Buffer |-> buffer, Cursor |-> cursor, Error |-> error, value |-> value]

Make__BinaryDecoder(payload) == Decoder(payload, 2, FALSE, 0)

(* The decoder with another value, and with an error.                      *)
Yield(decoder, value) == Decoder(decoder.Buffer, decoder.Cursor, decoder.Error, value)
Fail(decoder, zero)   == Decoder(decoder.Buffer, decoder.Cursor, TRUE, zero)

CanDecodeParameter(decoder, byteCount) ==
  ~decoder.Error /\ Len(decoder.Buffer) - decoder.Cursor >= byteCount

DecodeBytes(decoder, byteCount, Convert(_), zero) ==
  IF CanDecodeParameter(decoder, byteCount)
  THEN Decoder(decoder.Buffer, decoder.Cursor + byteCount, FALSE,
               Convert(SubSeq(decoder.Buffer, decoder.Cursor + 1, decoder.Cursor + byteCount)))
  ELSE Fail(decoder, zero)

DecodeParameter_Uint8(decoder)  == DecodeBytes(decoder, 1, FromUint8, 0)
DecodeParameter_Uint16(decoder) == DecodeBytes(decoder, 2, FromUint16, 0)
DecodeParameter_Uint32(decoder) == DecodeBytes(decoder, 4, FromUint32, 0)

(* The conversion uint32 to int32: the upper half is negative.             *)
DecodeParameter_Int32(decoder) ==
  LET decoded == DecodeParameter_Uint32(decoder)
      number  == decoded.value
  IN Yield(decoded, IF 2 * number >= UINT32 THEN number - UINT32 ELSE number)

(* Text and byte strings alike: the length, then that many bytes.          *)
DecodeParameter_String16(decoder) ==
  LET length == DecodeParameter_Uint16(decoder)
  IN DecodeBytes(length, length.value, LAMBDA bytes : bytes, <<>>)

(* All that is left; never an error, because the cursor stays inside.      *)
DecodeParameter_TrailingBytes(decoder) ==
  DecodeBytes(decoder, Len(decoder.Buffer) - decoder.Cursor, LAMBDA bytes : bytes, <<>>)

(* Wrong: accepts whatever follows.                                         *)
AssertEndOfPayload_Lenient(decoder) == decoder

AssertEndOfPayload(decoder) ==
  IF decoder.Cursor = Len(decoder.Buffer) THEN decoder ELSE Fail(decoder, decoder.value)

(* The count, then the elements, up to the first that fails.               *)
DecodeParameter__Slice16(decoder, Element(_)) ==
  LET count == DecodeParameter_Uint16(decoder)
      slice[i \in 0 .. count.value] ==
        IF i = 0 THEN Yield(count, <<>>)
        ELSE LET before  == slice[i - 1]
                 element == Element(before)
             IN IF before.Error THEN before
                ELSE Yield(element, Append(before.value, element.value))
  IN slice[count.value]

DecodeParameter__Slice16_String16(decoder) ==
  DecodeParameter__Slice16(decoder, DecodeParameter_String16)
DecodeParameter__Slice16_Uint32(decoder) ==
  DecodeParameter__Slice16(decoder, DecodeParameter_Uint32)

(* map[key] = value.                                                       *)
Put(map, entry) ==
  [key \in DOMAIN map \cup {entry.key} |-> IF key = entry.key THEN entry.value ELSE map[key]]

(* A slice of entries with a key each; of equal keys the last one stays.   *)
DecodeParameter__Map16(decoder, Entry(_)) ==
  LET entries == DecodeParameter__Slice16(decoder, Entry)
      map[i \in 0 .. Len(entries.value)] ==
        IF i = 0 THEN [key \in {} |-> 0] ELSE Put(map[i - 1], entries.value[i])
  IN Yield(entries, map[Len(entries.value)])

-----------------------------------------------------------------------------
(* What a client sends. The codes of the options are 1, 3 and 4.           *)

SPAWN_PTY         == 1
BATCH__RESIZE_PTY == 3
TERMINATE_PTY     == 4
BATCH__REMOVE_PTY == 6
WRITE_INPUT__PTY  == 7
BATCH__SYNC_PTY   == 10

OptionCodes == {1, 3, 4}

Dropped == [code |-> 0]

(* A message, or nothing if the decoder has met an error.                   *)
Message(decoder, message) == IF decoder.Error THEN Dropped ELSE message

LayoutEntry(decoder) ==
  LET id      == DecodeParameter_Uint32(decoder)
      columns == DecodeParameter_Uint16(id)
      rows    == DecodeParameter_Uint16(columns)
  IN Yield(rows, [key |-> id.value, value |-> <<columns.value, rows.value>>])

OrderBatch_LayoutUpdate(decoder) == DecodeParameter__Map16(decoder, LayoutEntry)

(* A code that is no option fails the whole message.                       *)
Option_PtyProxy(decoder) ==
  LET code   == DecodeParameter_Uint16(decoder)
      value  == DecodeParameter_Uint32(code)
      option == Yield(value, <<code.value, value.value>>)
  IN IF code.value \in OptionCodes THEN option ELSE Fail(option, option.value)

OptionBatch_PtyProxy(decoder) == DecodeParameter__Slice16(decoder, Option_PtyProxy)

decodePayload_SpawnPty(decoder) ==
  LET columns     == DecodeParameter_Uint16(decoder)
      rows        == DecodeParameter_Uint16(columns)
      shell       == DecodeParameter_String16(rows)
      directory   == DecodeParameter_String16(shell)
      environment == DecodeParameter__Slice16_String16(directory)
      options     == OptionBatch_PtyProxy(environment)
      layout      == OrderBatch_LayoutUpdate(options)
  IN Message(AssertEndOfPayload(layout),
       [code |-> SPAWN_PTY, size |-> <<columns.value, rows.value>>,
        shell |-> shell.value, directory |-> directory.value,
        environment |-> environment.value, options |-> options.value,
        layout |-> layout.value])

(* Resize and sync carry a layout and nothing else.                         *)
decodePayload_Layout(code, decoder) ==
  LET layout == OrderBatch_LayoutUpdate(decoder)
  IN Message(AssertEndOfPayload(layout), [code |-> code, layout |-> layout.value])

decodePayload_TerminatePty(decoder) ==
  LET id == DecodeParameter_Uint32(decoder)
  IN Message(AssertEndOfPayload(id), [code |-> TERMINATE_PTY, id |-> id.value])

decodePayload__Batch_RemovePty(decoder) ==
  LET ids    == DecodeParameter__Slice16_Uint32(decoder)
      layout == OrderBatch_LayoutUpdate(ids)
  IN Message(AssertEndOfPayload(layout),
       [code |-> BATCH__REMOVE_PTY, ids |-> ids.value, layout |-> layout.value])

decodePayload__WriteInput_Pty(decoder) ==
  LET id    == DecodeParameter_Uint32(decoder)
      input == DecodeParameter_TrailingBytes(id)
  IN Message(AssertEndOfPayload(input),
       [code |-> WRITE_INPUT__PTY, id |-> id.value, input |-> input.value])

(* __decodeWebsocketPayload_binaryMessage up to Execute: a payload without *)
(* an opcode, with an unknown one, or that does not decode is logged and    *)
(* dropped; the connection goes on.                                         *)
DecodeWebsocketPayload(payload) ==
  LET decoder == Make__BinaryDecoder(payload)
      code    == FromUint16(SubSeq(payload, 1, 2))
  IN IF Len(payload) < 2 THEN Dropped
     ELSE CASE code = SPAWN_PTY         -> decodePayload_SpawnPty(decoder)
            [] code = BATCH__RESIZE_PTY -> decodePayload_Layout(code, decoder)
            [] code = BATCH__SYNC_PTY   -> decodePayload_Layout(code, decoder)
            [] code = TERMINATE_PTY     -> decodePayload_TerminatePty(decoder)
            [] code = BATCH__REMOVE_PTY -> decodePayload__Batch_RemovePty(decoder)
            [] code = WRITE_INPUT__PTY  -> decodePayload__WriteInput_Pty(decoder)
            [] OTHER                    -> Dropped

-----------------------------------------------------------------------------
(* _BinaryEncoder_WebsocketMessage_: what each parameter appends.           *)

EncodeParameter_Uint8(number)  == <<number>>
EncodeParameter_Uint16(number) == <<number \div BYTE, number % BYTE>>
EncodeParameter_Uint32(number) ==
  EncodeParameter_Uint16(number \div UINT16) \o EncodeParameter_Uint16(number % UINT16)

(* The conversion int32 to uint32: a negative number wraps.                *)
EncodeParameter_Int32(number) == EncodeParameter_Uint32(number % UINT32)

EncodeParameter__Slice16(slice, Element(_)) ==
  EncodeParameter_Uint16(Len(slice) % UINT16)
    \o FlattenSeq([i \in DOMAIN slice |-> Element(slice[i])])

-----------------------------------------------------------------------------
(* What a client receives. A bulletin's outcome is NoOutcome unless its PTY *)
(* has exited; an outcome's detail is an exit code or a signal.             *)

STATUS__SPAWN_PTY       == 2
PTY_EXIT                == 5
PTY_OUTPUT              == 8
WORKSPACE_MANIFEST      == 9
TASK_START__SYNC_PTY    == 11
TASK_COMPLETE__SYNC_PTY == 12

SPAWNING == 0
ACTIVE   == 1
EXITED   == 2

NoOutcome == [kind |-> "None", detail |-> 0]

(* encodeStruct__ExitOutcome_PtyProxy: disposition, exit code, signal.     *)
encodeStruct__ExitOutcome(outcome) ==
  LET Struct(disposition, code, signal) ==
        EncodeParameter_Uint8(disposition) \o EncodeParameter_Int32(code)
          \o EncodeParameter_Int32(signal)
  IN CASE outcome.kind = "Success" -> Struct(0, 0, 0)
       [] outcome.kind = "Failure" -> Struct(1, outcome.detail, 0)
       [] outcome.kind = "Killed"  -> Struct(2, 0, outcome.detail)
       [] outcome.kind = "Stopped" -> Struct(3, 0, outcome.detail)
       [] outcome.kind \in {"SystemError_Descriptor", "SystemError_Process"} -> Struct(4, -1, 0)

(* Wrong: an exited PTY's bulletin without its outcome.                     *)
EncodeBulletin_NoOutcome(bulletin) ==
  EncodeParameter_Uint32(bulletin.id) \o EncodeParameter_Uint8(bulletin.status)
    \o EncodeParameter_Uint8(bulletin.visibility)

EncodeBulletin(bulletin) ==
  EncodeParameter_Uint32(bulletin.id) \o EncodeParameter_Uint8(bulletin.status)
    \o EncodeParameter_Uint8(bulletin.visibility)
    \o (IF bulletin.status = EXITED THEN encodeStruct__ExitOutcome(bulletin.outcome) ELSE <<>>)

EncodeManifest(bulletins) == EncodeParameter__Slice16(bulletins, EncodeBulletin)

EncodePayload(message) ==
  EncodeParameter_Uint16(message.code) \o
    (CASE message.code = STATUS__SPAWN_PTY ->
            EncodeParameter_Uint32(message.id) \o EncodeParameter_Uint8(message.status)
       [] message.code = PTY_EXIT ->
            EncodeParameter_Uint32(message.id) \o encodeStruct__ExitOutcome(message.outcome)
       [] message.code = PTY_OUTPUT ->
            EncodeParameter_Uint32(message.id) \o message.output
       [] message.code = WORKSPACE_MANIFEST ->
            EncodeManifest(message.bulletins)
       [] message.code \in {TASK_START__SYNC_PTY, TASK_COMPLETE__SYNC_PTY} ->
            EncodeParameter_Uint32(message.id))
=============================================================================

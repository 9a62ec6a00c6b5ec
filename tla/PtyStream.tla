------------------------------ MODULE PtyStream ------------------------------
(***************************************************************************)
(* What the data plane of a PTY promises, without buffers, queue, pool or  *)
(* timer: the output is a stream. Chunks are delivered in the order they   *)
(* were read, any number at a time, none twice and none left out; the end  *)
(* of the stream is announced once, after the last of them.                *)
(***************************************************************************)
EXTENDS Integers, Sequences

VARIABLES
  pending,     \* chunks read and not yet delivered, oldest first
  delivered,   \* chunks handed to the proxy, in order
  end          \* "open", "closed" (the reader has met its error) or "announced"

streamVars == <<pending, delivered, end>>

Init == pending = <<>> /\ delivered = <<>> /\ end = "open"

ReadChunk ==
  /\ end = "open"
  /\ pending' = Append(pending, Len(delivered) + Len(pending) + 1)
  /\ UNCHANGED <<delivered, end>>

Deliver ==
  /\ \E n \in 1 .. Len(pending) :
       /\ delivered' = delivered \o SubSeq(pending, 1, n)
       /\ pending' = SubSeq(pending, n + 1, Len(pending))
  /\ UNCHANGED end

Close ==
  /\ end = "open"
  /\ end' = "closed"
  /\ UNCHANGED <<pending, delivered>>

Announce ==
  /\ end = "closed"
  /\ pending = <<>>
  /\ end' = "announced"
  /\ UNCHANGED <<pending, delivered>>

Next == ReadChunk \/ Deliver \/ Close \/ Announce

Spec == Init /\ [][Next]_streamVars
=============================================================================

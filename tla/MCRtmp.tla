------------------------------- MODULE MCRtmp -------------------------------
(* The three layers of RTMP above the handshake, each on its own: what one *)
(* part does leaves the others where they start.                           *)
EXTENDS RtmpChunk, RtmpCommands, AmfCodec

VARIABLE part

Init ==
  /\ part \in {"chunk", "command", "amf"}
  /\ ChunkInit /\ CmdInit /\ AmfInit
  /\ part # "command" => kind = <<"own", "own">>

Next ==
  \/ part = "chunk" /\ ChunkNext /\ UNCHANGED <<part, cmdVars, amfVars>>
  \/ part = "command" /\ CmdNext /\ UNCHANGED <<part, chunkVars, amfVars>>
  \/ part = "amf" /\ AmfSend /\ UNCHANGED <<part, chunkVars, cmdVars>>

Spec == Init /\ [][Next]_<<part, chunkVars, cmdVars, amfVars>>

(* Chunk streams and contexts are what their types say *)
TypeOK == ChunkTypeOK /\ CmdTypeOK

(* SetChunkSize, two lengths of audio, video on an id of three bytes, and  *)
(* an empty message on an id of two                                        *)
MCMessages ==
  {[csid |-> 2, len |-> 1, type |-> 1, sid |-> 0], [csid |-> 3, len |-> 1, type |-> 8, sid |-> 1],
   [csid |-> 3, len |-> 3, type |-> 8, sid |-> 1], [csid |-> 400, len |-> 3, type |-> 9, sid |-> 1],
   [csid |-> 70, len |-> 0, type |-> 9, sid |-> 1]}

(* A plain tcUrl, one with a port and an instance, one with more parts *)
MCUrls ==
  {[host |-> "a", port |-> "", path |-> <<"live">>],
   [host |-> "a", port |-> "1935", path |-> <<"live", "inst">>],
   [host |-> "a", port |-> "", path |-> <<"live", "x", "y">>]}
MCStreams == {[name |-> "s", param |-> ""], [name |-> "s", param |-> "k=1"]}

(* Commands with values of every type, objects two deep, strings that hold *)
(* the bytes of an end mark, and equal names at different depths           *)
NameA == <<97>>
NameB == <<98, 9>>
MCNames == {NameA, NameB}
P(n, t, v) == [name |-> n, t |-> t, v |-> v]
Leaves(n) ==
  {P(n, "number", <<1, 0>>), P(n, "number", <<0, 5>>), P(n, "boolean", FALSE), P(n, "string", <<>>),
   P(n, "string", <<9, 0>>), P(n, "null", 0), P(n, "undefined", 0), P(n, "date", <<3, 4>>)}
Lists == {<<>>} \cup {<<p>> : p \in Leaves(NameA)} \cup {<<p, q>> : p \in Leaves(NameA), q \in Leaves(NameB)}
Trees(n) ==
  Leaves(n) \cup {P(n, t, l) : t \in {"object", "array"}, l \in Lists}
  \cup {P(n, "object", <<P(NameB, "object", l), P(NameA, "string", <<9>>)>>) :
          l \in {<<>>} \cup {<<p>> : p \in Leaves(NameA)}}
MCCommands ==
  {<<P(<<>>, "string", <<97>>), P(<<>>, "number", <<4, 0>>), x>> : x \in Trees(<<>>)}
  \cup {<<x, y>> : x \in Trees(<<>>), y \in Leaves(<<>>)}
=============================================================================

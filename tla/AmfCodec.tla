------------------------------ MODULE AmfCodec ------------------------------
(***************************************************************************)
(* AMF0, the format of RTMP commands: the encoders of AMFAny, AMFObject's  *)
(* decode, which reads a command as a list of values and an object as a    *)
(* list of named ones, and the search for a property by its name.          *)
(*                                                                         *)
(* A property is [name, t, v]; a double is eight bytes that start with     *)
(* those of its exponent, here 63, the whole part and the fraction.        *)
(***************************************************************************)
EXTENDS Integers, Sequences, SequencesExt, FiniteSets

CONSTANTS
  AmfCommands,    (* lists of properties without names                      *)
  AmfNames        (* names to search for                                    *)

VARIABLES
  amfSent,        (* the command that was encoded                           *)
  amfBytes,       (* its bytes                                              *)
  amfGot          (* what decode made of them                               *)

amfVars == <<amfSent, amfBytes, amfGot>>

ObjectEnd == <<0, 0, 9>>
-----------------------------------------------------------------------------
(* Encoding *)

Double(v) == <<63, v[1], v[2], 0, 0, 0, 0, 0>>
Text(s)   == <<0, Len(s)>> \o s

RECURSIVE EncodeNamed(_)
Encode(p) ==
  CASE p.t = "number"    -> <<0>> \o Double(p.v)
    [] p.t = "boolean"   -> <<1, IF p.v THEN 1 ELSE 0>>
    [] p.t = "string"    -> <<2>> \o Text(p.v)
    [] p.t = "object"    -> <<3>> \o EncodeNamed(p.v) \o ObjectEnd
    [] p.t = "null"      -> <<5>>
    [] p.t = "undefined" -> <<6>>
    [] p.t = "array"     -> <<8, 0, 0, 0, Len(p.v)>> \o EncodeNamed(p.v) \o ObjectEnd
    [] p.t = "date"      -> <<11>> \o Double(p.v) \o <<0, 0>>

EncodeNamed(ps) == FlattenSeq([i \in 1 .. Len(ps) |-> Text(ps[i].name) \o Encode(ps[i])])
EncodeList(ps)  == FlattenSeq([i \in 1 .. Len(ps) |-> Encode(ps[i])])
-----------------------------------------------------------------------------
(* Decoding: from position p of d, which ends where the message ends *)

LeftOfRest(d, p) == Len(d) - p - 1             (* mutant: the type byte counts twice *)
Left(d, p)   == Len(d) - p
NameAt(d, p) == SubSeq(d, p + 3, p + 2 + d[p + 2])
Prop(name, t, v) == <<[name |-> name, t |-> t, v |-> v]>>
Fails == [next |-> -1, props |-> <<>>]
Takes(p, props) == [next |-> p, props |-> props]

(* A number is read as a double and returned as an unsigned integer *)
Number(d, p) == <<d[p + 2], 0>>

(* The value after its type: its sub-decoder, or decode of a nested object *)
RECURSIVE Decode(_, _, _)
DecodeValue(d, p, name) ==
  LET type == d[p + 1] at == p + 1 IN
  CASE type = 0 -> IF Left(d, at) < 8 THEN Fails ELSE Takes(at + 8, Prop(name, "number", Number(d, at)))
    [] type = 1 -> IF Left(d, at) < 1 THEN Fails ELSE Takes(at + 1, Prop(name, "boolean", d[at + 1] # 0))
    [] type = 2 -> IF Left(d, at) < 2 \/ Left(d, at) < d[at + 2] + 2 THEN Fails
                   ELSE Takes(at + 2 + d[at + 2], Prop(name, "string", NameAt(d, at)))
    [] type \in {3, 8} ->
         LET r == Decode(d, IF type = 3 THEN at ELSE at + 4, TRUE) IN
           IF r.next = -1 THEN Fails ELSE Takes(r.next, Prop(name, "object", r.props))
    [] type = 5 -> Takes(at, Prop(<<>>, "null", 0))
    [] type = 11 -> IF Left(d, at) < 10 THEN Fails ELSE Takes(at + 10, Prop(name, "date", Number(d, at)))
    [] OTHER -> Takes(at, <<>>)

Decode(d, p, has) ==
  IF Left(d, p) < 3 THEN Takes(p, <<>>)
  ELSE IF SubSeq(d, p + 1, p + 3) = ObjectEnd THEN Takes(p + 3, <<>>)
  ELSE LET name == IF has THEN NameAt(d, p) ELSE <<>>
           at   == IF name = <<>> THEN p ELSE p + 2 + Len(name)
       IN  IF d[at + 1] = 9 THEN Takes(at + 1, <<>>)
           ELSE LET one == DecodeValue(d, at, name) IN
                  IF one.next = -1 THEN Fails
                  ELSE LET rest == Decode(d, one.next, has) IN
                         IF rest.next = -1 THEN Fails ELSE Takes(rest.next, one.props \o rest.props)
-----------------------------------------------------------------------------
(* property(name): an object is searched when the search comes to it *)

RECURSIVE Property(_, _)
Property(ps, name) ==
  IF ps = <<>> THEN <<>>
  ELSE IF Head(ps).name = name THEN <<Head(ps)>>
  ELSE LET in == IF Head(ps).t = "object" THEN Property(Head(ps).v, name) ELSE <<>> IN
         IF in # <<>> THEN in ELSE Property(Tail(ps), name)

AmfInit == amfSent = <<>> /\ amfBytes = <<>> /\ amfGot = Takes(0, <<>>)

(* sendConnect, sendPlay and the like; then handleAmfCommand of the peer *)
AmfSend ==
  amfSent = <<>> /\ \E ps \in AmfCommands :
    /\ amfSent' = ps
    /\ amfBytes' = EncodeList(ps)
    /\ amfGot' = Decode(EncodeList(ps), 0, FALSE)
-----------------------------------------------------------------------------
(* Properties *)

(* What a value is after the way: a number without its fraction, an array  *)
(* an object, null without its name, undefined nothing.                    *)
RECURSIVE Arrives(_)
Arrives(ps) ==
  FlattenSeq([i \in 1 .. Len(ps) |->
    LET p == ps[i] IN
      CASE p.t \in {"number", "date"}  -> <<[p EXCEPT !.v = <<@[1], 0>>]>>
        [] p.t \in {"object", "array"} -> Prop(p.name, "object", Arrives(p.v))
        [] p.t = "null"                -> Prop(<<>>, "null", 0)
        [] p.t = "undefined"           -> <<>>
        [] OTHER                       -> <<p>>])

(* Values whose encoding is at the end of a message and shorter than an    *)
(* end mark are not read.                                                  *)
Unread(ps) ==
  Cardinality({i \in 1 .. Len(ps) : Len(EncodeList(SubSeq(ps, i, Len(ps)))) < 3})

RECURSIVE InOrder(_)
InOrder(ps) ==
  FlattenSeq([i \in 1 .. Len(ps) |->
    <<ps[i]>> \o (IF ps[i].t = "object" THEN InOrder(ps[i].v) ELSE <<>>)])

(* property(name) finds the first one in the order of the message, which   *)
(* handleConnect needs for tcUrl wherever the object is.                   *)
Found(name) ==
  LET all == SelectSeq(InOrder(amfGot.props), LAMBDA p : p.name = name) IN
    Property(amfGot.props, name) = IF all = <<>> THEN <<>> ELSE <<Head(all)>>

(* Nested objects, their end marks and lengths are found again: what the   *)
(* peer reads is what was written, and every name is found in it           *)
(* (AMFObject::decode, property).                                          *)
AmfArrives ==
  /\ amfGot.props = Arrives(SubSeq(amfSent, 1, Len(amfSent) - Unread(amfSent)))
  /\ amfGot.next \in Len(amfBytes) - 2 .. Len(amfBytes)
  /\ \A name \in AmfNames : Found(name)
=============================================================================

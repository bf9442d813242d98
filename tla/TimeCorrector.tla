---------------------------- MODULE TimeCorrector ----------------------------
(***************************************************************************)
(* TimeCorrector: the corrector of a LiveStream (addPacket) and, behind    *)
(* it, the corrector of a player (RtmpPlayerUser::pushFrame), which is     *)
(* given the first one's timestamps.                                       *)
(***************************************************************************)
EXTENDS Integers

CONSTANTS
  Half,                 (* half of the values of a uint32_t (2^31)          *)
  FrameTimes,           (* timestamps a source may give                     *)
  MaxDelta,             (* kMaxVideoDeltaTime, kMaxAudioDeltaTime (100)     *)
  VideoDelta,           (* kDefaultVideoDeltaTime (40)                      *)
  AudioDelta,           (* kDefaultAudioDeltaTime (20)                      *)
  MaxFrames             (* bound: frames                                    *)

ASSUME TimeAssumption ==
  /\ Half \in Nat \ {0} /\ FrameTimes \subseteq 0 .. 2 * Half - 1 /\ MaxFrames \in Nat
  /\ MaxDelta \in Nat /\ VideoDelta \in Nat /\ AudioDelta \in Nat
  /\ VideoDelta < MaxDelta /\ AudioDelta < MaxDelta /\ MaxDelta <= Half

VARIABLES
  stream, player,       (* the correctors: [vo, vc, ao, ac, audios]         *)
  frames,               (* frames so far                                    *)
  frame,                (* history: the last one, and what became of it     *)
  even                  (* history: no frame was MaxDelta from the last     *)
                        (* video or audio that either corrector took        *)

timeVars == <<stream, player, frames, frame, even>>

Kinds == {"video", "key", "audio", "header"}

Fine(delta)       == -MaxDelta < delta /\ delta < MaxDelta
StepAlways(delta, instead) == delta                                (* mutant *)
Step(delta, instead) == IF Fine(delta) THEN delta ELSE instead
BelowZero(time)    == time                                         (* mutant *)
NotBelowZero(time) == IF time < 0 THEN 0 ELSE time

WithVideo(c, original, corrected, audios) ==
  [c EXCEPT !.vo = original, !.vc = corrected, !.audios = audios]
WithAudio(c, original, corrected, audios) ==
  [c EXCEPT !.ao = original, !.ac = corrected, !.audios = audios]

AudioByAudio(c, time) ==
  WithAudio(c, time,
            IF c.ao = -1 THEN time ELSE NotBelowZero(c.ac + Step(time - c.ao, AudioDelta)), c.audios + 1)

AudioByVideo(c, time) ==
  IF c.audios > 0 THEN AudioByAudio(c, time)
  ELSE WithAudio(c, time,
                 IF c.vo = -1 THEN time ELSE NotBelowZero(c.vc + Step(time - c.vo, VideoDelta)), 1)

(* A difference of two timestamps as an int32_t *)
Int32(d) == IF d >= Half THEN d - 2 * Half ELSE IF d < -Half THEN d + 2 * Half ELSE d

(* Where the first video starts: at its own timestamp, or at the audio's   *)
FirstVideo(c, time) ==
  IF c.vo # -1 THEN c
  ELSE IF c.ao # -1 /\ ~Fine(Int32(c.ao - time)) THEN WithVideo(c, c.ao, c.ac, c.audios)
  ELSE WithVideo(c, time, time, c.audios)

VideoKeepsOriginal(c, time) ==                                     (* mutant *)
  LET s == FirstVideo(c, time) IN
    WithVideo(s, s.vo, NotBelowZero(s.vc + Step(time - s.vo, VideoDelta)), 0)

VideoByVideo(c, time) ==
  LET s == FirstVideo(c, time) IN
    WithVideo(s, time, NotBelowZero(s.vc + Step(time - s.vo, VideoDelta)), 0)

(* A frame's type is compared with "video" and "audio", and the stream     *)
(* adds the key frame's mark to it behind its own corrector: kind is what  *)
(* the corrector is given.                                                 *)
Correct(c, kind, time) ==
  CASE kind = "video" -> VideoByVideo(c, time)
    [] kind = "audio" -> AudioByVideo(c, time)
    [] OTHER -> c

(* The answer is a uint32_t *)
Corrected(c, kind) ==
  CASE kind = "video" -> c.vc % (2 * Half) [] kind = "audio" -> c.ac % (2 * Half) [] OTHER -> 0

AtStream(kind) == IF kind = "key" THEN "video" ELSE kind

Close(c, kind, time) ==
  kind \in {"video", "audio"} => \A last \in {c.vo, c.ao} \ {-1} : Fine(time - last)

Frame(kind, time) ==
  LET s  == Correct(stream, AtStream(kind), time)
      st == Corrected(s, AtStream(kind))
      p  == Correct(player, kind, st)
  IN  /\ frames < MaxFrames
      /\ frames' = frames + 1
      /\ stream' = s /\ player' = p
      /\ frame' = [kind |-> kind, source |-> time, stream |-> st, player |-> Corrected(p, kind)]
      /\ even' = (even /\ Close(stream, AtStream(kind), time) /\ Close(player, kind, st))

TimeInit ==
  /\ stream = [vo |-> -1, vc |-> -1, ao |-> -1, ac |-> -1, audios |-> 0] /\ player = stream
  /\ frames = 0 /\ even = TRUE
  /\ frame = [kind |-> "header", source |-> 0, stream |-> 0, player |-> 0]

TimeNext == \E kind \in Kinds, time \in FrameTimes : Frame(kind, time)

TimeSpec == TimeInit /\ [][TimeNext]_timeVars
-----------------------------------------------------------------------------
(* Properties *)

Corrector == [vo : Int, vc : Int, ao : Int, ac : Int, audios : Nat]

(* The answers are unsigned: no corrected timestamp is below zero, however *)
(* far back a source goes, and only a corrector's start is -1.             *)
TimeTypeOK ==
  /\ frames \in 0 .. MaxFrames /\ even \in BOOLEAN
  /\ \A c \in {stream, player} :
       /\ c \in Corrector
       /\ c.vc >= -1 /\ (c.vo # -1 => c.vc >= 0) /\ c.ac >= -1 /\ (c.ao # -1 => c.ac >= 0)
  /\ frame.kind \in Kinds /\ {frame.source, frame.stream, frame.player} \subseteq 0 .. 2 * Half - 1

(* A source without jumps is left as it is by both correctors, but for the *)
(* key frames, which the player's corrector does not know and sends with   *)
(* timestamp 0.                                                            *)
EvenUnchanged ==
  even /\ frame.kind # "header" =>
    frame.stream = frame.source /\ frame.player = (IF frame.kind = "key" THEN 0 ELSE frame.source)

(* However far the source jumps, a corrected timestamp is less than        *)
(* MaxDelta from the one it is measured by: the video before for a video   *)
(* and for the first audio after it, the audio before for any other audio. *)
NoJumps ==
  [][\A c \in {<<stream, stream'>>, <<player, player'>>} :
       LET old == c[1] new == c[2] IN
         /\ old.vo # -1 => Fine(new.vc - old.vc)
         /\ new.audios = 1 /\ old.audios = 0 /\ old.vo # -1 => Fine(new.ac - old.vc)
         /\ new.audios > 1 => Fine(new.ac - old.ac)]_timeVars
=============================================================================

-------------------------------- MODULE WebCodecs --------------------------------
(***************************************************************************)
(* WebCodecs (src/src/js/webcodecs.rs): frames, audio data and chunks, and *)
(* the four codecs over them.  A codec runs ffmpeg to its end within the   *)
(* call and then calls output; what output calls are steps of their own.   *)
(* Script objects carry ids only; the registries hold what they stand for, *)
(* so an object may outlive its entry, and its state property is a copy.   *)
(***************************************************************************)
EXTENDS Integers, Sequences

CONSTANTS MaxMedia, MaxCodecs, MaxData   \* bounds

Bounds == {MaxMedia, MaxCodecs, MaxData} \subseteq Nat

Empty == 0   \* what ffmpeg made of an input it failed on
VideoCodecs == {"VideoEncoder", "VideoDecoder"}
AudioCodecs == {"AudioEncoder", "AudioDecoder"}
Takes == [VideoEncoder |-> "frame", VideoDecoder |-> "chunk",
          AudioEncoder |-> "audio", AudioDecoder |-> "chunk"]
Gives == [VideoEncoder |-> "chunk", VideoDecoder |-> "frame",
          AudioEncoder |-> "chunk", AudioDecoder |-> "audio"]

VARIABLE codec
(* codec.media, codec.codecs: the registries, by id; codec.data: data made so far.
   History: of each codec, the data it took and gave, and how many when it was closed. *)

Init == codec = [media |-> <<>>, codecs |-> <<>>, data |-> 0]

Media == DOMAIN codec.media
Codec == DOMAIN codec.codecs
Room == Len(codec.media) < MaxMedia
Inserted(x, kind, data) == [x EXCEPT !.media = Append(@, [kind |-> kind, data |-> data, live |-> TRUE])]

----------------------------------------------------------------------------
(* Media. *)

New(kind) ==
  /\ Room /\ codec.data < MaxData
  /\ codec' = Inserted([codec EXCEPT !.data = @ + 1], kind, codec.data + 1)

NewVideoFrame == New("frame")
NewAudioData == New("audio")
NewEncodedChunk == New("chunk")

\* clone: an entry of its own, null when the original is closed.
CloneMedia(kind) ==
  \E m \in Media :
    /\ codec.media[m].kind = kind /\ codec.media[m].live /\ Room
    /\ codec' = Inserted(codec, kind, codec.media[m].data)

\* close removes the entry; chunks have no close.
CloseMedia(kind) ==
  \E m \in Media :
    /\ codec.media[m].kind = kind /\ codec.media[m].live
    /\ codec' = [codec EXCEPT !.media[m].live = FALSE]

CloneVideoFrame == CloneMedia("frame")
CloseVideoFrame == CloseMedia("frame")
CloneAudioData == CloneMedia("audio")
CloseAudioData == CloseMedia("audio")

----------------------------------------------------------------------------
(* Codecs.  state is the property of the script's object. *)

NewCodec(kind) ==
  /\ Len(codec.codecs) < MaxCodecs
  /\ codec' = [codec EXCEPT !.codecs = Append(@,
       [kind |-> kind, configured |-> FALSE, closed |-> FALSE, state |-> "unconfigured",
        took |-> <<>>, gave |-> <<>>, atClose |-> 0])]

NewVideoCodec == \E kind \in VideoCodecs : NewCodec(kind)
NewAudioCodec == \E kind \in AudioCodecs : NewCodec(kind)

Of(kinds) == {c \in Codec : codec.codecs[c].kind \in kinds}

\* configure, also of a closed codec: its object then says configured.
Configure(kinds) ==
  \E c \in Of(kinds) :
    codec' = [codec EXCEPT !.codecs[c] = [@ EXCEPT !.configured = TRUE, !.state = "configured"]]
Reset(kinds) ==
  \E c \in Of(kinds) :
    codec' = [codec EXCEPT !.codecs[c] = [@ EXCEPT !.configured = FALSE, !.state = "unconfigured"]]
\* How much a codec had given when it was first closed.
closedAt(s) == IF s.closed THEN s.atClose ELSE Len(s.gave)
Close(kinds) ==
  \E c \in Of(kinds) :
    codec' = [codec EXCEPT !.codecs[c] =
      [@ EXCEPT !.closed = TRUE, !.state = "closed", !.atClose = closedAt(codec.codecs[c])]]

ConfigureVideo == Configure(VideoCodecs)
CloseVideo == Close(VideoCodecs)
ResetVideo == Reset(VideoCodecs)
ConfigureAudio == Configure(AudioCodecs)
CloseAudio == Close(AudioCodecs)
ResetAudio == Reset(AudioCodecs)

\* Otherwise the error callback of a video codec is called; an audio codec is silent.
Ready(c) == c.configured /\ ~c.closed

\* encode, decode: ffmpeg gets the entry's data, the output a new entry; it is made, of
\* nothing, also when ffmpeg fails.
Code(kinds) ==
  \E c \in Of(kinds), m \in Media, ok \in BOOLEAN :
    LET s == codec.codecs[c]
        data == codec.media[m].data
        out == IF ok THEN data ELSE Empty
    IN
    /\ codec.media[m].live /\ codec.media[m].kind = Takes[s.kind] /\ Ready(s) /\ Room
    /\ codec' = Inserted([codec EXCEPT !.codecs[c].took = Append(@, data), !.codecs[c].gave = Append(@, out)],
                         Gives[s.kind], out)

EncodeVideo == Code({"VideoEncoder"})
DecodeVideo == Code({"VideoDecoder"})
EncodeAudio == Code({"AudioEncoder"})
DecodeAudio == Code({"AudioDecoder"})

Next ==
  \/ NewVideoFrame \/ NewAudioData \/ NewEncodedChunk
  \/ CloneVideoFrame \/ CloseVideoFrame \/ CloneAudioData \/ CloseAudioData
  \/ NewVideoCodec \/ ConfigureVideo \/ CloseVideo \/ ResetVideo \/ EncodeVideo \/ DecodeVideo
  \/ NewAudioCodec \/ ConfigureAudio \/ CloseAudio \/ ResetAudio \/ EncodeAudio \/ DecodeAudio

Spec == Init /\ [][Next]_codec

----------------------------------------------------------------------------
(* Properties. *)

TypeOK ==
  /\ codec.data \in 0..MaxData
  /\ \A m \in Media : codec.media[m].data \in 0..codec.data
  /\ \A c \in Codec : codec.codecs[c].state \in {"unconfigured", "configured", "closed"}

\* A codec gives one output for each input, in their order and of its data unless ffmpeg
\* failed, and nothing once it was closed, whether it is configured or reset afterwards; an
\* object that says it is not configured, or closed, is right.
OutputsMatch ==
  \A c \in Codec : LET s == codec.codecs[c] IN
    /\ Len(s.gave) = Len(s.took) /\ \A i \in DOMAIN s.gave : s.gave[i] \in {Empty, s.took[i]}
    /\ s.closed => Len(s.gave) = s.atClose
    /\ s.state = "unconfigured" => ~s.configured
    /\ s.state = "closed" => s.closed

==============================================================================

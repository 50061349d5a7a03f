---------------------------- MODULE EncoderProbe ----------------------------
(***************************************************************************)
(* How the host picks its encoder (video.cpp: probe_encoders() and         *)
(* validate_encoder()) and what it then tells clients it can encode        *)
(* (nvhttp.cpp: get_codec_mode_flags()).                                   *)
(*                                                                         *)
(* A probe runs up to three searches over the encoders of the platform,    *)
(* each validating the encoders in turn.  Validation opens the display     *)
(* again for every feature it tests, and a display can be gone at any of   *)
(* these moments.  What an encoder can really do is `gpu`; what the code   *)
(* remembers of it is `caps`.                                              *)
(***************************************************************************)
EXTENDS Integers, Sequences

CONSTANTS Works,      \* the values of gpu
          Wanted,     \* configurations: [hevc, av1 |-> 0..5, encoder |-> a name or NoEncoder]
          NoEncoder,
          MaxProbe,   \* bound: probes of a behaviour
          MaxChange   \* bound: times the display or the driver changes

VARIABLES gpu,        \* the platform ("windows", "linux" or "macos"), the vendor of the card,
                      \* its version of AMF, and what it can:
                      \* [encoder |-> [codec |-> the configurations that open]]
          wanted,     \* config::video
          plugged,    \* is there a display to capture
          current,    \* no driver changed since needs_encoder_reenumeration() was asked
          chosen,     \* chosen_encoder
          previous,   \* previous_encoder
          hevcMode,   \* active_hevc_mode
          av1Mode,    \* active_av1_mode
          yuv444,     \* last_encoder_probe_supported_yuv444_for_codec
          caps,       \* [encoder |-> [codec |-> capabilities]]
          search,     \* the search under way, or "idle"
          list, pos,  \* encoder_list, and the encoder the search is at
          test,       \* the next feature test of that encoder, 0 before the first
          lost,       \* a validation of this probe found no display
          replaced,   \* the driver was replaced since the last probe began
          probes, changes

probeVars == <<gpu, wanted, plugged, current, chosen, previous, hevcMode, av1Mode, yuv444,
               caps, search, list, pos, test, lost, replaced, probes, changes>>

-----------------------------------------------------------------------------
(* The encoders of the platforms: who opens them, the memory they take, their *)
(* formats (SDR, HDR, SDR and HDR in 4:4:4), the end of their codecs' names,  *)
(* the flags the probe looks at and the codecs with options to fall back on.  *)

Row(memory, pix, family, flags, fallback) ==
  [api |-> "avcodec", memory |-> memory, family |-> family, flags |-> flags,
   fallback |-> fallback, codecs |-> {"h264", "hevc", "av1"},
   pix |-> [sdr |-> pix[1], hdr |-> pix[2], full |-> pix[3], fullHdr |-> pix[4]]]

nvenc == [Row("dxgi", <<"nv12", "p010", "ayuv", "yuv444p16">>, "nvenc", {"YUV444_SUPPORT"}, {})
            EXCEPT !.api = "nvenc"]
nvencOfCuda ==
  Row("cuda", <<"nv12", "p010", "yuv444p", "yuv444p16">>, "nvenc", {"YUV444_SUPPORT"}, {})
quicksync ==
  Row("dxgi", <<"nv12", "p010", "ayuv", "y410">>, "qsv", {"YUV444_SUPPORT"}, {"h264", "hevc"})
amdvce == Row("dxgi", <<"nv12", "p010", "unknown", "unknown">>, "amf", {}, {"h264"})
mediafoundation == Row("dxgi", <<"nv12", "unknown", "unknown", "unknown">>, "mf", {}, {})
software ==
  [Row("system", <<"yuv420p", "yuv420p10", "yuv444p", "unknown">>, "x264",
       {"H264_ONLY", "ALWAYS_REPROBE", "YUV444_SUPPORT"}, {}) EXCEPT !.codecs = {"h264", "hevc"}]
vaapi == Row("vaapi", <<"nv12", "p010", "unknown", "unknown">>, "vaapi", {}, {})
vulkan == Row("vulkan", <<"nv12", "p010", "unknown", "unknown">>, "vulkan", {}, {})
videotoolbox ==
  Row("videotoolbox", <<"nv12", "p010", "unknown", "unknown">>, "videotoolbox", {}, {"h264"})

\* Those of a platform in the order they are tried.
Encoders == IF gpu.platform = "windows"
            THEN <<"nvenc", "quicksync", "amdvce", "mediafoundation", "software">>
            ELSE IF gpu.platform = "linux" THEN <<"nvenc", "vulkan", "vaapi", "software">>
            ELSE <<"videotoolbox", "software">>

Of == [nvenc |-> IF gpu.platform = "windows" THEN nvenc ELSE nvencOfCuda,
       quicksync |-> quicksync, amdvce |-> amdvce, mediafoundation |-> mediafoundation,
       software |-> software, vaapi |-> vaapi, vulkan |-> vulkan, videotoolbox |-> videotoolbox]

Encoder == {"nvenc", "quicksync", "amdvce", "mediafoundation", "software", "vaapi", "vulkan",
            "videotoolbox"}
Codec == {"h264", "hevc", "av1"}
Capability == {"PASSED", "REF_FRAMES_RESTRICT", "YUV444", "DYNAMIC_RANGE",
               "DYNAMIC_RANGE_YUV444"}

\* In gpu, "PASSED" is a session with automatic reference frames that encodes,
\* "REF_FRAMES_RESTRICT" one with a single reference frame, and "SECOND_TRY"
\* says that the codec only opens with other options.
GpuConfig == Capability \union {"SECOND_TRY"}

Init == /\ gpu \in Works /\ wanted \in Wanted
        /\ plugged = TRUE /\ current = FALSE /\ chosen = NoEncoder /\ previous = NoEncoder
        /\ hevcMode = 0 /\ av1Mode = 0 /\ yuv444 = {}
        /\ caps = [e \in Encoder |-> [c \in Codec |-> {}]]
        /\ search = "idle" /\ list = <<>> /\ pos = 1 /\ test = 0 /\ lost = FALSE
        /\ replaced = FALSE /\ probes = 0 /\ changes = 0

-----------------------------------------------------------------------------
(* The world *)

\* A monitor is unplugged, or plugged in again.
Plug == /\ changes < MaxChange /\ changes' = changes + 1
        /\ plugged' = ~plugged
        /\ UNCHANGED <<gpu, wanted, current, chosen, previous, hevcMode, av1Mode, yuv444,
                       caps, search, list, pos, test, lost, replaced, probes>>

\* Between two probes the driver is replaced: the encoders can do something else.
NewDriver == /\ search = "idle" /\ probes > 0
             /\ changes < MaxChange /\ changes' = changes + 1
             /\ gpu' \in {g \in Works : g.platform = gpu.platform /\ g.vendor = gpu.vendor}
             /\ current' = FALSE /\ replaced' = TRUE
             /\ UNCHANGED <<wanted, plugged, chosen, previous, hevcMode, av1Mode, yuv444,
                            caps, search, list, pos, test, lost, probes>>

-----------------------------------------------------------------------------
(* probe_encoders(): the searches *)

Enter(name) == search' = name /\ pos' = 1 /\ test' = 0

\* An encoder that was good is only asked again after the driver changed.
Reenumerates == chosen # NoEncoder /\ "ALWAYS_REPROBE" \notin Of[chosen].flags

\* allow_encoder_probing() wants an active display.
Begin == /\ search = "idle" /\ probes < MaxProbe /\ plugged
         /\ Reenumerates => ~current
         /\ current' = (Reenumerates \/ current)
         /\ previous' = chosen /\ chosen' = NoEncoder
         /\ hevcMode' = wanted.hevc /\ av1Mode' = wanted.av1
         /\ Enter("configured") /\ list' = Encoders
         /\ lost' = FALSE /\ replaced' = FALSE /\ probes' = probes + 1
         /\ UNCHANGED <<gpu, wanted, plugged, yuv444, caps, changes>>

AtEnd == pos > Len(list)
This == list[pos]

\* The first search only wants the encoder the user named.
PassOver == /\ search = "configured" /\ ~AtEnd /\ This # wanted.encoder
            /\ pos' = pos + 1
            /\ UNCHANGED <<gpu, wanted, plugged, current, chosen, previous, hevcMode, av1Mode,
                           yuv444, caps, search, list, test, lost, replaced, probes, changes>>

\* A search that found nothing makes place for the next one; after the last
\* there is no encoder.
NextSearch ==
  /\ search # "idle" /\ AtEnd
  /\ CASE search = "configured" /\ (hevcMode >= 2 \/ av1Mode >= 2) -> Enter("constrained")
       [] search = "configured" /\ ~(hevcMode >= 2 \/ av1Mode >= 2) -> Enter("fallback")
       [] search = "constrained" -> Enter("fallback")
       [] OTHER -> Enter("idle")
  /\ UNCHANGED <<gpu, wanted, plugged, current, chosen, previous, hevcMode, av1Mode, yuv444,
                 caps, list, lost, replaced, probes, changes>>

-----------------------------------------------------------------------------
(* validate_encoder() *)

Expected == previous # NoEncoder /\ previous # This

IsHdr(config) == config \in {"DYNAMIC_RANGE", "DYNAMIC_RANGE_YUV444"}
IsFull(config) == config \in {"YUV444", "DYNAMIC_RANGE_YUV444"}

\* is_codec_supported(): on Windows a card in whose memory the screen is
\* captured takes the encoder of its vendor only; a screen in system memory, an
\* unknown card and every other platform take all.
IsSupported(e, codec, config) ==
  LET family == Of[e].family
  IN  \/ gpu.platform # "windows" \/ Of[e].memory = "system" \/ gpu.vendor = "other"
      \/ gpu.vendor = "nvidia" /\ family = "nvenc"
      \/ gpu.vendor = "qualcomm" /\ family = "mf"
      \/ gpu.vendor = "intel" /\ family = "qsv" /\ (IsFull(config) => codec = "hevc")
      \/ /\ gpu.vendor = "amd" /\ family = "amf"
         /\ codec = "av1" => gpu.amf = "1.4.30"
         /\ IsHdr(config) => gpu.amf # "old"

\* The format of a configuration, and the views that Direct3D draws it through;
\* another format has none.
PixelFormat(e, config) ==
  CASE config = "DYNAMIC_RANGE_YUV444" -> Of[e].pix.fullHdr
    [] config = "YUV444" -> Of[e].pix.full
    [] config = "DYNAMIC_RANGE" -> Of[e].pix.hdr
    [] OTHER -> Of[e].pix.sdr

Views == [nv12 |-> <<"R8_UNORM", "R8G8_UNORM">>, p010 |-> <<"R16_UNORM", "R16G16_UNORM">>,
          ayuv |-> <<"R8G8B8A8_UINT">>, yuv444p16 |-> <<"R16_UINT">>,
          y410 |-> <<"R10G10B10A2_UINT">>]

\* d3d_base_encode_device::init(); what Direct3D itself refuses counts as what
\* the card cannot do.
Converts(e, config) == Of[e].memory = "dxgi" => PixelFormat(e, config) \in DOMAIN Views

\* make_encode_device(): 4:4:4 is a matter of the encoder first.
DeviceOpens(e, config) ==
  (IsFull(config) => "YUV444_SUPPORT" \in Of[e].flags) /\ Converts(e, config)

\* make_avcodec_encode_session() refuses what the capabilities of the encoder
\* deny; NVENC has no such gate.
Gate(e, codec, config) ==
  /\ IsSupported(e, codec, config)
  /\ config = "DYNAMIC_RANGE_YUV444" => "YUV444" \in caps[e][codec]

\* The options of the first and the second try to open a codec.
Options(e, codec, config, try) ==
  {"common", IF IsHdr(config) THEN "hdr" ELSE "sdr"}
  \union (IF ~IsFull(config) THEN {} ELSE IF IsHdr(config) THEN {"hdr444"} ELSE {"sdr444"})
  \union (IF try = 2 /\ codec \in Of[e].fallback THEN {"fallback"} ELSE {})

CodecOpens(e, codec, config) ==
  /\ codec \in Of[e].codecs
  /\ \E try \in 1..2 : "SECOND_TRY" \in gpu.can[e][codec] =>
                          "fallback" \in Options(e, codec, config, try)

\* The device of the encoder takes a frame of the configuration.
FrameIsSet(e, codec, config) == config \in gpu.can[e][codec]

AvcodecOpens(e, codec, config) ==
  Gate(e, codec, config) /\ CodecOpens(e, codec, config) /\ FrameIsSet(e, codec, config)

\* create_encoder() asks the card for the codec, and for 10 bits and 4:4:4 if the
\* picture has them; the driver may still refuse.
NvencOpens(e, codec, config) ==
  LET can == gpu.can[e][codec]
  IN  /\ IsHdr(config) => "DYNAMIC_RANGE" \in can
      /\ IsFull(config) => "YUV444" \in can
      /\ config \in can

\* make_encode_session()
SessionOpens(e, codec, config) ==
  IF Of[e].api = "nvenc" THEN NvencOpens(e, codec, config) ELSE AvcodecOpens(e, codec, config)

\* validate_config(): a session is made, and its first frame is an IDR frame.
Opens(e, codec, config) == DeviceOpens(e, config) /\ SessionOpens(e, codec, config)

\* A failure is expected of an encoder that is not the previous one: it is
\* tried with automatic reference frames first.
IsViable(e) == /\ IsSupported(e, "h264", "PASSED")
               /\ \/ Opens(e, "h264", "PASSED")
                  \/ ~Expected /\ Opens(e, "h264", "REF_FRAMES_RESTRICT")

\* The encoder leaves the list; the named one takes its search with it.
Reject ==
  /\ search # "idle" /\ ~AtEnd /\ test = 0
  /\ search = "configured" => This = wanted.encoder
  /\ ~plugged \/ ~IsViable(This)
  /\ lost' = (lost \/ ~plugged)
  /\ list' = SubSeq(list, 1, pos - 1) \o SubSeq(list, pos + 1, Len(list))
  /\ pos' = IF search = "configured" THEN Len(list) ELSE pos
  /\ caps' = [caps EXCEPT ![This] = [c \in Codec |-> Capability]]
  /\ UNCHANGED <<gpu, wanted, plugged, current, chosen, previous, hevcMode, av1Mode, yuv444,
                 search, test, replaced, probes, changes>>

\* A codec beyond H.264 is tried when it is asked for or left to the host.
Tries(e, mode) == mode >= 2 \/ (mode = 0 /\ "H264_ONLY" \notin Of[e].flags)

\* Everything is set before the tests; one that is not run leaves it set.  If
\* H.264 opened with one reference frame the other codecs must as well.
Probed(e, codec, mode) ==
  LET one == Opens(e, codec, "REF_FRAMES_RESTRICT")
      passed == one \/ (/\ ~Opens(e, "h264", "REF_FRAMES_RESTRICT")
                        /\ Opens(e, codec, "PASSED"))
  IN  IF ~Tries(e, mode) \/ ~IsSupported(e, codec, "PASSED") THEN {}
      ELSE {f \in Capability : /\ f = "PASSED" => passed
                               /\ f = "REF_FRAMES_RESTRICT" => one}

ProbedH264(e) == {f \in Capability :
                    f = "REF_FRAMES_RESTRICT" => Opens(e, "h264", "REF_FRAMES_RESTRICT")}

\* The three codecs are tried on one display.
TryCodecs ==
  /\ search # "idle" /\ ~AtEnd /\ test = 0
  /\ search = "configured" => This = wanted.encoder
  /\ plugged /\ IsViable(This)
  /\ caps' = [caps EXCEPT ![This] =
                [c \in Codec |-> IF c = "h264" THEN ProbedH264(This)
                                 ELSE Probed(This, c, IF c = "hevc" THEN hevcMode ELSE av1Mode)]]
  /\ test' = 1
  /\ UNCHANGED <<gpu, wanted, plugged, current, chosen, previous, hevcMode, av1Mode, yuv444,
                 search, list, pos, lost, replaced, probes, changes>>

Tests == << <<"h264", "YUV444">>,
            <<"hevc", "YUV444">>, <<"hevc", "DYNAMIC_RANGE">>, <<"hevc", "DYNAMIC_RANGE_YUV444">>,
            <<"av1", "YUV444">>, <<"av1", "DYNAMIC_RANGE">>, <<"av1", "DYNAMIC_RANGE_YUV444">> >>

\* What a test leaves of the capabilities of its codec: all of them, when the
\* display is gone or the codec did not pass.
Tested(e, codec, config) ==
  LET had == caps[e][codec]
      kept == IF ~plugged \/ "PASSED" \notin had THEN had
              ELSE IF IsSupported(e, codec, config) /\ Opens(e, codec, config)
                   THEN had \union {config}
                   ELSE had \ {config}
  IN  IF codec = "h264" THEN kept \ {"DYNAMIC_RANGE", "DYNAMIC_RANGE_YUV444"} ELSE kept

\* The display is opened again for each test.
Feature ==
  /\ test \in 1..Len(Tests)
  /\ LET codec == Tests[test][1]
     IN  caps' = [caps EXCEPT ![This][codec] = Tested(This, codec, Tests[test][2])]
  /\ lost' = (lost \/ ~plugged)
  /\ test' = test + 1
  /\ UNCHANGED <<gpu, wanted, plugged, current, chosen, previous, hevcMode, av1Mode, yuv444,
                 search, list, pos, replaced, probes, changes>>

-----------------------------------------------------------------------------
(* probe_encoders(): the choice *)

HasHdr(e, codec) == caps[e][codec] \intersect {"DYNAMIC_RANGE", "DYNAMIC_RANGE_YUV444"} # {}

\* The mode 2 asks for the codec, 3 for HDR, 4 for HDR in 4:4:4, 5 for both.
Lacks(e, codec, mode) == \/ mode = 5 /\ ~HasHdr(e, codec)
                         \/ mode = 4 /\ "DYNAMIC_RANGE_YUV444" \notin caps[e][codec]
                         \/ mode = 3 /\ "DYNAMIC_RANGE" \notin caps[e][codec]
                         \/ mode = 2 /\ "PASSED" \notin caps[e][codec]

\* The search with constraints also wants the codec itself for every mode.
Meets(e, codec, mode) ==
  mode >= 2 => "PASSED" \in caps[e][codec] /\ ~Lacks(e, codec, mode)

\* adjust_encoder_constraints_hevc(): the encoder wins over the codec.
AdjustHevc(e, hevc) == IF Lacks(e, "hevc", hevc) THEN 0 ELSE hevc

\* adjust_encoder_constraints_av1(), where two tests look at the mode of HEVC
\* and clear it: a mode 3 or 4 of AV1 always stays.
AdjustAv1(e, hevc, av1) ==
  IF av1 = 5 /\ ~HasHdr(e, "av1") THEN <<hevc, 0>>
  ELSE IF hevc = 4 /\ "DYNAMIC_RANGE_YUV444" \notin caps[e]["av1"] THEN <<0, av1>>
  ELSE IF hevc = 3 /\ "DYNAMIC_RANGE" \notin caps[e]["hevc"] THEN <<0, av1>>
  ELSE IF av1 = 2 /\ "PASSED" \notin caps[e]["av1"] THEN <<hevc, 0>>
  ELSE <<hevc, av1>>

\* Faulty: the tests are believed also when they did not run.
AutoModeUntested(e, codec) ==
  2 + (IF "DYNAMIC_RANGE" \in caps[e][codec] THEN 1 ELSE 0)
    + (IF "DYNAMIC_RANGE_YUV444" \in caps[e][codec] THEN 2 ELSE 0)

\* A mode left to the host becomes what the encoder passed.
AutoMode(e, codec) ==
  IF "PASSED" \notin caps[e][codec] THEN 1
  ELSE 2 + (IF "DYNAMIC_RANGE" \in caps[e][codec] THEN 1 ELSE 0)
         + (IF "DYNAMIC_RANGE_YUV444" \in caps[e][codec] THEN 2 ELSE 0)

Settled(e, codec, mode) == IF mode = 0 THEN AutoMode(e, codec) ELSE mode

Adjusted(e) == IF search = "constrained" THEN <<hevcMode, av1Mode>>
               ELSE AdjustAv1(e, AdjustHevc(e, hevcMode), av1Mode)

TestsDone == test > Len(Tests)

\* The search with constraints goes on to the next encoder.
Skip == /\ search = "constrained" /\ TestsDone
        /\ ~(Meets(This, "hevc", hevcMode) /\ Meets(This, "av1", av1Mode))
        /\ pos' = pos + 1 /\ test' = 0
        /\ UNCHANGED <<gpu, wanted, plugged, current, chosen, previous, hevcMode, av1Mode,
                       yuv444, caps, search, list, lost, replaced, probes, changes>>

Choose ==
  /\ search # "idle" /\ TestsDone
  /\ search = "constrained" => /\ Meets(This, "hevc", hevcMode)
                               /\ Meets(This, "av1", av1Mode)
  /\ chosen' = This
  /\ hevcMode' = Settled(This, "hevc", Adjusted(This)[1])
  /\ av1Mode' = Settled(This, "av1", Adjusted(This)[2])
  /\ yuv444' = {c \in Codec : {"PASSED", "YUV444"} \subseteq caps[This][c]}
  /\ Enter("idle")
  /\ UNCHANGED <<gpu, wanted, plugged, current, previous, caps, list, lost, replaced, probes,
                 changes>>

Next == \/ Plug \/ NewDriver \/ Begin \/ PassOver \/ NextSearch \/ Reject
        \/ TryCodecs \/ Feature \/ Skip \/ Choose

Spec == Init /\ [][Next]_probeVars

-----------------------------------------------------------------------------
(* What clients are told *)

\* get_codec_mode_flags(): pairs of a codec and what of it is offered.
Offers ==
  {<<"h264", "PASSED">>} \union
  {o \in {"hevc", "av1"} \X Capability :
     LET c == o[1]
         f == o[2]
         mode == IF c = "hevc" THEN hevcMode ELSE av1Mode
     IN  \/ f = "PASSED" /\ mode >= 2
         \/ f = "YUV444" /\ mode >= 2 /\ c \in yuv444
         \/ f = "DYNAMIC_RANGE" /\ mode \in {3, 5}
         \/ f = "DYNAMIC_RANGE_YUV444" /\ mode \in {4, 5} /\ c \in yuv444}

-----------------------------------------------------------------------------
(* Properties *)

TypeOK == /\ \A e \in Encoder : \A c \in Codec : gpu.can[e][c] \subseteq GpuConfig
          /\ chosen \in Encoder \union {NoEncoder} /\ previous \in Encoder \union {NoEncoder}
          /\ hevcMode \in 0..5 /\ av1Mode \in 0..5 /\ yuv444 \subseteq Codec
          /\ \A e \in Encoder : \A c \in Codec : caps[e][c] \subseteq Capability
          /\ search \in {"idle", "configured", "constrained", "fallback"}
          /\ \A i \in 1..Len(list) : list[i] \in Encoder /\ pos \in 1..(Len(Encoders) + 1)
          /\ test \in 0..(Len(Tests) + 1)

\* The last probe ran with a display all along and found an encoder.
Undisturbed == search = "idle" /\ chosen # NoEncoder /\ ~lost

\* What the chosen encoder really does with a codec, for who asks it.
Really(e, codec) ==
  {f \in gpu.can[e][codec] :
     /\ IsSupported(e, codec, f) /\ DeviceOpens(e, f)
     /\ Of[e].api = "avcodec" => CodecOpens(e, codec, f)
     /\ f = "DYNAMIC_RANGE_YUV444" => "YUV444" \in gpu.can[e][codec]}

\* A mode that was left to the host says what the encoder can do, as long as the
\* driver is the one that was asked: a client that takes an offer gets a session.
AutoIsTrue ==
  (Undisturbed /\ ~replaced) =>
     \A c \in {"hevc", "av1"} :
        (IF c = "hevc" THEN wanted.hevc ELSE wanted.av1) = 0 =>
           \A f \in Capability : <<c, f>> \in Offers =>
              f \in Really(chosen, c) \/ (f = "PASSED" /\ "REF_FRAMES_RESTRICT" \in Really(chosen, c))

\* The encoder is one with the codecs the user requires, unless the user named
\* it or no encoder has them all.
RequirementIsMet ==
  (Undisturbed /\ chosen # wanted.encoder) =>
     \/ Meets(chosen, "hevc", wanted.hevc) /\ Meets(chosen, "av1", wanted.av1)
     \/ \A i \in 1..Len(list) : ~(/\ Meets(list[i], "hevc", wanted.hevc)
                                  /\ Meets(list[i], "av1", wanted.av1))

\* "If we can't satisfy both the encoder and codec requirement, prefer the
\* encoder over codec support": after the display was there all along, HDR is
\* offered for a codec only if the tests left some HDR capability of it.
OfferIsTrue == Undisturbed =>
                  \A c \in {"hevc", "av1"} : <<c, "DYNAMIC_RANGE">> \in Offers => HasHdr(chosen, c)
=============================================================================

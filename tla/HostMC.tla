------------------------------- MODULE HostMC --------------------------------
(***************************************************************************)
(* One instance for what Sunshine does to the host and keeps on it: the    *)
(* application with its display, the input of the clients, the settings of *)
(* the driver, of the display and of the user, the state file with its key *)
(* and certificate, and the list of applications.  A behaviour picks one   *)
(* part and runs it alone, so the states of the run are the sum of theirs. *)
(***************************************************************************)
EXTENDS Integers, Sequences, TLC

CONSTANTS Prep, RevertOnDisconnect, MaxRequest,    \* of HostApp
          DriverValue, MaxCrash, MaxFail, MaxEdit, \* of NvPrefs
          Tab, Foreign, Cred, NoCred, MaxToken, MaxKill, MaxRemove,  \* of ConfigServer
          Cards, Wanted, NoEncoder, MaxProbe, MaxChange   \* of EncoderProbe

ASSUME HostAssumption ==
  /\ Prep \in Nat /\ MaxRequest \in Nat
  /\ DriverValue \cap {"on", "unset", "nofile", "torn", "noundo"} = {}
  /\ MaxCrash \in Nat /\ MaxFail \in Nat /\ MaxEdit \in Nat
  /\ Foreign \subseteq Tab /\ NoCred \notin Cred
  /\ MaxToken \in Nat /\ MaxKill \in Nat /\ MaxRemove \in Nat
  /\ MaxProbe \in Nat /\ MaxChange \in Nat

VARIABLES part,
          \* HostApp
          known, child, prepIt, term, pc, mustRevert, requests, pending, session, slots,
          display, sched, effects, crashed, overlapped, forgotten, abandoned,
          \* ConfigFile
          topic, file, typed, given, cmdVars, vars, setting, phase, page, wish,
          configMeant, boots, saves,
          \* DisplayMode
          setup, up, mode, saved, job, devices, api, audio, letGo, sink, displayWish,
          client, excused, launches, plugs, crashes,
          \* NvPrefs
          nvSaved, loaded, nvFile, handle, undoData, newUndo, user, nvPc, gaveUp,
          nvCrashes, fails, edits,
          \* ConfigServer
          tokensUp, cred, paired, tokensFile, key, cert, writer, token, issued, tab,
          accepted, promised, tokensExcused, answer, enabled, tokensSession,
          app, slipped, tokensCrashes, removed,
          \* AppList
          appsUp, appsFile, apps, writing, shown, listed, chosen, changed, asked,
          launched, changes,
          \* EncoderProbe
          gpu, wanted, plugged, current, encoder, previous, hevcMode, av1Mode, yuv444,
          caps, search, list, pos, test, lost, replaced, probes, probeChanges,
          \* LinuxSources
          host, linuxCaps, sources, linuxPhase, monitors, linuxChosen, valid, linuxToken,
          disk, sessions, call, names, index, linuxShown, linuxFiles, setupDone,
          createFile, exe, opened, steady, spoiled, linuxLost, linuxChanges, linuxBoots

-----------------------------------------------------------------------------
(* The options that meet *)

ConfigTopics == {{"hevc_mode", "port"}, {"nvenc_twopass", "qsv_preset"}, {"amd_quality", "unknown"},
                 {"sw_preset", "output_name"}, {"vt_software", "dd_configuration_option"},
                 {"dd_mode_remapping", "global_prep_cmd"}, {"file_state", "credentials_file"},
                 {"origin_web_ui_allowed", "csrf_allowed_origins"},
                 {"keybindings", "key_rightalt_to_key_win"}, {"upnp", "flags"}, {"min_log_level"}}

(* The hosts of LinuxSources, and the changes and runs a behaviour of one begins with *)

Host(ws, how, backends, rights, wants, shares) ==
  [ws |-> ws, capture |-> how, has |-> backends, caps |-> rights, output |-> wants, shares |-> shares,
   system |-> FALSE, writable |-> TRUE, moves |-> "kwin" \in backends]

LinuxHosts ==
  {Host("wayland", "", {"kms", "portal", "kwin"}, {"admin", "nice"}, 2, {{1, 2}}),
   Host("wayland", "portal", {"kms", "portal"}, {"admin", "nice"}, 2, {{2}}),
   Host("wayland", "kwin", {"kwin"}, {"admin", "nice"}, 2, {{1, 2}}),
   Host("wayland", "", {"portal"}, {}, 0, {{1}}),
   Host("wayland", "", {"wlr", "portal"}, {"admin"}, 0, {{1, 2}}),
   Host("x11", "", {"nvfbc", "kms", "x11", "portal"}, {"admin", "nice"}, 1, {{1, 2}})}
OneHost == CHOOSE h \in LinuxHosts : TRUE

StartAt(h) == IF h.capture = "portal" THEN <<1, 1>> ELSE IF h.has = {"portal"} THEN <<0, 1>> ELSE <<0, 0>>

(* What the user says about the display, and who launches *)

Entry(a, b, c, d) == [reqRes |-> a, reqFps |-> b, finRes |-> c, finFps |-> d]
Setup(p, r, f, h, mr, mf, l) ==
  [prep |-> p, res |-> r, fps |-> f, hdr |-> h, manualRes |-> mr, manualFps |-> mf, remap |-> l]
Both == Entry("r1", "60", "r2", "59.94")
Size == Entry("r1", "", "r3", "")
Speed == Entry("", "60", "", "30")
Wrong == {Entry("bad", "", "r3", ""), Entry("", "59.94", "r3", ""), Entry("r1", "", "", "")}
OneSetup == Setup("disabled", "auto", "auto", "auto", "", "", <<>>)
DisplaySetups ==
  {Setup("only", "auto", "auto", "auto", "", "", l) :
     l \in {<<>>, <<Both, Size>>, <<Size, Both>>, <<Speed, Size>>}
           \union {<<Size, e>> : e \in Wrong} \union {<<e, Size>> : e \in Wrong}}
  \union {OneSetup, Setup("primary", "auto", "disabled", "disabled", "", "", <<Size, Both>>),
          Setup("active", "manual", "auto", "auto", "r4", "", <<Entry("bad", "", "r3", ""), Speed>>),
          Setup("verify", "manual", "manual", "auto", "r4", "59.94", <<Entry("bad", "", "r3", "")>>),
          Setup("active", "manual", "manual", "auto", "bad", "60", <<>>),
          Setup("active", "disabled", "manual", "auto", "", "", <<>>)}

Asks(sops, res, hdr) == [sops |-> sops, res |-> res, fps |-> "60", hdr |-> hdr]
DisplayClients == {Asks(TRUE, "r1", TRUE), Asks(FALSE, "r1", FALSE), Asks(TRUE, "bad", FALSE)}

-----------------------------------------------------------------------------
App == INSTANCE HostApp WITH
  MaxLaunch <- MaxRequest

Config == INSTANCE ConfigFile WITH
  Topics <- ConfigTopics, MaxLine <- 2, MaxBoot <- 2, MaxSave <- 1, meant <- configMeant

Display == INSTANCE DisplayMode WITH
  Setups <- DisplaySetups, Clients <- DisplayClients, Device <- {1, 2}, Needed <- {1},
  MaxLaunch <- 2, MaxPlug <- 2, MaxCrash <- 1, MaxRetry <- 1, wish <- displayWish

Driver == INSTANCE NvPrefs WITH
  Value <- DriverValue, Ours <- "on", Unset <- "unset", NoFile <- "nofile",
  Torn <- "torn", NoUndo <- "noundo",
  saved <- nvSaved, file <- nvFile, pc <- nvPc, crashes <- nvCrashes

Web == INSTANCE ConfigServer WITH
  MaxCrash <- MaxKill, MayFail <- TRUE, MayOverlap <- TRUE, MayStream <- TRUE,
  up <- tokensUp, file <- tokensFile, excused <- tokensExcused, session <- tokensSession,
  crashes <- tokensCrashes

Apps == INSTANCE AppList WITH
  Names <- << <<"A">>, <<"A", 2>>, <<"B">> >>, Page <- {"p"}, MaxApps <- 3, MaxChange <- 2,
  up <- appsUp, file <- appsFile

\* Lists that nobody sorted, one with a name that is another and its position.
HandWritten == { << <<"A", 2>>, <<"A">>, <<"A">> >>, << <<"B">>, <<"A">>, <<"B">> >> }

Probe == INSTANCE EncoderProbe WITH Works <- Cards,
  chosen <- encoder, changes <- probeChanges

\* The cards and the processor of a host, and what each does with each codec.
Plain == {"PASSED"}
Hdr == Plain \union {"REF_FRAMES_RESTRICT", "DYNAMIC_RANGE"}
Full == Hdr \union {"YUV444", "DYNAMIC_RANGE_YUV444"}

Able(h, v, a) == [h264 |-> h, hevc |-> v, av1 |-> a]
Gpu(platform, vendor, amf, h, v, a, s) ==
  [platform |-> platform, vendor |-> vendor, amf |-> amf,
   can |-> [e \in {"nvenc", "quicksync", "amdvce", "mediafoundation", "software", "vaapi",
                   "vulkan", "videotoolbox"} |->
              IF e = "software" THEN Able(Plain, s, {}) ELSE Able(h, v, a)]]

Gpus ==
  {Gpu("windows", "nvidia", "none", h, v, a, s) :
     h \in {{}, Plain \union {"REF_FRAMES_RESTRICT", "YUV444"}},
     v \in {{}, Full}, a \in {Plain, Full}, s \in {{}, Full \union {"SECOND_TRY"}}}
  \union {Gpu("windows", "intel", "none", Full, Full \union {"SECOND_TRY"}, a, Plain) :
             a \in {Full, Full \union {"SECOND_TRY"}}}
  \union {Gpu("windows", "amd", f, Full, Full, Full, Full) : f \in {"old", "1.4.23", "1.4.30"}}
  \union {Gpu("windows", v, "none", Full, Full, Full, {}) : v \in {"qualcomm", "other"}}
  \union {Gpu(p, "other", "none", Hdr, Full, Hdr, {}) : p \in {"linux", "macos"}}
  \union {Gpu("linux", "other", "none", {}, {}, {}, Full)}

VideoConfigs == [hevc : {0, 3, 5}, av1 : {1, 3}, encoder : {"none", "nvenc"}]
                \union [hevc : {4}, av1 : {0, 5}, encoder : {"vaapi"}]
ASSUME ProbeAssumption ==
  /\ \A g \in Cards : \A e \in Probe!Encoder : \A c \in Probe!Codec : g.can[e][c] \subseteq Probe!GpuConfig
  /\ \A w \in Wanted : w.hevc \in 0..5 /\ w.av1 \in 0..5
  /\ NoEncoder \notin Probe!Encoder

OneGpu == CHOOSE g \in Cards : TRUE
OneConfig == CHOOSE c \in Wanted : TRUE

Linux == INSTANCE LinuxSources WITH
  Hosts <- LinuxHosts, Monitor <- {1, 2}, Plugged <- {2}, MaxToken <- 2, MaxSession <- 2,
  MaxChange <- 1, MaxBoot <- 2, caps <- linuxCaps, phase <- linuxPhase,
  chosen <- linuxChosen, token <- linuxToken, shown <- linuxShown, files <- linuxFiles,
  lost <- linuxLost, changes <- linuxChanges, boots <- linuxBoots

appVars == <<known, child, prepIt, term, pc, mustRevert, requests, pending, session, slots,
             display, sched, effects, crashed, overlapped, forgotten, abandoned>>
configVars == <<topic, file, typed, given, cmdVars, vars, setting, phase, page, wish, configMeant,
                boots, saves>>
displayVars == <<setup, up, mode, saved, job, devices, api, audio, letGo, sink, displayWish, client,
                 excused, launches, plugs, crashes>>
nvVars == <<nvSaved, loaded, nvFile, handle, undoData, newUndo, user, nvPc, gaveUp, nvCrashes,
            fails, edits>>
tokensVars == <<tokensUp, cred, paired, tokensFile, key, cert, writer, token, issued, tab, accepted,
                promised, tokensExcused, answer, enabled, tokensSession, app, slipped,
                tokensCrashes, removed>>
appsVars == <<appsUp, appsFile, apps, writing, shown, listed, chosen, changed, asked, launched,
              changes>>

probeVars == <<gpu, wanted, plugged, current, encoder, previous, hevcMode, av1Mode, yuv444, caps,
               search, list, pos, test, lost, replaced, probes, probeChanges>>
linuxVars == <<host, linuxCaps, sources, linuxPhase, monitors, linuxChosen, valid, linuxToken, disk,
               sessions, call, names, index, linuxShown, linuxFiles, setupDone,
               createFile, exe, opened, steady, spoiled, linuxLost, linuxChanges,
               linuxBoots>>

hostVars == <<part, appVars, configVars, displayVars, nvVars, tokensVars, appsVars, probeVars,
              linuxVars>>

\* Five parts look at the configuration server, each at some of its dimensions:
\* one user with two tabs and their tokens, two users, the two writers of the
\* state file, the key and the certificate, and a client that streams.
WebPart == {"tokens", "users", "files", "certs", "clients"}
OneCred == CHOOSE c \in Cred : TRUE
OneTab == CHOOSE t \in Tab \ Foreign : TRUE

WebBound ==
  /\ IF part = "files" THEN answer = <<"ok">> ELSE ~tokensExcused
  /\ part \notin {"files", "certs"} => tokensCrashes = 0
  /\ part # "certs" => removed = 0
  /\ part # "clients" => tokensSession = "none"
  /\ part = "tokens" => \A c \in Cred \ {OneCred} : promised # c /\ \A t \in Tab : tab[t].cred # c
  /\ part = "users" => issued <= 1
  /\ part \notin {"tokens", "users"} =>
       issued = 0 /\ \A t \in Tab \ {OneTab} : tab[t].cred = NoCred

HostInit ==
  /\ part \in {"app", "config", "display", "nv", "tokens", "users", "files", "certs", "clients",
               "apps", "edited", "probe", "linux"}
  /\ App!Init
  /\ Config!Init /\ IF part = "config" THEN TRUE ELSE topic = {"min_log_level"} /\ file = <<>> /\ typed = <<>>
  /\ Display!Init /\ (part # "display" => setup = OneSetup)
  /\ Driver!Init /\ (part # "nv" => user = "unset")
  /\ Web!Start0 /\ (part \notin {"tokens", "files"} => Web!Init) /\ WebBound
  /\ promised \in {NoCred, OneCred}
  /\ Apps!Init /\ (part \notin {"apps", "edited"} => appsFile = <<>>)
                /\ (part = "edited" => appsFile \in HandWritten)
  /\ (part # "probe" => gpu = OneGpu /\ wanted = OneConfig) /\ Probe!Init
  /\ Linux!Init /\ IF part = "linux" THEN <<linuxChanges, linuxBoots>> = StartAt(host)
                   ELSE host = OneHost /\ linuxChanges = 0 /\ linuxBoots = 0

\* The parts that do not run stay as they are.
Others ==
  /\ part # "app" => UNCHANGED appVars
  /\ part # "config" => UNCHANGED configVars
  /\ part # "display" => UNCHANGED displayVars
  /\ part # "nv" => UNCHANGED nvVars
  /\ part \notin WebPart => UNCHANGED tokensVars
  /\ part \notin {"apps", "edited"} => UNCHANGED appsVars
  /\ part # "probe" => UNCHANGED probeVars
  /\ part # "linux" => UNCHANGED linuxVars

HostNext ==
  /\ UNCHANGED part
  /\ \/ part = "app" /\ App!Next
     \/ part = "config" /\ Config!Next
     \/ part = "display" /\ Display!Next
     \/ part = "nv" /\ Driver!Next
     \/ part \in WebPart /\ Web!Next /\ WebBound'
     \/ part = "apps" /\ Apps!Next /\ ~Apps!HandEdit
     \/ part = "edited" /\ Apps!Next /\ ~Apps!Crash
     \/ part = "probe" /\ Probe!Next
     \/ part = "linux" /\ Linux!Next
  /\ Others

HostSpec == HostInit /\ [][HostNext]_hostVars

\* Two calls of terminate() that overlap are undefined behaviour: a behaviour
\* ends there.
NoOverlap == ~overlapped

-----------------------------------------------------------------------------
(* The properties of the parts *)

\* HostApp: the display that was changed has someone who will restore it, and
\* every preparation command that ran is undone once.  NvPrefs: what the user set
\* in the driver comes back.
HostIsRestored ==
  /\ part = "app" => App!TypeOK /\ App!DisplayHasKeeper /\ App!PrepIsUndone /\ App!IteratorStays
  /\ part = "nv" => /\ Driver!TypeOK
                    /\ Driver!UserIsRemembered /\ Driver!NothingElse /\ Driver!CleanExit

\* ConfigFile: "forced: force software encoding".
ForcedIsForced == part = "config" => Config!ForcedIsForced

\* EncoderProbe: what a probe left as "automatic" is what the encoder does, and
\* what the configuration requires is met.
ProbeIsSound ==
  part = "probe" => Probe!TypeOK /\ Probe!AutoIsTrue /\ Probe!RequirementIsMet

\* EncoderProbe: no client is offered what the encoder does not do.
OfferIsTrue == part = "probe" => Probe!OfferIsTrue

\* ConfigFile: a host that runs does what was said last about each option.
\* DisplayMode: a launch has the mode its settings give it, and the original
\* comes back.  LinuxSources: the right to see the screen is kept and given back
\* once, and the display that is shown is the one that was listed.
UserIsRemembered ==
  /\ part = "config" => /\ Config!TypeOK
                        /\ Config!LastWordCounts /\ Config!CredentialsFollow
                        /\ Config!NoneIsLeft /\ Config!BindingsAreKept
  /\ part = "display" => /\ Display!TypeOK /\ Display!JobIsTheWish
                         /\ Display!GivenBack /\ Display!RetryIsDue /\ Display!ApplyIsTried
                         /\ Display!ModeIsAsked /\ Display!AudioIsHeld
  /\ part = "linux" => /\ Linux!TypeOK /\ Linux!RightIsKept /\ Linux!SameBackend
                        /\ Linux!NamesBecomeReal /\ Linux!TokenIsGood
                        /\ Linux!SessionsAreClosed /\ Linux!ShowsTheListed
                        /\ Linux!FilesAreRight

\* ConfigServer: the two servers keep each other's part of the state file, and
\* the key and the certificate on disk belong together.
StateIsShared ==
  part \in WebPart => Web!TypeOK /\ Web!FileIsShared /\ Web!KeyIsOfCertificate

\* ConfigServer: a request is let in by the token its tab was given last, and a
\* client that is put out does not stream.
AccessIsCurrent ==
  /\ Web!TokenIsLatest
  /\ [](part \in WebPart => Web!DisabledIsOut)

\* AppList: the application that is launched is the one the client showed, and
\* the one that is changed is the one the page showed.
LaunchIsMeant ==
  /\ part \in {"apps", "edited"} => Apps!TypeOK /\ Apps!LaunchIsMeant /\ Apps!IdsAreUnique
  /\ part = "apps" => Apps!ChosenIsChanged
=============================================================================

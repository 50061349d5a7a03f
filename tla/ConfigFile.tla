----------------------------- MODULE ConfigFile -----------------------------
(***************************************************************************)
(* The settings of the host (config.cpp).  A start reads the arguments one *)
(* after the other, then the lines of the configuration file, puts the     *)
(* words of the command line over those of the file and takes option after *)
(* option from what results; the page of the configuration server shows    *)
(* the file and writes it again.                                           *)
(*                                                                         *)
(* There are some ninety options and a dozen ways to take one: Source      *)
(* names one option or two of every way, in the order of apply_config().   *)
(* A behaviour is about one topic, a few options that meet.                *)
(***************************************************************************)
EXTENDS Naturals, Sequences, FiniteSets, TLC

CONSTANTS Topics,     \* which options meet in a behaviour
          MaxLine,    \* lines and arguments that begin a behaviour, together
          MaxBoot, MaxSave  \* bounds

VARIABLES topic,
          file,       \* the lines of sunshine.conf
          typed,      \* arguments parse() has not looked at yet
          given,      \* history: those it has looked at
          cmdVars,    \* cmd_vars
          vars,       \* what apply_config() was given and has not taken
          setting,    \* config::*
          phase,      \* where the process is
          page,       \* what the page in the browser shows
          wish,       \* history: the lines the user takes for those of the file
          meant,      \* history: those when this host started
          boots, saves

configVars == <<topic, file, typed, given, cmdVars, vars, setting, phase, page, wish, meant, boots, saves>>

-----------------------------------------------------------------------------
\* What each setting is read from, in this order.
Source == << <<"hevc_mode", "hevc_mode">>, <<"sw_preset", "sw_preset">>,
             <<"nvenc_twopass", "two_pass">>, <<"qsv_preset", "qsv_preset">>,
             <<"amd_quality", "amd_quality">>, <<"vt_software", "vt_allow_sw">>,
             <<"vt_software", "vt_require_sw">>, <<"output_name", "output_name">>,
             <<"dd_configuration_option", "dd_option">>,
             <<"dd_mode_remapping", "dd_mode_remapping">>, <<"file_state", "file_state">>,
             <<"credentials_file", "credentials_file">>, <<"global_prep_cmd", "prep_cmds">>,
             <<"origin_web_ui_allowed", "origin">>, <<"csrf_allowed_origins", "csrf">>,
             <<"keybindings", "keybindings">>, <<"key_rightalt_to_key_win", "keybindings">>,
             <<"port", "port">>, <<"upnp", "UPNP">>, <<"min_log_level", "min_log_level">>,
             <<"flags", "UPNP">> >>

\* The way each option is taken: a word it does not know leaves the setting as
\* it is ("keep") or gives a fixed one ("fall").
Way == [hevc_mode |-> "keep", sw_preset |-> "text", nvenc_twopass |-> "fall",
        qsv_preset |-> "fall", amd_quality |-> "keep", vt_software |-> "fall",
        output_name |-> "text", dd_configuration_option |-> "fall",
        dd_mode_remapping |-> "json", file_state |-> "path", credentials_file |-> "path",
        global_prep_cmd |-> "commands", origin_web_ui_allowed |-> "keep",
        csrf_allowed_origins |-> "sites", keybindings |-> "pairs",
        key_rightalt_to_key_win |-> "right", port |-> "keep", upnp |-> "flip",
        min_log_level |-> "keep", flags |-> "letters"]

Name == DOMAIN Way \union {"unknown"}

\* The words the settings know.
Known == [hevc_mode |-> {"0", "3"}, two_pass |-> {"disabled", "quarter_res", "full_res"},
          qsv_preset |-> {"fast"}, amd_quality |-> {"balanced", "speed"},
          vt_allow_sw |-> {"allowed", "forced"}, vt_require_sw |-> {"forced"},
          dd_option |-> {"disabled", "ensure_active"}, origin |-> {"pc", "lan", "wan"},
          port |-> {"1019", "47989", "65514"}, min_log_level |-> {"2", "debug"}]

Fallback == [two_pass |-> "quarter_res", qsv_preset |-> "nothing", vt_allow_sw |-> "no",
             vt_require_sw |-> "no", dd_option |-> "disabled"]

Default == [hevc_mode |-> "0", sw_preset |-> <<"superfast", FALSE>>, two_pass |-> "quarter_res",
            qsv_preset |-> "medium", amd_quality |-> "balanced", vt_allow_sw |-> "no",
            vt_require_sw |-> "no", output_name |-> <<"", FALSE>>, dd_option |-> "disabled",
            dd_mode_remapping |-> "", file_state |-> <<"state", FALSE>>,
            credentials_file |-> <<"", FALSE>>, prep_cmds |-> <<>>, origin |-> "lan",
            csrf |-> {"localhost"}, keybindings |-> [k10 |-> "kA0"], port |-> "47989",
            UPNP |-> FALSE, min_log_level |-> "2"]

\* The words a user writes for each option, some of them of no sense to it.
Word == [hevc_mode |-> {"3", "4"}, sw_preset |-> {"fast"}, nvenc_twopass |-> {"full_res", "two"},
         qsv_preset |-> {"fast", "quick"}, amd_quality |-> {"speed", "fast"},
         vt_software |-> {"allowed", "forced"}, output_name |-> {"a", "a#b"},
         dd_configuration_option |-> {"ensure_active", "on"},
         dd_mode_remapping |-> {"[]", "[}"}, file_state |-> {"mine", "denied"},
         credentials_file |-> {"own"}, global_prep_cmd |-> {"[a]", "[a#b]"},
         origin_web_ui_allowed |-> {"pc", "all"}, csrf_allowed_origins |-> {"https", "http"},
         keybindings |-> {"k10", "kA5", "odd"}, key_rightalt_to_key_win |-> {"on", "ON", "1"},
         port |-> {"1018", "1019", "65514"}, upnp |-> {"on", "off"},
         min_log_level |-> {"debug", "loud"}, flags |-> {"p", "pp"}, unknown |-> {"a"}]

Line == [name : Name, word : UNION {Word[n] : n \in Name} \union {"[a"}, blank : BOOLEAN]
LinesOf(t) == {l \in [name : t, word : UNION {Word[n] : n \in t}, blank : BOOLEAN] : l.word \in Word[l.name]}

\* parse_option(): all from '#' to the end of the line is a comment, but the
\* blanks in front of it belong to the word.
Cut(l) == [l EXCEPT !.word = CASE @ = "a#b" -> "a" [] @ = "[a#b]" -> "[a" [] OTHER -> @]

\* parse_config(): the first line that names an option counts.
Parsed(lines) ==
  LET Of(n) == CHOOSE i \in DOMAIN lines :
                 /\ lines[i].name = n
                 /\ \A j \in 1..(i - 1) : lines[j].name # n
  IN  [n \in {lines[i].name : i \in DOMAIN lines} |-> Cut(lines[Of(n)])]

-----------------------------------------------------------------------------
\* Taking one option.  A blank behind it makes another word of every word but
\* one with a '1' where to_bool() looks, and to_bool() changes no case.
Understood(t, l) == l.word \in Known[t] /\ ~l.blank
Flips(l) == l.word = "p"   \* apply_flags(): a letter twice is none
IsTrue(l) == l.word = "1" \/ (l.word = "on" /\ ~l.blank)

Taken(n, t, l, old) ==
  CASE Way[n] = "keep" -> IF Understood(t, l) THEN l.word ELSE old
    [] Way[n] = "fall" -> IF Understood(t, l) THEN l.word ELSE Fallback[t]
    [] Way[n] \in {"text", "path"} -> <<l.word, l.blank>>
    [] Way[n] = "json" -> l.word
    [] Way[n] = "commands" -> Append(old, l.word)
    [] Way[n] = "sites" -> old \union ({l.word} \intersect {"https"})
    [] Way[n] = "pairs" -> IF l.word = "odd" THEN old ELSE old @@ (l.word :> "mine")
    [] Way[n] = "right" -> IF IsTrue(l) THEN old @@ ("kA5" :> "k5B") ELSE old
    [] Way[n] = "flip" -> old # IsTrue(l)
    [] Way[n] = "letters" -> old # Flips(l)

\* A directory that cannot be made throws what parse() catches, a text that is
\* no JSON throws what nobody does.
Throws(n, l) == Way[n] = "path" /\ l.word = "denied"
Kills(n, l) == Way[n] \in {"json", "commands"} /\ l.word \notin {"[]", "[a]"}

\* One read: the option leaves the list, so that a second read of it finds none.
\* The credentials are where the state is unless they are told elsewhere.
Read(s, r) ==
  LET n == r[1]
      t == r[2]
      old == IF t = "credentials_file" THEN s.setting["file_state"] ELSE s.setting[t]
      given_ == n \in DOMAIN s.vars
  IN  IF s.out # "applied" THEN s
      ELSE IF given_ /\ Throws(n, s.vars[n]) THEN [s EXCEPT !.out = "failed"]
      ELSE IF given_ /\ Kills(n, s.vars[n]) THEN [s EXCEPT !.out = "aborted"]
      ELSE [out |-> "applied",
            vars |-> [m \in DOMAIN s.vars \ {n} |-> s.vars[m]],
            setting |-> [s.setting EXCEPT ![t] = IF given_ THEN Taken(n, t, s.vars[n], old) ELSE old]]

ApplyConfig(v, st) ==
  LET after[i \in 0..Len(Source)] ==
        IF i = 0 THEN [out |-> "applied", vars |-> v, setting |-> st]
        ELSE Read(after[i - 1], Source[i])
  IN  after[Len(Source)]

-----------------------------------------------------------------------------
\* What may stand on the command line besides options.
Switch == {"--help", "--request-permissions", "--creds", "-p", "-x", "name="}

ArgsOf(t) == LinesOf(t) \X {"option"} \union {[name |-> "", word |-> "", blank |-> FALSE]} \X Switch
SeqUpTo(S, n) == UNION {[1..k -> S] : k \in 0..n}

Init ==
  /\ topic \in Topics
  /\ file \in SeqUpTo(LinesOf(topic), 2)
  /\ typed \in SeqUpTo({a \in ArgsOf(topic) : ~a[1].blank}, 2)
  /\ Len(file) + Len(typed) <= MaxLine
  /\ given = <<>>
  /\ cmdVars = <<>>
  /\ vars = <<>>
  /\ setting = Default
  /\ phase = "args"
  /\ page = <<>>
  /\ wish = Parsed(file)
  /\ meant = <<>>
  /\ boots = 1
  /\ saves = 0

\* parse(): the next argument.
Argument ==
  /\ phase = "args"
  /\ typed # <<>>
  /\ LET kind == Head(typed)[2]
         l == Cut(Head(typed)[1])
     IN  /\ typed' = IF kind = "--creds" THEN <<>> ELSE Tail(typed)
         /\ phase' = IF kind \in {"--help", "--request-permissions", "-x", "name="} THEN "ended" ELSE phase
         /\ setting' = IF kind = "-p" THEN [setting EXCEPT !["UPNP"] = ~@] ELSE setting
         /\ cmdVars' = IF kind = "option" THEN (l.name :> l) @@ cmdVars ELSE cmdVars
  /\ given' = Append(given, Head(typed))
  /\ UNCHANGED <<topic, file, vars, page, wish, meant, boots, saves>>

\* Faulty: the file is over the command line.
LoadOverArgs ==
  /\ phase = "args"
  /\ typed = <<>>
  /\ vars' = Parsed(file) @@ cmdVars
  /\ phase' = "loaded"
  /\ meant' = wish
  /\ UNCHANGED <<topic, file, typed, given, cmdVars, setting, page, wish, boots, saves>>

\* parse(): the file, with the command line over it.
Load ==
  /\ phase = "args"
  /\ typed = <<>>
  /\ vars' = cmdVars @@ Parsed(file)
  /\ phase' = "loaded"
  /\ meant' = wish
  /\ UNCHANGED <<topic, file, typed, given, cmdVars, setting, page, wish, boots, saves>>

\* apply_config(), and main() with a configuration that was loaded.
Apply ==
  /\ phase = "loaded"
  /\ LET done == ApplyConfig(vars, setting)
     IN  /\ vars' = done.vars
         /\ setting' = done.setting
         /\ phase' = IF done.out = "applied" THEN "running" ELSE done.out
  /\ UNCHANGED <<topic, file, typed, given, cmdVars, page, wish, meant, boots, saves>>

\* getConfig(): the page shows the file.
OpenPage ==
  /\ phase = "running"
  /\ saves < MaxSave
  /\ page # Parsed(file)
  /\ page' = Parsed(file)
  /\ UNCHANGED <<topic, file, typed, given, cmdVars, vars, setting, phase, wish, meant, boots, saves>>

\* saveConfig(): the page with one option changed or emptied; write_file()
\* empties the file first.
Save ==
  /\ phase = "running"
  /\ saves < MaxSave
  /\ page = Parsed(file)
  /\ \/ \E n \in topic \ DOMAIN page : \E w \in Word[n] :
          wish' = page @@ (n :> [name |-> n, word |-> w, blank |-> FALSE])
     \/ \E n \in DOMAIN page : wish' = [m \in DOMAIN page \ {n} |-> page[m]]
  /\ file' = <<>>
  /\ phase' = "saving"
  /\ saves' = saves + 1
  /\ UNCHANGED <<topic, typed, given, cmdVars, vars, setting, page, meant, boots>>

Saved ==
  /\ phase = "saving"
  /\ LET lines == {wish[n] : n \in DOMAIN wish}
     IN  file' = CHOOSE s \in [1..Cardinality(lines) -> lines] : \A l \in lines : \E i \in DOMAIN s : s[i] = l
  /\ phase' = "running"
  /\ UNCHANGED <<topic, typed, given, cmdVars, vars, setting, page, wish, meant, boots, saves>>

\* The process ends, or dies while the file is empty, and is started again
\* without arguments.
Restart ==
  /\ phase \notin {"args", "loaded"}
  /\ boots < MaxBoot
  /\ wish' = IF phase = "saving" THEN <<>> ELSE wish
  /\ boots' = boots + 1
  /\ typed' = <<>> /\ given' = <<>> /\ meant' = <<>> /\ cmdVars' = <<>> /\ vars' = <<>> /\ page' = <<>>
  /\ setting' = Default
  /\ phase' = "args"
  /\ UNCHANGED <<topic, file, saves>>

Next == Argument \/ Load \/ Apply \/ OpenPage \/ Save \/ Saved \/ Restart

Spec == Init /\ [][Next]_configVars

-----------------------------------------------------------------------------
TypeOK ==
  /\ topic \in Topics
  /\ file \in Seq(Line)
  /\ phase \in {"args", "loaded", "running", "saving", "ended", "failed", "aborted"}
  /\ DOMAIN setting = DOMAIN Default
  /\ \A n \in DOMAIN vars : vars[n].name = n

\* What was said about an option: the last word on the command line, or the
\* line the user takes for that of the file.
ArgsFor(n) == SelectSeq(given, LAMBDA a : a[2] = "option" /\ a[1].name = n)
Said(n) == ArgsFor(n) # <<>> \/ n \in DOMAIN meant
WordOf(n) == IF ArgsFor(n) # <<>> THEN ArgsFor(n)[Len(ArgsFor(n))][1] ELSE meant[n]

\* Every option of a running host is what was said last about it, the command
\* line over the file and over a page that was saved, or its default; and a
\* word of no sense does not bring back one that was overruled.
\* (config.cpp:693-716, 1099-1408, 1450-1485)
Single == {r \in {Source[i] : i \in DOMAIN Source} :
             Way[r[1]] \in {"keep", "fall", "text"} /\ r[2] # "vt_require_sw"}
LastWordCounts ==
  phase = "running" =>
    \A r \in Single :
      setting[r[2]] = IF Said(r[1]) THEN Taken(r[1], r[2], Cut(WordOf(r[1])), Default[r[2]])
                      ELSE Default[r[2]]

\* The name and the password of the user are in the file of the clients unless
\* their own option says where they are. (config.cpp:1205-1208)
CredentialsFollow ==
  phase = "running" =>
    LET From(n) == IF Said(n) THEN <<WordOf(n).word, WordOf(n).blank>> ELSE Default[n]
    IN  setting["credentials_file"] =
          IF Said("credentials_file") THEN From("credentials_file") ELSE From("file_state")

\* A host that runs has looked at every option it knows: none is left over
\* because an earlier one failed. (config.cpp:1487-1513)
NoneIsLeft ==
  phase \in {"running", "saving"} => DOMAIN vars \subseteq {"unknown"}

\* The bindings of the user do not undo those of the host, and the one of the
\* right Alt key does not undo the user's; the order of the lines is of no
\* matter. (config.cpp:1031-1048, 1259-1269)
BindingsAreKept ==
  phase = "running" =>
    /\ setting["keybindings"]["k10"] = "kA0"
    /\ (Said("keybindings") /\ WordOf("keybindings").word = "kA5") =>
         setting["keybindings"]["kA5"] = "mine"

\* vt_software = forced makes the encoder use software. (config.cpp:1166-1167)
ForcedIsForced ==
  (phase = "running" /\ Said("vt_software") /\ WordOf("vt_software").word = "forced" /\ ~WordOf("vt_software").blank) =>
    setting["vt_require_sw"] = "forced"
=============================================================================

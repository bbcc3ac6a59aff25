------------------------------ MODULE MCCliRun ------------------------------
(***************************************************************************)
(* The command lines of the run "commands": every command at least once,   *)
(* with the flags and the facts that decide which way it goes.  d1 is      *)
(* named by its full UUID and f1 by its slug; d2 and f2 have to be looked  *)
(* up.                                                                     *)
(***************************************************************************)
EXTENDS CliRun, Traits, DeviceCommands, FleetCommands, AccountCommands,
        ImageCommands, LocalCommands

MCFullUuids == {"d1"}
MCSlugs == {"f1"}

(* The changes that destroy something and may need the user's consent.     *)
Destructive ==
    {"remove device", "deactivate device", "update OS", "remove fleet", "delete asset",
     "remove organization", "remove SSH key", "delete", "flash drive", "initialize drive",
     "disable updates", "create fleet"}

(* The same plan, as a sequence that TLC evaluates once, here.             *)
Listed(plan) == Tail(<<"plan">> \o plan)

Row(cmd, plan, wants, yes) ==
    [cmd |-> cmd, plan |-> Listed(plan), wants |-> wants, needs |-> Needs(cmd),
     asks |-> IF yes THEN {} ELSE {c \in Changes(plan) : c[1] \in Destructive},
     undo |-> {}, onSignal |-> {}]

Reads(cmd, plan) == Row(cmd, plan, {}, FALSE)
Does(cmd, plan, wants) == Row(cmd, plan, wants, FALSE)

Both == <<"d1", "d2">>
Fleets == <<"f1", "f2">>
EachOf(verb, xs) == {<<verb, x>> : x \in ToSet(xs)}

DeviceJobs ==
    {Row("device rm", DeviceRm(Both, y), EachOf("remove device", Both), y) : y \in BOOLEAN}
    \cup {Row("device deactivate", DeviceDeactivate("d2", y), On("deactivate device", "d2"), y)
            : y \in BOOLEAN}
    \cup {Row("device os-update", DeviceOsUpdate("d1", g, y, facts), {}, y)
            : g \in BOOLEAN, y \in BOOLEAN,
              facts \in {{}, {"version known"}, {"version known", "targets", "takeover", "listed"},
                         {"version known", "targets", "current"}}}
    \cup {
    Does("device rename", DeviceRename("d2", FALSE), On("rename device", "d2")),
    Reads("device note", DeviceNote("d1", {"note"})),
    Does("device note", DeviceNote("d1", {"note", "device"}), On("set note", "d1")),
    Does("device reboot", DeviceReboot("d2"), On("reboot", "d2")),
    Does("device shutdown", DeviceShutdown("d1"), On("shutdown", "d1")),
    Does("device identify", DeviceIdentify("d1"), On("identify", "d1")),
    Does("device track-fleet", DeviceTrackFleet("d2"), On("track fleet", "d2")),
    Does("device purge", DevicePurge(Both), EachOf("purge", Both)),
    Does("device pin", DevicePin("d1", TRUE), On("pin device", "d1")),
    Reads("device pin", DevicePin("d1", FALSE)),
    Does("device local-mode", DeviceLocalMode("d1", "enable"), On("enable local mode", "d1")),
    Does("device local-mode", DeviceLocalMode("d2", "disable"), On("disable local mode", "d2")),
    Reads("device local-mode", DeviceLocalMode("d2", "status")),
    Does("device public-url", DevicePublicUrl("d1", "enable"), On("enable URL", "d1")),
    Does("device public-url", DevicePublicUrl("d2", "disable"), On("disable URL", "d2")),
    Reads("device public-url", DevicePublicUrl("d2", "none")),
    Does("device register", DeviceRegister("f1"), On("register device", "f1")),
    Does("device restart", DeviceRestart(Both, <<>>, {<<"d1", "online">>, <<"d2", "online">>}),
         EachOf("restart application", Both)),
    Reads("device restart", DeviceRestart(Both, <<>>, {<<"d1", "online">>})),
    Does("device restart",
         DeviceRestart(Both, <<"s1", "s2">>, {<<"d1", "s1", "running">>, <<"d1", "s2", "running">>,
                                              <<"d2", "s2", "running">>}),
         {<<"restart service", "d1", "s1">>, <<"restart service", "d1", "s2">>,
          <<"restart service", "d2", "s2">>}),
    Does("device stop-service",
         DeviceStopService(Both, <<"s1">>, {<<"d1", "s1", "running">>, <<"d2", "s1", "running">>}),
         {<<"stop service", "d1", "s1">>, <<"stop service", "d2", "s1">>}),
    Reads("device stop-service",
         DeviceStopService(Both, <<"s1">>, {<<"d1", "s1", "running">>, <<"d2", "s1", "missing">>})),
    Does("device start-service",
         DeviceStartService(<<"d1">>, <<"s1">>, {<<"d1", "s1", "running">>}),
         {<<"start service", "d1", "s1">>}),
    Does("device start-service",
         DeviceStartService(Both, <<"s1">>, {<<"d1", "s1", "running">>, <<"d2", "s1", "missing">>}),
         {<<"start service", "d1", "s1">>}),
    Does("device move", DeviceMove(Both, TRUE, TRUE), EachOf("move device", Both)),
    Does("device move", DeviceMove(Both, FALSE, TRUE), EachOf("move device", Both)),
    Reads("device move", DeviceMove(Both, FALSE, FALSE)),
    Reads("device", DeviceShow(TRUE)), Reads("device list", DeviceList(TRUE))}

FleetJobs ==
    {Row("fleet rm", FleetRm(y), {<<"remove fleet">>}, y) : y \in BOOLEAN}
    \cup {Row("organization rm", OrganizationRm(y), {<<"remove organization">>}, y) : y \in BOOLEAN}
    \cup {Row("release-asset delete", AssetDelete(y), {<<"delete asset">>}, y) : y \in BOOLEAN}
    \cup {Does("fleet create", ApplicationCreate("fleet", t, o, n), {<<"create", "fleet">>})
            : t \in BOOLEAN, o \in BOOLEAN, n \in 0..2}
    \cup {Does("release " \o v, ReleaseChange(v, FALSE), {<<v>>})
            : v \in {"finalize", "invalidate", "validate"}}
    \cup {
    Does("app create", ApplicationCreate("app", TRUE, TRUE, 1), {<<"create", "app">>}),
    Does("block create", ApplicationCreate("block", TRUE, TRUE, 1), {<<"create", "block">>}),
    Reads("fleet", FleetShow(TRUE)), Reads("fleet list", FleetList),
    Does("fleet pin", FleetPin(TRUE), {<<"pin fleet">>}),
    Reads("fleet pin", FleetPin(FALSE)),
    Does("fleet purge", FleetPurge, {}),
    Does("fleet rename", FleetRename("asked", FALSE), {<<"rename fleet">>}),
    Reads("fleet rename", FleetRename("slug", FALSE)),
    Reads("fleet rename", FleetRename("given", TRUE)),
    Does("fleet restart", FleetRestart, {<<"restart fleet">>}),
    Does("fleet track-latest", FleetTrackLatest("f2"), {<<"track latest", "f2">>}),
    Reads("release", ReleaseShow(TRUE)), Reads("release list", ReleaseList("f2", TRUE)),
    Reads("release finalize", ReleaseChange("finalize", TRUE)),
    Reads("release-asset list", AssetList),
    Does("release-asset upload", AssetUpload, {<<"upload asset">>}),
    Does("release-asset download", AssetDownload(FALSE, FALSE, FALSE), {<<"write asset">>}),
    [Does("release-asset download", AssetDownload(FALSE, TRUE, FALSE), {<<"write asset">>})
        EXCEPT !.asks = {<<"write asset">>}],
    Reads("release-asset download", AssetDownload(TRUE, FALSE, FALSE)),
    Does("organization create", OrganizationCreate, {<<"create organization">>}),
    Reads("organization list", OrganizationList),
    Does("organization rename", OrganizationRename(FALSE), {<<"rename organization">>})}

AccountJobs ==
    {Row("env rm", EnvRm(fl, y), {<<"delete", VarResource(fl)>>}, y)
        : fl \in {{}, {"device", "service"}}, y \in BOOLEAN}
    \cup {Row("ssh-key rm", SshKeyRm(y), {<<"remove SSH key">>}, y) : y \in BOOLEAN}
    \cup {Reads("env list", EnvList(k, fs)) : k \in {"none", "fleet", "device"},
            fs \in {{}, {"service"}, {"service", "found"}, {"config", "json"}, {"orphan", "empty"}}}
    \cup {Reads("tag list", TagList(k, "f2", s)) : k \in {"fleet", "device", "none"}, s \in BOOLEAN}
    \cup {Does("api-key generate", ApiKeyGenerate(e), {<<"create API key">>})
            : e \in {"asked", "custom", "given"}}
    \cup {
    Does("env set", EnvSet("fleet", Fleets, <<"s1", "s2">>, "variable"),
         {<<"set", f, s>> : f \in {"f1", "f2"}, s \in {"s1", "s2"}}),
    Does("env set", EnvSet("device", Both, <<"s1">>, "variable"),
         {<<"set", "d1", "s1">>, <<"set", "d2", "s1">>}),
    Does("env set", EnvSet("fleet", Fleets, <<>>, "configuration"),
         {<<"set", "f1", "all">>, <<"set", "f2", "all">>}),
    Does("env set", EnvSet("device", Both, <<>>, "variable"),
         {<<"set", "d1", "all">>, <<"set", "d2", "all">>}),
    Reads("env set", EnvSet("fleet", Fleets, <<"s1">>, "configuration")),
    Reads("env set", EnvSet("device", Both, <<>>, "no value")),
    Reads("env set", EnvSet("device", <<>>, <<>>, "variable")),
    Does("env rename", EnvRename({"service"}), {<<"rename", VarResource({"service"})>>}),
    Does("tag set", TagSet("fleet", "f2"), {<<"set tag", "f2">>}),
    Does("tag set", TagSet("device", "d2"), {<<"set tag", "d2">>}),
    Does("tag set", TagSet("release", "digits"), {<<"set tag", "digits">>}),
    Reads("tag rm", TagRm("release", "malformed")),
    Reads("tag rm", TagRm("none", "nothing")),
    Does("tag rm", TagRm("release", "commit"), {<<"remove tag", "commit">>}),
    Does("support", Support("enable", Both, Fleets, "valid"),
         EachOf("grant support", Both \o Fleets)),
    Does("support", Support("disable", <<"d2">>, <<"f1">>, "none"),
         EachOf("revoke support", <<"d2", "f1">>)),
    Reads("support", Support("none", Both, <<>>, "none")),
    Reads("support", Support("disable", Both, <<>>, "valid")),
    Reads("api-key generate", ApiKeyGenerate("invalid")),
    Reads("api-key list", ApiKeyList(TRUE)),
    Does("api-key revoke", ApiKeyRevoke({"k1", "k2"}, TRUE), {<<"revoke", "k1">>, <<"revoke", "k2">>}),
    Reads("api-key revoke", ApiKeyRevoke({"k1"}, FALSE)),
    Does("ssh-key add", SshKeyAdd, {<<"add SSH key">>}),
    Reads("ssh-key list", SshKeyRead), Reads("whoami", Whoami), Reads("settings", Settings),
    Reads("device-type list", DeviceTypeList),
    Does("logout", Logout, {<<"forget the token">>})}

(* What an image or a drive may be like.                                   *)
SomeFacts == {{"mounted"}, {"mounted", "linux", "other slug"}}

InitUndo ==
    {[made |-> <<"register device">>, cleaner |-> <<"remove device">>, when |-> "failure"],
     [made |-> <<"write image">>, cleaner |-> <<"remove temporary image">>, when |-> "always"],
     [made |-> <<"write temporary config">>, cleaner |-> <<"remove temporary config">>,
      when |-> "always"]}

InitJob(target, flags, yes, facts) ==
    [Row("device init", DeviceInit(target, flags, yes, facts), {<<"initialize drive">>}, yes)
        EXCEPT !.undo = InitUndo, !.asks = IF "drive" \in facts /\ ~yes THEN {<<"initialize drive">>} ELSE {}]

(* The preload container is removed by a finally, and by the handler of    *)
(* signals.                                                                *)
PreloadJob(fleetGiven, facts) ==
    [Row("preload", Preload(fleetGiven, facts), {<<"preload image">>}, FALSE)
        EXCEPT !.undo = {[made |-> <<"make container">>, cleaner |-> <<"remove container">>,
                          when |-> "always"]},
               !.onSignal = {<<"remove container">>}]

ImageJobs ==
    {Does("os configure", OsConfigure(t, fs, <<"c1", "c2">>), {<<"configure image">>,
            <<"write connection", "c1">>, <<"write connection", "c2">>})
        : t \in {"fleet", "device", "config"}, fs \in {{"type given"}, {"other slug", "key given"}}}
    \cup {Reads("os configure", OsConfigure("fleet", fs, <<>>))
            : fs \in {{"no version"}, {"secure boot", "unsupported"}, {"dev", "production"},
                      {"type given", "incompatible"}, {"other type"}}}
    \cup {Does("config generate", ConfigGenerate(t, TRUE, fs), {<<"write config.json">>})
            : t \in {"fleet", "device"}, fs \in {{}, {"key given", "secure boot"}}}
    \cup {Does("config reconfigure", ConfigReconfigure(g, {"advanced"}, fs), {<<"configure image">>})
            : g \in BOOLEAN, fs \in SomeFacts}
    \cup {Does("config inject", ConfigInject(g, fs), {<<"inject config">>})
            : g \in BOOLEAN, fs \in SomeFacts}
    \cup {Does("config write", ConfigWrite(TRUE, fs), {<<"write key">>}) : fs \in SomeFacts}
    \cup {Reads("config read", ConfigRead(TRUE, fs)) : fs \in SomeFacts}
    \cup {Row("os initialize", OsInitialize(y, fs), {<<"initialize drive">>}, y)
            : y \in BOOLEAN, fs \in {{"drive", "mounted"}, {"drive", "drive given", "mounted", "linux"}}}
    \cup {Row("local flash", LocalFlash(g, y, fs), {}, y)
            : g \in BOOLEAN, y \in BOOLEAN, fs \in {{}, {"no drive"}, {"WSL"}}}
    \cup {InitJob(t, {"advanced"}, y, fs) : t \in {"fleet", "config"}, y \in BOOLEAN,
            fs \in {{"drive"}, {"menu"}, {"bad config"}}}
    \cup {InitJob("fleet", {}, TRUE, fs)
            : fs \in {{"menu", "no versions"}, {"other type"}, {"no version"}, {"dev", "production"},
                      {"secure boot", "unsupported"}}}
    \cup {InitJob("config", {}, TRUE, fs) : fs \in {{"incompatible"}, {"no version"}}}
    \cup {InitJob("fleet", {"provisioning-key-name"}, TRUE, {})}
    \cup {PreloadJob(g, fs) : g \in BOOLEAN,
            fs \in {{"agreed"}, {"pin"}, {"no release"}, {"signed"}, {"unchecked"}}}
    \cup {
    Reads("device init", DeviceInit("none", {}, TRUE, {})),
    Reads("config generate", ConfigGenerate("none", TRUE, {})),
    Reads("config generate", ConfigGenerate("device", TRUE, {"orphan"})),
    Reads("config reconfigure", ConfigReconfigure(TRUE, {}, {"no uuid"})),
    Reads("config reconfigure", ConfigReconfigure(TRUE, {}, {"mounted", "no uuid"})),
    Reads("config reconfigure", ConfigReconfigure(TRUE, {"version"}, {"mounted"})),
    Does("local configure", LocalConfigure({"mounted"}),
         {<<"make connection file">>, <<"write settings">>}),
    Does("local configure", LocalConfigure({"resin-wifi"}), {<<"write settings">>}),
    Reads("util available-drives", AvailableDrives),
    Does("os download", OsDownload({"ESR"}), {<<"write image">>}),
    Does("os download", OsDownload({"menu", "alias"}), {<<"write image">>}),
    Reads("os versions", OsVersions({"alias", "no versions"})),
    Row("internal osinit", InternalOsinit({}), {<<"initialize drive">>}, TRUE)}

LocalJobs ==
    {Does("join", Join(d, f, n, fs), {<<"join device">>})
        : d \in BOOLEAN, f \in BOOLEAN, n \in {1, 2},
          fs \in {{"root"}, {"session", "cached"}}}
    \cup {[Does("join", Join(TRUE, FALSE, 0, fs), {<<"join device">>}) EXCEPT !.asks = {<<"create fleet">>}]
            : fs \in {{"root"}, {"root", "name taken"}}}
    \cup {Reads("device ssh", DeviceSsh(t, s, fs)) : t \in {"online", "offline", "devices", "none"},
            s \in BOOLEAN, fs \in {{}, {"no container"}}}
    \cup {Reads("device ssh", DeviceSsh("local", s, fs)) : s \in BOOLEAN,
            fs \in {{"root"}, {"session"}, {}}}
    \cup {Does("login", Login(h, fs), {<<"store token">>})
            : h \in {"token", "web", "asked"}, fs \in {{}, {"token given"}}}
    \cup {
    Reads("join", Join(FALSE, TRUE, 1, {"no device"})),
    Reads("join", Join(TRUE, TRUE, 1, {"root", "other type"})),
    Does("leave", Leave(FALSE, {"root"}), {<<"leave device">>}),
    Reads("device detect", DeviceDetect),
    Reads("device logs", DeviceLogs("local", TRUE)), Reads("device logs", DeviceLogs("d2", FALSE)),
    Does("login", Login("credentials", {"two factors"}), {<<"authenticate">>, <<"pass challenge">>}),
    Reads("login", Login("register", {})),
    Does("push", Push(FALSE, {"t1", "t2"}, TRUE, {}),
         {<<"remote build">>, <<"tag release", "t1">>, <<"tag release", "t2">>, <<"set release note">>}),
    Does("push", Push(FALSE, {"t1"}, TRUE, {"no release id"}), {<<"remote build">>}),
    Reads("push", Push(FALSE, {}, FALSE, {"no project"})),
    Reads("push", Push(FALSE, {}, FALSE, {"local options"})),
    Does("push", Push(TRUE, {}, FALSE, {}), {<<"local build">>}),
    Reads("push", Push(TRUE, {}, FALSE, {"remote options"})),
    Does("build", Build(TRUE, {}), {<<"build images">>}),
    Does("build", Build(FALSE, {"device type"}), {<<"build images">>}),
    Reads("build", Build(TRUE, {"device type"})),
    Reads("deploy", Deploy(TRUE, TRUE, {}, FALSE, {})),
    Reads("deploy", Deploy(TRUE, FALSE, {}, FALSE, {"single container"})),
    Does("deploy", Deploy(FALSE, TRUE, {"t1"}, TRUE, {}),
         {<<"build images">>, <<"release">>, <<"tag release", "t1">>, <<"set release note">>})}

MCJobs == DeviceJobs \cup FleetJobs \cup AccountJobs \cup ImageJobs \cup LocalJobs
MCConditions == {"fine", "expired", "logged out", "offline", "not root", "news due"}
MCKept == {<<"unmount", 1>>, <<"unmount", 2>>, <<"remote build">>}
=============================================================================

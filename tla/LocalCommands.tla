--------------------------- MODULE LocalCommands ---------------------------
(***************************************************************************)
(* The plans of the commands that work with a device of the local network, *)
(* with Docker, or with the session: join and leave (utils/promote), ssh,  *)
(* logs, detect, login, and what push, build and deploy do around the      *)
(* build, whose own steps RemoteBuild, Livepush and ReleaseDeploy model.   *)
(***************************************************************************)
EXTENDS Lookups

(* The devices that are found and answer a ping: none is an error.         *)
SelectLocalDevice(facts) ==
    Look \o Hidden(Look) \o (IF "no device" \in facts THEN Refuse ELSE Prompt)

AssertCompatible == Look

(* findBestUsernameForDevice: root when it is let in, else the user of the *)
(* session, whose name is asked of the API when it is not cached.          *)
BestUsername(facts) ==
    Hidden(Look) \o
        When("root" \notin facts,
             When({"session", "cached"} \cap facts = {"session"}, Hidden(Query))
                \o RefuseWhen("session" \notin facts))

OnDevice(facts) == BestUsername(facts) \o Look

(* The name of a new fleet is asked for until no fleet is found under it:  *)
(* a lookup that fails otherwise is taken for a free name.                 *)
CreateApplication(facts) ==
    Query \o When("name taken" \in facts, Prompt \o Query) \o Prompt \o Hidden(Query)
        \o Send({<<"create fleet">>}) \o Query

(* matching: how many fleets of the user suit the device.                  *)
GetOrSelectApplication(fleetGiven, matching, facts) ==
    Query \o Query \o Query \o
        CASE matching = 0 -> Confirm(FALSE) \o CreateApplication(facts)
          [] matching = 1 /\ fleetGiven -> <<>>
          [] OTHER -> Prompt

DeviceOsRelease(facts) == OnDevice(facts)

Join(deviceGiven, fleetGiven, matching, facts) ==
    When(~deviceGiven, SelectLocalDevice(facts))
        \o OnDevice(facts) \o DeviceOsRelease(facts)
        \o (IF fleetGiven /\ "other type" \in facts THEN Query \o Query \o Query \o Refuse
            ELSE GetOrSelectApplication(fleetGiven, matching, facts))
        \o Query \o Prompt
        \o Send({<<"create provisioning key">>})
        \o Write({<<"join device">>})

Leave(deviceGiven, facts) ==
    When(~deviceGiven, SelectLocalDevice(facts))
        \o OnDevice(facts) \o Write({<<"leave device">>})
-----------------------------------------------------------------------------
(* device ssh: a service is a container that has to be found first.        *)
GetContainerId(facts) == Look \o RefuseWhen({"no container", "ambiguous"} \cap facts # {})

LocalSsh(service, facts) ==
    BestUsername(facts) \o When(service, GetContainerId(facts)) \o Look

(* A remote connection is refused in offline mode by the command itself.   *)
RemoteSsh(target, service, facts) ==
    OnlineCheck \o LoginCheck \o OnlineTarget(target) \o Query
        \o When(service, Query \o RefuseWhen({"no container", "ambiguous"} \cap facts # {}))
        \o Query

DeviceSsh(target, service, facts) ==
    IF target = "local" THEN LocalSsh(service, facts) ELSE RemoteSsh(target, service, facts)

DeviceDetect == Look \o Hidden(Look)

DeviceLogs(target, tail) ==
    IF target = "local" THEN Look \o Look
    ELSE LoginCheck \o ResolveDevice(target) \o Query \o When(~tail, Hidden(Query))
-----------------------------------------------------------------------------
(* login.  A token is stored before it is tried, and stays stored; a wrong *)
(* second factor logs out.                                                 *)
LoginWithToken(tokenGiven) ==
    When(~tokenGiven, Prompt) \o Write({<<"store token">>}) \o Query

TwoFactor(facts) ==
    When("two factors" \in facts,
         Try("challenge", Prompt \o Send({<<"pass challenge">>}), Write({<<"forget token">>}), <<>>))

LoginWithCredentials(facts) ==
    Prompt \o Send({<<"authenticate">>}) \o Query \o TwoFactor(facts)

LoginOnTheWeb == Look \o Look \o Await("user") \o Write({<<"store token">>})

Login(how, facts) ==
    Look \o
        (CASE how = "token" -> LoginWithToken("token given" \in facts)
           [] how = "credentials" -> LoginWithCredentials(facts)
           [] how = "web" -> LoginOnTheWeb
           [] how = "register" -> Prompt \o Look \o Refuse
           [] how = "asked" -> Prompt \o LoginOnTheWeb)
        \o Query
-----------------------------------------------------------------------------
(* push, build, deploy.  The project directory and its secrets are read    *)
(* before anything else.                                                   *)
ValidateProject(facts) == Look \o RefuseWhen("no project" \in facts) \o Look

ApplyTags(tags) ==
    When(tags # {}, Send({<<"tag release", t>> : t \in tags}))

PushToCloud(tags, note, facts) ==
    RefuseWhen("local options" \in facts)
        \o LoginCheck \o Look \o GetApplication
        \o Send({<<"remote build">>})
        \o (IF "no release id" \in facts THEN RefuseWhen(tags # {})
            ELSE ApplyTags(tags) \o When(note, Send({<<"set release note">>})))

PushToDevice(facts) ==
    RefuseWhen("remote options" \in facts) \o Write({<<"local build">>})

Push(local, tags, note, facts) ==
    ValidateProject(facts)
        \o (IF local THEN PushToDevice(facts) ELSE PushToCloud(tags, note, facts))

(* The architecture is asked for before the options are validated.         *)
Build(fleet, facts) ==
    When(fleet, LoginCheck)
        \o When({"device type", "arch"} \cap facts = {"device type"}, Query)
        \o RefuseWhen(IF fleet THEN {"device type", "arch"} \cap facts # {}
                      ELSE "device type" \notin facts)
        \o ValidateProject(facts)
        \o When(fleet, GetApplication) \o Look
        \o Write({<<"build images">>})

(* Only what follows the release is shown here.                            *)
Deploy(image, build, tags, note, facts) ==
    IF image /\ build THEN Refuse
    ELSE (IF image THEN Look ELSE ValidateProject(facts))
        \o GetApplication \o Look
        \o RefuseWhen("single container" \in facts)
        \o Hidden(Look) \o Write({<<"build images">>})
        \o Send({<<"release">>})
        \o ApplyTags(tags) \o When(note, Send({<<"set release note">>}))
=============================================================================

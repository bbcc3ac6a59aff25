-------------------------- MODULE AccountCommands --------------------------
(***************************************************************************)
(* The plans of the commands about what hangs on a fleet, a device or the  *)
(* account: variables, tags, support access, API keys, SSH keys, the       *)
(* session, and the lists that only read.                                  *)
(***************************************************************************)
EXTENDS Lookups

(* env set.  name: "variable", "configuration" (a reserved prefix) or      *)
(* "no value" (neither argument nor environment).  Fleets are resolved one *)
(* by one, and the ones that fail are noted; devices all together.         *)
Reserved == Look \o Query

ResolveFleets(fleets) == ForEach(fleets, LAMBDA f : Noted(GetFleetSlug(f)))

SetVariable(target, service) == Noted(Send({<<"set", target, service>>}))

SetServiceVariables(target, services) ==
    ForEach(services, LAMBDA s : Noted(Query) \o SetVariable(target, s))

EnvSet(kind, targets, services, name) ==
    IF targets = <<>> THEN Refuse
    ELSE LoginCheck \o
        (IF name = "no value" THEN Refuse
         ELSE Reserved \o
            CASE services # <<>> /\ name = "configuration" -> Refuse
              [] services # <<>> /\ kind = "fleet" ->
                    ResolveFleets(targets)
                        \o ForEach(targets, LAMBDA f : SetServiceVariables(f, services))
              [] services # <<>> /\ kind = "device" ->
                    ForEach(targets, LAMBDA d :
                        Noted(Query) \o SetServiceVariables(d, services))
              [] services = <<>> /\ kind = "fleet" ->
                    ResolveFleets(targets)
                        \o ForEach(targets, LAMBDA f : SetVariable(f, "all"))
              [] OTHER ->
                    ResolveDevices(targets)
                        \o ForEach(targets, LAMBDA d : SetVariable(d, "all")))

(* One of six resources holds a variable that is named by its id.          *)
VarResource(flags) ==
    <<IF "device" \in flags THEN "device" ELSE "application",
      CASE "config" \in flags -> "config variable"
        [] "service" \in flags -> "service variable"
        [] OTHER -> "environment variable">>

EnvRm(flags, yes) == LoginCheck \o Confirm(yes) \o Send({<<"delete", VarResource(flags)>>})
EnvRename(flags) == LoginCheck \o Send({<<"rename", VarResource(flags)>>})

(* facts: "service" (given), "found" (the service exists), "config",       *)
(* "json", "empty" (nothing to list), "orphan" (a device without a fleet). *)
AppVariables(facts) == Query \o When("config" \notin facts, Query)
DeviceVariables(facts) == Query \o When("config" \notin facts, Query)

EnvList(kind, facts) ==
    LoginCheck \o
        (IF kind = "none" THEN Refuse
         ELSE (IF kind = "fleet" THEN GetApplication ELSE Query)
              \o When("orphan" \notin facts,
                    When("service" \in facts,
                        Query \o RefuseWhen("found" \notin facts))
                    \o AppVariables(facts))
              \o When(kind = "device", DeviceVariables(facts))
              \o RefuseWhen({"json", "empty"} \cap facts = {"empty"}))
-----------------------------------------------------------------------------
(* tag set, tag rm, tag list.  kind: "fleet", "device", "release", "none". *)
(* A release of digits only is looked up by its id, then by its commit.    *)
ReleaseParam(form) ==
    CASE form = "malformed" -> Refuse
      [] form = "id" -> Query
      [] form = "digits" -> Query \o Query
      [] OTHER -> <<>>

TagTarget(kind, name) ==
    CASE kind = "fleet"  -> GetFleetSlug(name)
      [] kind = "device" -> ResolveDevice(name)
      [] kind = "release" -> ReleaseParam(name)
      [] OTHER -> Refuse

TagSet(kind, name) == TagTarget(kind, name) \o When(kind # "none", Send({<<"set tag", name>>}))
TagRm(kind, name) == TagTarget(kind, name) \o When(kind # "none", Send({<<"remove tag", name>>}))
TagList(kind, name, some) ==
    TagTarget(kind, name) \o When(kind # "none", Query \o RefuseWhen(~some))
-----------------------------------------------------------------------------
(* support: without an action the targets are looked up and nothing more.  *)
SupportVerb(action, x) ==
    CASE action = "enable"  -> Send({<<"grant support", x>>})
      [] action = "disable" -> Send({<<"revoke support", x>>})
      [] OTHER -> <<>>

Support(action, devices, fleets, duration) ==
    IF \/ devices = <<>> /\ fleets = <<>>
       \/ duration # "none" /\ action # "enable"
       \/ duration = "malformed"
    THEN Refuse
    ELSE ForEach(devices, LAMBDA d : ResolveDevice(d) \o SupportVerb(action, d))
         \o ForEach(fleets, LAMBDA f : GetFleetSlug(f) \o SupportVerb(action, f))
-----------------------------------------------------------------------------
(* api-key generate.  expiry: "asked", "custom" (asked, then a date until  *)
(* it is valid), "given", "invalid".                                       *)
ApiKeyGenerate(expiry) ==
    IF expiry = "invalid" THEN Refuse
    ELSE When(expiry # "given", Prompt) \o When(expiry = "custom", Prompt)
         \o Send({<<"create API key">>})

ApiKeyList(fleetGiven) == (IF fleetGiven THEN GetApplication ELSE Query) \o Query

(* An id that is not a number: a message, and nothing is revoked.          *)
ApiKeyRevoke(ids, valid) ==
    When(valid, Send({<<"revoke", id>> : id \in ids}))

(* An argument that is no file is the key itself.                          *)
SshKeyAdd == Hidden(Look) \o Send({<<"add SSH key">>})
SshKeyRm(yes) == Confirm(yes) \o Send({<<"remove SSH key">>})
SshKeyRead == Query

(* whoami asks the API and the settings; settings, device-type list.       *)
Whoami == Query
Settings == Look
DeviceTypeList == Query
DeviceShow(view) == Query \o When(view, Look)
DeviceList(fleetGiven) == IF fleetGiven THEN GetApplication ELSE Query
Logout == Write({<<"forget the token">>})
=============================================================================

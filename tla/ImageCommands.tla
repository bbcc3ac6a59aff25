--------------------------- MODULE ImageCommands ---------------------------
(***************************************************************************)
(* The plans of the commands about OS images, config.json files and        *)
(* drives.  "facts" holds what is true of the image, of the drive or of    *)
(* the answers of the API, where the plan branches on it.                  *)
(***************************************************************************)
EXTENDS Lookups

(* utils/umount: an unmount that fails is ignored on Linux.  n tells the   *)
(* unmounts of one command apart.                                          *)
SafeUmount(n, facts) ==
    Look \o When("mounted" \in facts,
                 LET unmount == Write({<<"unmount", n>>})
                 IN  IF "linux" \in facts THEN Hidden(unmount) ELSE unmount)

(* The device type is asked of the API only when the image spells it       *)
(* otherwise.                                                              *)
GetManifest(facts) ==
    Look \o Look \o When("other slug" \in facts, Query)
        \o RefuseWhen("other type" \in facts)

CheckCompatibility(facts) ==
    When("type given" \in facts, Query \o RefuseWhen("incompatible" \in facts))

ValidateDevOption(facts) == RefuseWhen({"dev", "production"} \subseteq facts)
ValidateSecureBoot(facts) ==
    When("secure boot" \in facts, Query \o RefuseWhen("unsupported" \in facts))

ReadAndValidateConfig(facts) == Look \o RefuseWhen("bad config" \in facts)

(* os.getConfig creates a provisioning key, also when a device key follows *)
(* that replaces it.                                                       *)
GenerateApplicationConfig == Send({<<"create provisioning key">>})
GenerateDeviceConfig(facts) ==
    Query \o GenerateApplicationConfig
        \o When("key given" \notin facts, Send({<<"create device key">>}))

GenerateConfig(target, facts) ==
    IF target = "device" THEN GenerateDeviceConfig(facts) ELSE GenerateApplicationConfig
-----------------------------------------------------------------------------
(* os configure.  The connection files are read when the image has been    *)
(* configured.                                                             *)
ValidateConfigure(target) ==
    RefuseWhen(target = "none") \o Look \o When(target = "config", Look) \o LoginCheck

(* A config file always names the device type.                             *)
FindTarget(target, facts) ==
    CASE target = "device" -> GetDevice
      [] target = "fleet"  -> GetApplication \o CheckCompatibility(facts)
      [] target = "config" -> GetApplication \o CheckCompatibility(facts \cup {"type given"})
      [] OTHER -> <<>>

CopyConnections(files) ==
    When(files # <<>>,
         Look \o Look \o ForEach(files, LAMBDA f : Write({<<"write connection", f>>})))

OsConfigure(target, facts, files) ==
    ValidateConfigure(target)
        \o When(target = "config", ReadAndValidateConfig(facts))
        \o FindTarget(target, facts)
        \o GetManifest(facts)
        \o Look \o RefuseWhen("no version" \in facts)
        \o ValidateDevOption(facts) \o ValidateSecureBoot(facts)
        \o When(target # "config", Prompt \o GenerateConfig(target, facts))
        \o Write({<<"configure image">>})
        \o CopyConnections(files)

ConfigGenerate(target, output, facts) ==
    RefuseWhen(target = "none" \/ (target = "device" /\ "type given" \in facts))
        \o ValidateDevOption(facts)
        \o (IF target = "device" THEN GetDevice \o RefuseWhen("orphan" \in facts)
            ELSE GetApplication \o CheckCompatibility(facts))
        \o Query \o ValidateSecureBoot(facts) \o Prompt
        \o GenerateConfig(target, facts)
        \o When(output, Write({<<"write config.json">>}))

(* helpers.runCommand: another command in the same process, with its own   *)
(* prerun hook; its flags are parsed after that.                           *)
OsConfigureFlags ==
    {"advanced", "config-app-update-poll-interval", "config-network", "config-wifi-key",
     "config-wifi-ssid", "dev", "secureBoot", "device-type", "initial-device-name",
     "provisioning-key-name", "provisioning-key-expiry-date", "fleet", "device", "config",
     "system-connection"}
ExclusiveWithDevice ==
    {"fleet", "config", "device-type", "provisioning-key-name", "provisioning-key-expiry-date"}
ExclusiveWithConfig == OsConfigureFlags \ {"config", "system-connection"}

Accepted(flags) ==
    /\ flags \subseteq OsConfigureFlags
    /\ "device" \in flags => flags \cap ExclusiveWithDevice = {}
    /\ "config" \in flags => flags \cap ExclusiveWithConfig = {}

RunOsConfigure(flags, facts) ==
    LoginCheck \o
        (IF Accepted(flags)
         THEN OsConfigure(IF "config" \in flags THEN "config" ELSE "device", facts, <<>>)
         ELSE Await("parser"))

ConfigReconfigure(driveGiven, flags, facts) ==
    When(~driveGiven, Prompt) \o SafeUmount(1, facts) \o Look \o SafeUmount(2, facts)
        \o (IF "no uuid" \in facts THEN Refuse
            ELSE RunOsConfigure({"device"} \cup flags, facts))
-----------------------------------------------------------------------------
(* The other commands about the config.json of a drive.                    *)
ConfigRead(driveGiven, facts) == When(~driveGiven, Prompt) \o SafeUmount(1, facts) \o Look

ConfigInject(driveGiven, facts) ==
    ConfigRead(driveGiven, facts) \o Write({<<"inject config">>})

ConfigWrite(driveGiven, facts) ==
    ConfigRead(driveGiven, facts) \o SafeUmount(2, facts) \o Write({<<"write key">>})

(* The connection file is made before the questions are asked.             *)
PrepareConnectionFile(facts) ==
    Look \o Look
        \o When({"resin-wifi", "resin-sample"} \cap facts = {}, Write({<<"make connection file">>}))

LocalConfigure(facts) ==
    PrepareConnectionFile(facts) \o SafeUmount(1, facts)
        \o Look \o Prompt \o Write({<<"write settings">>})

(* A drive that could not be written is reported, but the command ends as  *)
(* if it had been.                                                         *)
LocalFlash(driveGiven, yes, facts) ==
    Hidden(Look) \o
        (IF "WSL" \in facts THEN Refuse
         ELSE When(~driveGiven, Prompt) \o Look
              \o (IF "no drive" \in facts THEN Refuse
                  ELSE Confirm(yes) \o Look
                       \o Failing({"throw", "hide"}, Write({<<"flash drive">>}))))

AvailableDrives == Look
-----------------------------------------------------------------------------
(* os download, os versions, os initialize.                                *)
GetOsVersions(facts) ==
    Query \o When("alias" \in facts, Query \o Query) \o RefuseWhen("no versions" \in facts)

ResolveOsVersion(facts) == When("menu" \in facts, GetOsVersions(facts) \o Prompt)

DownloadOsImage(facts) ==
    ResolveOsVersion(facts) \o Query \o Write({<<"write image">>})

OsVersions(facts) == GetOsVersions(facts)

OsDownload(facts) ==
    Query \o When("ESR" \in facts, LoginCheck) \o DownloadOsImage(facts)

OsInitialize(yes, facts) ==
    GetManifest(facts) \o When("drive given" \notin facts, Prompt)
        \o When("drive" \in facts, Confirm(yes) \o SafeUmount(1, facts))
        \o Write({<<"initialize drive">>})
        \o When("drive" \in facts, SafeUmount(2, facts))

(* The child process of os initialize.                                     *)
InternalOsinit(facts) == GetManifest(facts) \o Write({<<"initialize drive">>})
-----------------------------------------------------------------------------
(* device init.  Only what fails inside the try removes the device again.  *)
(* target: "fleet", "config", or "none" (neither of the two flags).        *)
ConfigureOsImage(config, flags, facts) ==
    IF config
    THEN Try("configure", Look \o Write({<<"write temporary config">>})
                              \o RunOsConfigure({"config"}, facts),
             <<>>, Write({<<"remove temporary config">>}))
    ELSE RunOsConfigure({"device"} \cup flags, facts)

DeviceInit(target, flags, yes, facts) ==
    IF target = "none" THEN Refuse
    ELSE When(target = "config", Look \o ReadAndValidateConfig(facts))
        \o GetApplication
        \o Send({<<"register device">>})
        \o Look
        \o Try("init",
               DownloadOsImage(facts)
                    \o ConfigureOsImage(target = "config", flags, facts)
                    \o LoginCheck \o OsInitialize(yes, facts),
               Hidden(Send({<<"remove device">>})),
               Write({<<"remove temporary image">>}))
-----------------------------------------------------------------------------
(* preload.  A handler of signals is installed before the try: "trap".     *)
SelectFleet(facts) ==
    Query \o Query \o (IF "no fleet" \in facts THEN Refuse ELSE Prompt)

SelectCommit(facts) ==
    CASE "commit given" \in facts -> RefuseWhen("no match" \in facts)
      [] "no release" \in facts -> Refuse
      [] OTHER -> Prompt

(* The user who declines the offer has his preload all the same.           *)
OfferToDisableUpdates(facts) ==
    CASE {"current", "not tracking", "pin"} \cap facts # {} -> <<>>
      [] "agreed" \in facts -> Confirm(FALSE) \o Send({<<"disable updates">>})
      [] OTHER -> Prompt

PrepareAndPreload(fleetGiven, facts) ==
    Write({<<"make container">>})
        \o (IF fleetGiven THEN GetApplication ELSE SelectFleet(facts))
        \o SelectCommit(facts) \o Look
        \o OfferToDisableUpdates(facts)
        \o Write({<<"preload image">>})

Preload(fleetGiven, facts) ==
    Look \o Look \o RefuseWhen("signed" \in facts)
        \o When(fleetGiven, GetFleetSlug("a name"))
        \o RefuseWhen({"unchecked", "bad certificate"} \cap facts # {})
        \o Look
        \o Try("trap", PrepareAndPreload(fleetGiven, facts), <<>>,
               Write({<<"remove container">>}))
=============================================================================

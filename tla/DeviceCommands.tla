--------------------------- MODULE DeviceCommands ---------------------------
(***************************************************************************)
(* The plans of the commands "balena device ...".  What a plan branches on *)
(* besides its flags (what the API answers) is a parameter: the set        *)
(* "facts" of what is true of the device or of the fleet.                  *)
(***************************************************************************)
EXTENDS Lookups

On(verb, d) == {<<verb, d>>}

DeviceRm(ds, yes) ==
    ResolveDevices(ds) \o Confirm(yes)
        \o ForEach(ds, LAMBDA d : Noted(Send(On("remove device", d))))

(* The question comes before the lookup.                                   *)
DeviceDeactivate(d, yes) ==
    Confirm(yes) \o ResolveDevice(d) \o Send(On("deactivate device", d))

DeviceRename(d, nameGiven) ==
    When(~nameGiven, Prompt) \o ResolveDevice(d) \o Send(On("rename device", d))

DeviceNote(d, given) ==
    IF given # {"note", "device"} THEN Refuse
    ELSE ResolveDevice(d) \o Send(On("set note", d))

(* One lookup, one request: reboot, shutdown and identify only translate   *)
(* the error of a device that is not online.                               *)
DeviceReboot(d)     == ResolveDevice(d) \o Send(On("reboot", d))
DeviceShutdown(d)   == ResolveDevice(d) \o Send(On("shutdown", d))
DeviceIdentify(d)   == ResolveDevice(d) \o Send(On("identify", d))
DeviceTrackFleet(d) == ResolveDevice(d) \o Send(On("track fleet", d))

DevicePurge(ds) ==
    ResolveDevices(ds) \o ForEach(ds, LAMBDA d : Send(On("purge", d)))

DevicePin(d, release) ==
    Query \o When(release, Send(On("pin device", d)))

(* --enable, --disable, --status and no flag at all: the last two read.    *)
DeviceLocalMode(d, flag) ==
    ResolveDevice(d) \o CASE flag = "enable"  -> Send(On("enable local mode", d))
                          [] flag = "disable" -> Send(On("disable local mode", d))
                          [] OTHER -> Query

DevicePublicUrl(d, flag) ==
    ResolveDevice(d) \o CASE flag = "enable"  -> Send(On("enable URL", d))
                          [] flag = "disable" -> Send(On("disable URL", d))
                          [] OTHER -> Query

DeviceRegister(fleet) == GetApplication \o Send(On("register device", fleet))

(* The services of a device: missing ones are refused, and those without   *)
(* a container of the active release are left out without a word.          *)
ServiceRequests(verb, d, services, facts) ==
    {<<verb, d, s>> : s \in {s \in ToSet(services) : <<d, s, "running">> \in facts}}

MissingService(d, services, facts) ==
    \E s \in ToSet(services) : <<d, s, "missing">> \in facts

OnServices(verb, d, services, facts) ==
    Query \o (IF MissingService(d, services, facts) THEN Refuse
              ELSE LET es == ServiceRequests(verb, d, services, facts)
                   IN  When(es # {}, Send(es)))

(* restart looks a device up when its turn comes ...                       *)
RestartServices(d, services, facts) ==
    ResolveDevice(d) \o OnServices("restart service", d, services, facts)

RestartAllServices(d, facts) ==
    Query \o (IF <<d, "online">> \in facts THEN Send(On("restart application", d))
              ELSE Refuse)

DeviceRestart(ds, services, facts) ==
    ForEach(ds, LAMBDA d :
        IF services = <<>> THEN RestartAllServices(d, facts)
        ELSE RestartServices(d, services, facts))

(* ... stop-service and start-service look them all up first.              *)
DeviceStopService(ds, services, facts) ==
    ResolveDevices(ds)
        \o ForEach(ds, LAMBDA d : OnServices("stop service", d, services, facts))

DeviceStartService(ds, services, facts) ==
    ResolveDevices(ds)
        \o ForEach(ds, LAMBDA d : OnServices("start service", d, services, facts))

(* Without --fleet the user selects one that suits every device.           *)
SelectCompatibleFleet(suitable) ==
    Query \o SelectApplication(suitable)

DeviceMove(ds, fleetGiven, suitable) ==
    Query \o (IF fleetGiven THEN GetApplication ELSE SelectCompatibleFleet(suitable))
        \o ForEach(ds, LAMBDA d : Noted(Send(On("move device", d))))

(* facts: "version known", "targets", "listed" (the version asked for is a *)
(* target), "takeover", "current" (the target is the running release).     *)
(* The failure of the update itself is only printed.                       *)
UpdateType(facts) == When("current" \notin facts, Query)

DeviceOsUpdate(d, versionGiven, yes, facts) ==
    IF "version known" \notin facts THEN Query \o Refuse
    ELSE IF "targets" \notin facts THEN Query \o Query \o Refuse
    ELSE Query \o Query \o Query
        \o (IF ~versionGiven THEN Query \o Prompt
            ELSE RefuseWhen("listed" \notin facts))
        \o UpdateType(facts)
        \o When("takeover" \in facts /\ "current" \notin facts, Confirm(yes))
        \o Confirm(yes)
        \o Hidden(Send(On("update OS", d)))
=============================================================================

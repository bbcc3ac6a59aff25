------------------------------ MODULE Lookups ------------------------------
(***************************************************************************)
(* The helpers that the commands share (utils/sdk, utils/patterns): how a  *)
(* device, a fleet, a release or an organization is found, and what the    *)
(* user is asked for when the command line does not name it.  Each is the  *)
(* part of a plan that its calls await.                                    *)
(***************************************************************************)
EXTENDS Plans

CONSTANTS
    FullUuids,      \* the devices that are named by their full UUID
    Slugs           \* the fleets that are named by their slug

(* Only a prefix has to be looked up; the UUIDs of a list are looked up    *)
(* together.                                                               *)
GetDevice == Query
ResolveDevice(d)   == When(d \notin FullUuids, GetDevice)
ResolveDevices(ds) == When(~ (ToSet(ds) \subseteq FullUuids), GetDevice)

(* Who asks comes first: a device sees its own fleet only.                 *)
GetApplication == Query \o Query
GetFleetSlug(fleet) == When(fleet \notin Slugs, GetApplication)

GetRelease == Query

(* The organizations of the user: who the user is, then the list.          *)
OwnOrganizations == Query \o Query

(* The number of organizations decides: none is an error, one is it.       *)
SelectOrganization(number) ==
    OwnOrganizations \o CASE number = 0 -> Refuse [] number = 1 -> <<>> [] OTHER -> Prompt

(* Supported types first; all types when there is none.                    *)
SelectDeviceType(supported) == Query \o When(~supported, Query) \o Prompt

(* A fleet of the user, chosen from the list; an empty list is an error.   *)
SelectApplication(some) == Query \o (IF some THEN Prompt ELSE Refuse)

(* getOnlineTargetDeviceUuid.  target: a device that is "online" or        *)
(* "offline", or a fleet that has "devices" or "none" online.              *)
OnlineTarget(target) ==
    CASE target = "online"  -> GetDevice
      [] target = "offline" -> GetDevice \o Refuse
      [] target = "devices" -> GetApplication \o Prompt
      [] target = "none"    -> GetApplication \o Refuse
=============================================================================

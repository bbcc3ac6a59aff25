--------------------------- MODULE FleetCommands ---------------------------
(***************************************************************************)
(* The plans of the commands about fleets, apps and blocks, releases,      *)
(* release assets and organizations.                                       *)
(***************************************************************************)
EXTENDS Lookups

(* fleet create, app create, block create: one request, whose error is     *)
(* only translated.                                                        *)
ApplicationCreate(class, typeGiven, orgGiven, orgs) ==
    When(~typeGiven, SelectDeviceType(TRUE))
        \o When(~orgGiven, SelectOrganization(orgs))
        \o Send({<<"create", class>>})

FleetShow(view) == GetApplication \o When(view, Look)
FleetList == Query

FleetPin(releaseGiven) == Query \o When(releaseGiven, Send({<<"pin fleet">>}))

(* A fleet without an online device is not an error.                       *)
FleetPurge == GetApplication \o Failing({"throw", "hide"}, Send({<<"purge fleet">>}))

(* name: "given", "asked", or "slug" (contains a slash).  The fleet is read *)
(* again after the change.                                                 *)
FleetRename(name, legacy) ==
    GetApplication \o
        (IF legacy THEN Refuse
         ELSE When(name = "asked", Prompt) \o RefuseWhen(name = "slug")
              \o Send({<<"rename fleet">>}) \o GetApplication)

FleetRestart == GetApplication \o Send({<<"restart fleet">>})
FleetTrackLatest(fleet) == Send({<<"track latest", fleet>>})

(* The question comes before the lookup.                                   *)
FleetRm(yes) == Confirm(yes) \o GetApplication \o Send({<<"remove fleet">>})
-----------------------------------------------------------------------------
ReleaseShow(json) == GetRelease \o When(json, GetRelease)
ReleaseList(fleet, json) == GetFleetSlug(fleet) \o Query \o When(json, Query)

(* finalize, validate and invalidate: nothing to do when it already is.    *)
ReleaseChange(verb, already) == GetRelease \o When(~already, Send({<<verb>>}))

AssetDelete(yes) == GetRelease \o Confirm(yes) \o Send({<<"delete asset">>})
AssetList == GetRelease \o Query
AssetUpload == Look \o GetRelease \o Send({<<"upload asset">>})

(* The download is opened before the question about the file is asked.     *)
AssetDownload(empty, exists, overwrite) ==
    GetRelease \o Query \o
        (IF empty THEN Refuse
         ELSE Query \o When(exists /\ ~overwrite, Confirm(FALSE))
              \o Look \o Write({<<"write asset">>}))
-----------------------------------------------------------------------------
OrganizationCreate == Send({<<"create organization">>})
OrganizationList == OwnOrganizations

OrganizationRename(nameGiven) ==
    When(~nameGiven, Prompt) \o Query \o Send({<<"rename organization">>})

OrganizationRm(yes) == Query \o Confirm(yes) \o Send({<<"remove organization">>})
=============================================================================

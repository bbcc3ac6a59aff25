------------------------------- MODULE Traits -------------------------------
(***************************************************************************)
(* What the class of a command declares and the prerun hook enforces:      *)
(* a session (authenticated), elevated privileges (root), and, unless it   *)
(* is offlineCompatible, that the offline mode is off.                     *)
(***************************************************************************)
Authenticated == {
    "api-key generate", "api-key list", "api-key revoke", "app create", "block create",
    "config generate", "config reconfigure", "deploy", "device", "device deactivate",
    "device identify", "device init", "device list", "device local-mode", "device move",
    "device note", "device os-update", "device pin", "device public-url", "device purge",
    "device reboot", "device register", "device rename", "device restart", "device rm",
    "device shutdown", "device start-service", "device stop-service", "device track-fleet",
    "device tunnel", "fleet", "fleet create", "fleet list", "fleet pin", "fleet purge",
    "fleet rename", "fleet restart", "fleet rm", "fleet track-latest", "join", "leave",
    "organization create", "organization list", "organization rename", "organization rm",
    "os configure", "os initialize", "preload", "release", "release-asset delete",
    "release-asset download", "release-asset list", "release-asset upload",
    "release finalize", "release invalidate", "release list", "release validate",
    "ssh-key", "ssh-key add", "ssh-key list", "ssh-key rm", "support", "tag list", "tag rm",
    "tag set", "whoami"}

Root == {
    "config inject", "config read", "config reconfigure", "config write", "device detect",
    "internal osinit", "local configure"}

OfflineCompatible == {
    "config inject", "config read", "config write", "device detect", "device ssh",
    "internal osinit", "local configure", "local flash", "util available-drives"}

Needs(cmd) ==
    {"login" : x \in {cmd} \cap Authenticated}
        \cup {"root" : x \in {cmd} \cap Root}
        \cup {"online" : x \in {cmd} \ OfflineCompatible}
=============================================================================

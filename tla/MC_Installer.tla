---------------------------- MODULE MC_Installer ----------------------------
(* A configuration shaped like installation_config.yaml: one group and   *)
(* one user, one runtime directory and one executable owned by them, a   *)
(* second executable that was not built, a config file, a socket unit    *)
(* that is enabled, started and verified, and its service unit.           *)
EXTENDS Installer

MCGroupList == <<"lightap">>
MCUserList  == <<"lightap">>
MCDirList   == <<"/run/lightap">>
MCExeList   == <<"registryd", "registry-tool">>
MCCfgList   == <<"slots.yaml">>
MCUnitList  == <<"registry.socket", "registry.service">>

MCOwner      == [x \in {"/run/lightap", "registryd", "registry-tool"} |->
                   IF x = "registryd" THEN "root" ELSE "lightap"]
MCOwnerGroup == [x \in {"/run/lightap", "registryd", "registry-tool"} |-> "lightap"]

MCSockets  == {"registry.socket"}
MCBuilt    == {"registryd", "slots.yaml", "registry.socket", "registry.service"}
=============================================================================

-------------------------- MODULE MCExternalUpdater --------------------------
(* ExternalUpdater for TLC: a bundle of four files, which a production bundle  *)
(* has among others, one directory and one file of user data.               *)
EXTENDS ExternalUpdater

MCPayload == <<"Vast.exe", "version.json", "resources/app.asar",
               "resources/version.json">>
MCItems == <<"Partitions", "vast-data.json">>
MCFolders == {"Partitions"}
MCCritical == {"Partitions"}
=============================================================================

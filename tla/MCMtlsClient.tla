---------------------------- MODULE MCMtlsClient ----------------------------
(* Instances of MtlsClient for TLC; the .cfg files give the faults.        *)
EXTENDS MtlsClient

MCConfigs == [verify : BOOLEAN, cert : BOOLEAN]
MCServers == [trusted : BOOLEAN, demands : BOOLEAN, version : {"tls12", "tls13"}]

=============================================================================

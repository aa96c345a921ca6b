--------------------------- MODULE MCDataPipeline ---------------------------
(* Two archives of which the operator accepts one; the configuration names  *)
(* no digest, or the accepted one; two hashing policies and two parts.      *)
EXTENDS DataPipeline

MCConfigurations == {{}, {"a"}}
=============================================================================

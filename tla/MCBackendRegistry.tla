-------------------------- MODULE MCBackendRegistry --------------------------
(***************************************************************************)
(* A remote host, a provider with one model variant, and a local engine.   *)
(***************************************************************************)
EXTENDS BackendRegistry

MCNameOf == [k \in {"gpu", "glm"} |-> IF k = "gpu" THEN 1 ELSE 2]
=============================================================================

---------------------------- MODULE MCAgentCalls ----------------------------
(***************************************************************************)
(* Two tasks of any kinds, over a session older than tenants and one that  *)
(* a request may create, served by processes with and without              *)
(* authentication, while the tracing backend may lose a span.              *)
(***************************************************************************)
EXTENDS AgentCalls
CONSTANTS T1, T2
=============================================================================

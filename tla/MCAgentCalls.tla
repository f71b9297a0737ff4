---------------------------- MODULE MCAgentCalls ----------------------------
(* Two threads; the providers with their keys and SDKs set or missing.     *)
EXTENDS AgentCalls

\* "openai" makes of a reply what "ollama" does.
MCRemotes == {"openai_responses", "anthropic", "bedrock", "ollama"}
=============================================================================

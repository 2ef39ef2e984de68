----------------------------- MODULE MCAgentLink -----------------------------
EXTENDS AgentLink
=============================================================================

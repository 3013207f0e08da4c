-------------------------- MODULE MCAgentLifecycle --------------------------
EXTENDS AgentLifecycle
=============================================================================

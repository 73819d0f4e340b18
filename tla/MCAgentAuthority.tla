-------------------------- MODULE MCAgentAuthority --------------------------
EXTENDS AgentAuthority

CONSTANTS opencode, claude

NewReplaces == {<<opencode, "new">>, <<claude, "clear">>}
Announces == {<<opencode, "none">>, <<claude, "startup">>}
EitherWay == {None, [agent |-> opencode, ref |-> 1]}
=============================================================================

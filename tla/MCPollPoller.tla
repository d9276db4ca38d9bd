---------------------------- MODULE MCPollPoller ----------------------------
EXTENDS PollPoller
==============================================================================

---------------------------- MODULE MCEpollSelect ----------------------------
EXTENDS EpollSelect
==============================================================================

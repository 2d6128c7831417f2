SPECIFICATION FairSpec
CONSTANT Reason = {"cancel_requested", "agent_stopped"}
PROPERTY TerminationKillsGroup
CHECK_DEADLOCK FALSE

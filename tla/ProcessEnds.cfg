SPECIFICATION FairSpec
CONSTANT Reason = {"cancel_requested", "agent_stopped"}
INVARIANT FlagsExplainSignals
PROPERTIES FirstTerminationWins EveryProcessEnds HonestGroupDies
CHECK_DEADLOCK FALSE

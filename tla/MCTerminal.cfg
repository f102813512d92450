\* One terminal session, from the launch to its end, with late hosts, closed
\* windows and killed hosts.  Every process may come to rest.
SPECIFICATION FairTerminalSpec
CHECK_DEADLOCK FALSE
INVARIANTS SuccessIsTrue
PROPERTIES LeftPluginsEnd ImplementsPort

--------------------------- MODULE MCEdgeProfile ---------------------------
EXTENDS EdgeProfile

Ask(s, h, siginfo, resethand) ==
    [signal |-> s, handler |-> h, siginfo |-> siginfo, resethand |-> resethand]

\* Handlers, handlers to be used once, ignored signals, and default actions.
AllAsks ==
    {Ask("TERM", "user", FALSE, TRUE),
     Ask("TERM", "dfl", FALSE, FALSE), Ask("TERM", "dfl", TRUE, FALSE),
     Ask("TRAP", "user", FALSE, FALSE),
     Ask("CHLD", "user", FALSE, TRUE), Ask("CHLD", "ign", FALSE, FALSE)}
=============================================================================

------------------------------ MODULE MCDaemon ------------------------------
EXTENDS Daemon

CONSTANTS d1, o1

MCPath(name, length, extension, absolute, directory) ==
  [stem      |-> [name |-> name, length |-> length, clean |-> TRUE, dots |-> FALSE],
   extension |-> extension, absolute |-> absolute, directory |-> directory]

\* Two files of one interface, one of another, and names that are refused: a
\* relative path, another extension and a stem that is too long.
MCPaths ==
  {MCPath("wg0", 3, "conf", TRUE, "etc"), MCPath("wg0", 3, "conf", TRUE, "tmp"),
   MCPath("wg1", 3, "conf", TRUE, "etc"), MCPath("wg1", 3, "conf", FALSE, "etc"),
   MCPath("wg0", 3, "txt", TRUE, "etc"), MCPath("wg2", 16, "conf", TRUE, "etc")}
=============================================================================

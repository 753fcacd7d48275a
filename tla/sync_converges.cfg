\* Failing calls and crashes; or power is lost and applying an interface
\* succeeds; or the device disappears and recovery succeeds, too.
SPECIFICATION FairSpec
CONSTANTS
  None = None  Torn = Torn  c1 = c1  c2 = c2  c3 = c3
  Contents = {c1, c2, c3}
  Nodes = {"fresh", "installed"}
  Forces = {FALSE}
  Risks = { {"discover", "preflight", "backup", "mark", "teardown",
             "install", "device", "link", "finish", "rollback", "settle",
             "recover", "unmark", "crash"},
            {"discover", "preflight", "backup", "mark", "teardown",
             "install", "finish", "rollback", "settle", "lost"},
            {"discover", "preflight", "backup", "mark", "teardown",
             "install", "finish", "rollback", "settle", "recover",
             "unmark", "power"} }
  Republish = FALSE
  MaxPublications = 3
  MaxFaults = 3
INVARIANTS TypeOK
PROPERTIES NoOpExact InstallExact Converges

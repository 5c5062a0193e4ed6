\* Two ports, one needs the other; the cluster is at work.
SPECIFICATION Spec
CONSTANTS
  Ports = {"app", "lib"}
  RunDepends <- MCRunDepends
  Names = {"a.tgz", "b.tgz", "c.tgz:tag", "../d"}
  Files = {"a.tgz", "b.tgz", "sub/b.tgz", "c.tgz"}
  Normal <- MCNormal
  Base <- MCBase
  Distfiles <- MCDistfiles
  RestrictedFiles <- MCRestrictedFiles
  Source = {"a.tgz", "sub/b.tgz", "c.tgz"}
INVARIANTS TypeOK DependsListed DependsComplete AuditCatches
PROPERTIES BlessedAccounted

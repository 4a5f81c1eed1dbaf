SPECIFICATION Spec
SYMMETRY Sym
CONSTANTS
  p1 = p1
  p2 = p2
  i1 = i1
  a1 = a1
  a2 = a2
  Proc <- Procs
  Inode <- Inodes
  NoInode = NoInode
  Addr <- Addrs
  Comment = Comment
  Bad = Bad
  Absent = Absent
  Unlimited = Unlimited
  MaxTime = 1
  MaxExpire = 1
  MaxLines = 4
  InitialFiles <- Files
  Garbled <- MCGarbled
  CrossDevice <- CopyMove
  Faults <- SomeFault
  MaxFailures = 1
PROPERTY KillSparesOthers

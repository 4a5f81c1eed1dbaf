SPECIFICATION FairSpec
CONSTANTS
  p1 = p1
  p2 = p2
  i1 = i1
  i2 = i2
  i3 = i3
  a1 = a1
  a2 = a2
  Proc <- Procs
  Inode <- Inodes
  NoInode = NoInode
  Addr <- Addrs
  Val <- Vals
  NoVal = 0
  Op <- Ops
  Apply <- MCApply
  CutOf <- MCCutOf
  ReadOp = ReadOp
INVARIANTS TypeOK MutualExclusion NoLostUpdate TmpIsComplete
PROPERTIES ImplementsStore LockIsReleased

SPECIFICATION Spec
CONSTANTS
  file1 = file1
  file2 = file2
  zero = zero
  val1 = val1
  val2 = val2
  InitName = file1
  Index <- MCIndex
  Reads <- MCReads
  Writes <- MCWrites
  none = none
  junk = junk
  hole = hole
  NBLOCKS = 7
  NDIRECT = 1
  NINDIRECT = 2
  BLKSIZE = 2
  BLKFILES = 1
  Names <- MCNames
  Empty = none
  Val <- MCVal
  Zero = zero
  Junk = junk
  Hole = hole
  Sizes <- MCSizes
  Lapses = {}
INVARIANT BitmapFlushed

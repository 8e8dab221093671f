SPECIFICATION Spec
CONSTANTS
  p = p
  q = q
  a = a
  b = b
  s = s
  short = short
  long = long
  Procs = {p, q}
  Names = {a, b, s}
  HashSize = 2
  Values = {short, long}
  Default = short
  Space = 40
  Torn = Torn
  Damaged = Damaged
  Fragments <- MCFragments
  NameLen <- MCNameLen
  ValLen <- MCValLen
  Canon <- MCCanon
  Bucket <- MCBucket
  SpecialSeq <- MCSpecialSeq
  Commands <- MCCommands
  Flash0 <- MCFlash0
INVARIANTS
  ImagesSound
  WholeIfSolo
  NoEmptyStaging
PROPERTY
  IsStore

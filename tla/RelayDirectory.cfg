\* Two addresses, three ports of each of two kinds.
SPECIFICATION Spec
CONSTANTS
  Mac = {m1, m2}
  Port = {1, 2, 3}
INVARIANT
  DirectoryIsTidy
PROPERTY
  ImplementsPortList

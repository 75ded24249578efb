\* Every input of every family, at two scanlines to a pixel row.
SPECIFICATION Spec
CONSTANTS
  SUBSAMPLES = 2
INVARIANTS
  PixelsExact
  FilesReadBack
  OutlinesFaithful
\* A task that is done is not followed by another.
CHECK_DEADLOCK FALSE

SPECIFICATION NotesSpec
CONSTANTS
  MaxNotes = 2
  MaxNumber = 4
  Text = {Empty, Words}
  Empty = Empty
  NoFile = NoFile
  CardFails = FALSE
PROPERTIES NewNumberIsFree
CHECK_DEADLOCK FALSE

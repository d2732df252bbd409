SPECIFICATION FairSpec
CONSTANTS
  Size = 4
  DataSize = 4
  BufLen = 3
  Byte = {0, 1}
PROPERTIES FifoSpec BytesAreTaken

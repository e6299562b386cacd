CONSTANTS
  StartNextAp = StartNextAp
  DeallocateMemory = DeallocateMemory
  UpdateOutput = UpdateOutput
  NoCommand = NoCommand
  Command = {StartNextAp, DeallocateMemory, UpdateOutput}
  PayloadSize <- MCPayloadSize
  COMMAND_BUFFER_SIZE = 7
SPECIFICATION FairSpec
INVARIANT BufferSound
PROPERTIES ImplementsQueue EveryCommandHandled
